-------------------------- MODULE AgentCallsProofs --------------------------
(***************************************************************************)
(* Theorems of AgentCalls: for any number of calls, sessions, handles, tools  *)
(* and servers, and any interleaving of them.                                *)
(***************************************************************************)
EXTENDS AgentCalls, DataLemmas, TLAPS

-----------------------------------------------------------------------------
(* The tool host's servers                                                 *)

\* Why a mounted server can be cancelled: its handle is in the list, or was
\* drained from it, before its spec is recorded.
MountInv ==
    /\ mountStep \in [Mount -> MountStep]
    /\ \A m \in Mount :
          /\ transport[m] = "stdio"
          /\ m \in mounted \/ mountStep[m] = "record"
          => m \in handles \cup cancelled

mounts == <<mountStep, handles, mounted, cancelled>>

\* tools.rs: no section of mount_mcp, shutdown_mcp or the others breaks it.
LEMMA HostKeepsMounts ==
    ASSUME MountInv, HostNext
    PROVE  MountInv'
<1> USE DEF MountInv, MountGoto, MountStep
<1>1. ASSUME NEW n \in ToolName, RegisterNative(n) PROVE MountInv'
  BY <1>1 DEF RegisterNative
<1>2. ASSUME NEW n \in ToolName, NEW res \in {"ok", "error"}, Enqueue(n, res)
      PROVE  MountInv'
  BY <1>2 DEF Enqueue
<1>3. ASSUME NEW m \in Mount, MountStart(m) PROVE MountInv'
  BY <1>3 DEF MountStart
<1>4. ASSUME NEW m \in Mount, MountConnects(m) PROVE MountInv'
  BY <1>4 DEF MountConnects
<1>5. ASSUME NEW m \in Mount, MountRegister(m) PROVE MountInv'
  BY <1>5 DEF MountRegister
<1>6. ASSUME NEW m \in Mount, MountHandle(m) PROVE MountInv'
  BY <1>6 DEF MountHandle
<1>7. ASSUME NEW m \in Mount, MountRecord(m) PROVE MountInv'
  BY <1>7 DEF MountRecord
<1>8. CASE ShutdownMcp
  BY <1>8 DEF ShutdownMcp
<1> QED
  BY <1>1, <1>2, <1>3, <1>4, <1>5, <1>6, <1>7, <1>8 DEF HostNext

\* agent.rs: a call's own steps leave the mounts alone.
LEMMA CallsLeaveMounts ==
    ASSUME NEW c \in Call, Chat(c) \/ Send(c) \/ CallStep(c) \/ Drop(c)
    PROVE  UNCHANGED mounts
  BY DEF Chat, Send, CallStep, Drop, SendLists, Exhausted, ProviderError, FinalReply,
         ModelCalls, BeginCall, Invoking, EndCall, NoHostAnswer, ToolTurn, Commit,
         LogInvocation, TakeCanned, LookUp, ToolReturns, EndInvoke, host, mounts

\* MountedServersAreCancellable, for any servers and any number of calls beside.
THEOREM MountsAreCancellable == Spec => []MountedServersAreCancellable
<1>1. Init => MountInv
  BY DEF Init, HostInit, MountInv, MountStep
<1>2. MountInv /\ [Next]_vars => MountInv'
  <2> SUFFICES ASSUME MountInv, [Next]_vars PROVE MountInv'
    OBVIOUS
  <2>1. CASE HostStep
    BY <2>1, HostKeepsMounts DEF HostStep
  <2>2. CASE UNCHANGED mounts
    BY <2>2 DEF mounts, MountInv
  <2>3. CASE UNCHANGED vars
    BY <2>3 DEF vars, host, MountInv
  <2> QED
    BY <2>1, <2>2, <2>3, CallsLeaveMounts DEF Next
<1>3. MountInv /\ mounted \subseteq Mount => MountedServersAreCancellable
  BY DEF MountInv, MountedServersAreCancellable
<1>4. Init => mounted \subseteq Mount
  BY DEF Init, HostInit
<1>5. mounted \subseteq Mount /\ [Next]_vars => (mounted \subseteq Mount)'
  <2> SUFFICES ASSUME mounted \subseteq Mount, [Next]_vars PROVE mounted' \subseteq Mount
    OBVIOUS
  <2>1. CASE HostStep
    BY <2>1 DEF HostStep, HostNext, RegisterNative, Enqueue, MountStart, MountConnects,
                MountRegister, MountHandle, MountRecord, ShutdownMcp
  <2> QED
    BY <2>1, CallsLeaveMounts DEF Next, vars, host, mounts
<1> QED
  BY <1>1, <1>2, <1>3, <1>4, <1>5, PTL DEF Spec

-----------------------------------------------------------------------------
(* Types                                                                   *)

\* tools.rs: register_native, mount_mcp and shutdown_mcp keep the host typed.
LEMMA HostKeepsTypes ==
    ASSUME HostTypeOK, HostNext
    PROVE  HostTypeOK'
<1> USE HostConstants DEF HostTypeOK, MountGoto, MountStep, Owner
<1>1. ASSUME NEW n \in ToolName, RegisterNative(n) PROVE HostTypeOK'
  BY <1>1 DEF RegisterNative
<1>2. ASSUME NEW n \in ToolName, NEW res \in {"ok", "error"}, Enqueue(n, res)
      PROVE  HostTypeOK'
  BY <1>2 DEF Enqueue
<1>3. ASSUME NEW m \in Mount, MountStart(m) PROVE HostTypeOK'
  BY <1>3 DEF MountStart
<1>4. ASSUME NEW m \in Mount, MountConnects(m) PROVE HostTypeOK'
  <2>1. \/ mountStep' = [mountStep EXCEPT ![m] = "register"]
        \/ mountStep' = [mountStep EXCEPT ![m] = "failed"]
    BY <1>4 DEF MountConnects
  <2>2. mountStep' \in [Mount -> MountStep]
    BY <2>1
  <2> QED
    BY <1>4, <2>2 DEF MountConnects
<1>5. ASSUME NEW m \in Mount, MountRegister(m) PROVE HostTypeOK'
  BY <1>5 DEF MountRegister
<1>6. ASSUME NEW m \in Mount, MountHandle(m) PROVE HostTypeOK'
  BY <1>6 DEF MountHandle
<1>7. ASSUME NEW m \in Mount, MountRecord(m) PROVE HostTypeOK'
  BY <1>7 DEF MountRecord
<1>8. CASE ShutdownMcp
  BY <1>8 DEF ShutdownMcp
<1> QED
  BY <1>1, <1>2, <1>3, <1>4, <1>5, <1>6, <1>7, <1>8 DEF HostNext

\* tools.rs: so does every section of invoke, also when its future is dropped.
LEMMA InvokeKeepsTypes ==
    ASSUME HostTypeOK, NEW c \in Call, InvokeNext(c)
    PROVE  HostTypeOK'
<1>1. /\ native \in [ToolName -> Owner] /\ canned \in [ToolName -> Seq({"ok", "error"})]
      /\ invoked \in [Call -> Seq(ToolName)] /\ invocation \in [Call -> Invocation]
  BY DEF HostTypeOK
<1>2. /\ UNCHANGED <<native, seeded, mountStep, handles, mounted, cancelled>>
      /\ canned' \in [ToolName -> Seq({"ok", "error"})]
      /\ invoked' \in [Call -> Seq(ToolName)]
      /\ invocation' \in [Call -> Invocation]
  <2>1. \A n \in ToolName : [NoInvocation EXCEPT !.step = "logged", !.name = n] \in Invocation
    BY DEF NoInvocation, Invocation, Result
  <2>2. invocation[c] # NoInvocation =>
           /\ invocation[c].name \in ToolName
           /\ \A s \in {"lookup", "calling", "answered"} :
                 /\ [invocation[c] EXCEPT !.step = s] \in Invocation
                 /\ \A res \in Result :
                       [invocation[c] EXCEPT !.step = s, !.result = res] \in Invocation
    BY <1>1 DEF Invocation
  <2>3. \A s \in {"logged", "lookup", "calling", "answered"} :
           InInvoke(c, s) => invocation[c] # NoInvocation
    <3>1. NoInvocation.step = "none"
      BY DEF NoInvocation
    <3> QED
      BY <3>1 DEF InInvoke
  <2>4. CASE \E n \in ToolName : LogInvocation(c, n)
    <3>1. PICK n \in ToolName : LogInvocation(c, n)
      BY <2>4
    <3>2. invoked' \in [Call -> Seq(ToolName)]
      BY <3>1, <1>1 DEF LogInvocation
    <3> DEFINE v == [NoInvocation EXCEPT !.step = "logged", !.name = n]
    <3>3. v \in Invocation
      BY <2>1
    <3>4. invocation' = [invocation EXCEPT ![c] = v]
      BY <3>1 DEF LogInvocation
    <3> HIDE DEF v
    <3>5. invocation' \in [Call -> Invocation]
      BY <1>1, <3>3, <3>4
    <3> QED
      BY <3>1, <1>1, <3>2, <3>5 DEF LogInvocation
  <2>5. CASE TakeCanned(c)
    <3> DEFINE n == invocation[c].name
    <3>1. /\ InInvoke(c, "logged") /\ n \in ToolName
          /\ UNCHANGED <<native, seeded, mountStep, handles, mounted, cancelled, invoked>>
      BY <2>5, <2>2, <2>3 DEF TakeCanned
    <3>2. CASE canned[n] = << >>
      <4>1. invocation' = [invocation EXCEPT ![c] = [invocation[c] EXCEPT !.step = "lookup"]]
        BY <2>5, <3>2 DEF TakeCanned
      <4>2. UNCHANGED canned
        BY <2>5, <3>2 DEF TakeCanned
      <4>3. [invocation[c] EXCEPT !.step = "lookup"] \in Invocation
        BY <2>2, <2>3, <3>1
      <4> HIDE DEF n
      <4> QED
        BY <1>1, <3>1, <4>1, <4>2, <4>3
    <3>3. CASE canned[n] # << >>
      <4>1. Head(canned[n]) \in {"ok", "error"} /\ Tail(canned[n]) \in Seq({"ok", "error"})
        BY <1>1, <3>1, <3>3
      <4>2. invocation' = [invocation EXCEPT ![c] =
                  [invocation[c] EXCEPT !.step = "answered", !.result = Head(canned[n])]]
        BY <2>5, <3>3 DEF TakeCanned
      <4>3. canned' = [canned EXCEPT ![n] = Tail(canned[n])]
        BY <2>5, <3>3 DEF TakeCanned
      <4>4. [invocation[c] EXCEPT !.step = "answered", !.result = Head(canned[n])] \in Invocation
        BY <2>2, <2>3, <3>1, <4>1 DEF Result
      <4> HIDE DEF n
      <4> QED
        BY <1>1, <3>1, <4>1, <4>2, <4>3, <4>4
    <3> QED
      BY <3>2, <3>3
  <2>6. CASE LookUp(c)
    <3>1. \/ invocation' = [invocation EXCEPT ![c] =
                [invocation[c] EXCEPT !.step = "answered", !.result = "unknown"]]
          \/ invocation' = [invocation EXCEPT ![c] = [invocation[c] EXCEPT !.step = "calling"]]
      BY <2>6 DEF LookUp
    <3>2. /\ [invocation[c] EXCEPT !.step = "answered", !.result = "unknown"] \in Invocation
          /\ [invocation[c] EXCEPT !.step = "calling"] \in Invocation
      BY <2>6, <2>2, <2>3 DEF LookUp, Result
    <3> QED
      BY <2>6, <1>1, <3>1, <3>2 DEF LookUp
  <2>7. CASE ToolReturns(c)
    <3>1. PICK res \in {"ok", "error"} :
             invocation' = [invocation EXCEPT ![c] =
                [invocation[c] EXCEPT !.step = "answered", !.result = res]]
      BY <2>7 DEF ToolReturns
    <3>2. [invocation[c] EXCEPT !.step = "answered", !.result = res] \in Invocation
      BY <2>7, <2>2, <2>3 DEF ToolReturns, Result
    <3> QED
      BY <2>7, <1>1, <3>1, <3>2 DEF ToolReturns
  <2>8. CASE EndInvoke(c)
    BY <2>8, <1>1 DEF EndInvoke, Invocation
  <2> QED
    BY <2>4, <2>5, <2>6, <2>7, <2>8 DEF InvokeNext
<1> QED
  BY <1>2 DEF HostTypeOK

\* usage.rs: whatever a provider reports becomes a usage in range.
LEMMA ReportedUsageInRange ==
    ASSUME NEW reported \in Reported
    PROVE  FromAdkUsage(reported) \in Usage
  BY CallConstants DEF FromAdkUsage, Usage, DefaultUsage

\* agent.rs, accumulate: sums stay in range.
LEMMA AccumulatedInRange ==
    ASSUME NEW cum \in Usage, NEW add \in Usage
    PROVE  Accumulated(cum, add) \in Usage
<1>1. /\ cum.tokens \in 0..MaxCount /\ add.tokens \in 0..MaxCount
      /\ add.source \in {"native", "estimate", "unknown"}
  BY DEF Usage
<1>2. Saturate(cum.tokens + add.tokens) \in 0..MaxCount
  BY <1>1, CallConstants DEF Saturate
<1> QED
  BY <1>1, <1>2 DEF Accumulated, Usage

\* agent.rs: the turns that a call adds are turns.
LEMMA TurnsAreTyped ==
    ASSUME NEW c \in Call
    PROVE  /\ User(c) \in Turns
           /\ \A calls \in Seq(ToolName) : Model(c, calls) \in Turns
           /\ \A results \in Seq(Answers) : Tool(c, results) \in Turns
<1>1. << >> \in Seq(ToolName)
  OBVIOUS
<1> QED
  BY <1>1 DEF User, Model, Tool, Turns

\* What CallsTypeOK says of the agent's own state.
AgentTypeOK ==
    /\ phase \in [Call -> Phase]
    /\ contents \in [Call -> Seq(Turns)]
    /\ offered \in [Call -> SUBSET ToolName]
    /\ turn \in [Call -> Nat]
    /\ pending \in [Call -> Seq(ToolName)]
    /\ answers \in [Call -> Seq(Answers)]
    /\ usage \in [Call -> Usage]
    /\ history \in [Session -> Seq(Turns)]
    /\ cumulative \in [Session -> Usage]

\* A step of an invocation that the agent does not see leaves its types alone.
LEMMA UnchangedAgentTyped ==
    ASSUME AgentTypeOK, UNCHANGED agent
    PROVE  AgentTypeOK'
  BY DEF AgentTypeOK, agent

\* An invocation is of the first call that is pending, while its call dispatches.
Serving ==
    \A c \in Call : ~ InInvoke(c, "none") =>
        /\ c \in HasHost /\ At(c, "dispatch") /\ pending[c] # << >>
        /\ invocation[c].name = Head(pending[c])

\* agent.rs: a call's steps keep the agent's state typed.
LEMMA CallKeepsTypes ==
    ASSUME HostTypeOK, AgentTypeOK, Serving, NEW c \in Call,
           Chat(c) \/ Send(c) \/ CallStep(c) \/ Drop(c)
    PROVE  AgentTypeOK'
<1> USE DEF AgentTypeOK, Goto, At, Phase
<1>1. CASE Chat(c)
  <2>1. <<User(c)>> \in Seq(Turns)
    BY TurnsAreTyped
  <2>2. Resolved(c) \in SUBSET ToolName
    BY CallConstants DEF Resolved, Listed
  <2> QED
    BY <1>1, <2>1, <2>2 DEF Chat
<1>2. CASE Send(c)
  <2>1. session[c] \in Session
    BY <1>2, CallConstants DEF Send, IsSend
  <2>2. Append(history[session[c]], User(c)) \in Seq(Turns)
    BY <2>1, TurnsAreTyped
  <2> QED
    BY <1>2, <2>1, <2>2 DEF Send
<1>3. CASE SendLists(c)
  <2>1. Resolved(c) \in SUBSET ToolName
    BY CallConstants DEF Resolved, Listed
  <2> QED
    BY <1>3, <2>1 DEF SendLists
<1>4. CASE Exhausted(c)
  BY <1>4 DEF Exhausted
<1>5. CASE ProviderError(c)
  BY <1>5 DEF ProviderError
<1>6. ASSUME NEW reported \in Reported, Responds(c, reported)
      PROVE  usage' \in [Call -> Usage]
  <2>1. Accumulated(usage[c], FromAdkUsage(reported)) \in Usage
    BY ReportedUsageInRange, AccumulatedInRange
  <2> QED
    BY <1>6, <2>1 DEF Responds
<1>7. CASE FinalReply(c)
  <2>1. Append(contents[c], Model(c, << >>)) \in Seq(Turns)
    <3>1. << >> \in Seq(ToolName)
      OBVIOUS
    <3>2. Model(c, << >>) \in Turns /\ contents[c] \in Seq(Turns)
      BY <3>1, TurnsAreTyped
    <3> QED
      BY <3>2
  <2>2. usage' \in [Call -> Usage]
    BY <1>6, <1>7 DEF FinalReply
  <2> QED
    BY <1>7, <2>1, <2>2 DEF FinalReply
<1>8. CASE ModelCalls(c)
  <2>1. usage' \in [Call -> Usage]
    BY <1>6, <1>8 DEF ModelCalls
  <2>2. PICK calls \in Seq(ToolName) :
           /\ contents' = [contents EXCEPT ![c] = Append(@, Model(c, calls))]
           /\ pending' = [pending EXCEPT ![c] = calls]
    <3>1. PICK n \in 1..MaxBatch : \E calls \in [1..n -> ToolName] :
             /\ contents' = [contents EXCEPT ![c] = Append(@, Model(c, calls))]
             /\ pending' = [pending EXCEPT ![c] = calls]
      BY <1>8 DEF ModelCalls
    <3>2. \A calls \in [1..n -> ToolName] : calls \in Seq(ToolName)
      BY <3>1, CallConstants
    <3> QED
      BY <3>1, <3>2
  <2>3. calls \in Seq(ToolName)
    BY <2>2
  <2>4. Append(contents[c], Model(c, calls)) \in Seq(Turns)
    BY <2>3, TurnsAreTyped
  <2>5. /\ contents' \in [Call -> Seq(Turns)] /\ pending' \in [Call -> Seq(ToolName)]
        /\ answers' \in [Call -> Seq(Answers)]
    <3>1. << >> \in Seq(Answers) /\ answers' = [answers EXCEPT ![c] = << >>]
      BY <1>8 DEF ModelCalls
    <3> QED
      BY <2>2, <2>3, <2>4, <3>1
  <2> QED
    BY <1>8, <2>1, <2>5 DEF ModelCalls
<1>9. CASE BeginCall(c) \/ Invoking(c)
  BY <1>9, UnchangedAgentTyped DEF BeginCall, Invoking
<1>10. ASSUME NEW result \in Result, pending[c] # << >>, Answered(c, result)
       PROVE  AgentTypeOK'
  <2>1. Head(pending[c]) \in ToolName /\ Tail(pending[c]) \in Seq(ToolName)
    BY <1>10
  <2>2. Append(answers[c], Answer(Head(pending[c]), result)) \in Seq(Answers)
    <3>1. Answer(Head(pending[c]), result) \in Answers
      BY <2>1 DEF Answer, Answers
    <3>2. answers[c] \in Seq(Answers)
      OBVIOUS
    <3> HIDE DEF AgentTypeOK
    <3> QED
      BY <3>1, <3>2
  <2> QED
    BY <1>10, <2>1, <2>2 DEF Answered
<1>11. CASE EndCall(c)
  <2>2. pending[c] # << >>
    BY <1>11 DEF EndCall, Serving, InInvoke
  <2>1. invocation[c].result \in Result
    <3>1. invocation[c] \in Invocation
      BY DEF HostTypeOK
    <3>2. NoInvocation.result \in Result
      BY DEF NoInvocation, Result
    <3> QED
      BY <3>1, <3>2 DEF Invocation
  <2> QED
    BY <1>10, <1>11, <2>1, <2>2 DEF EndCall
<1>12. CASE NoHostAnswer(c)
  BY <1>10, <1>12 DEF NoHostAnswer, Result
<1>13. CASE ToolTurn(c)
  <2>1. Append(contents[c], Tool(c, answers[c])) \in Seq(Turns)
    BY TurnsAreTyped
  <2> QED
    BY <1>13, <2>1 DEF ToolTurn
<1>14. CASE Commit(c)
  <2> DEFINE s == session[c]
  <2>1. s \in Session => Accumulated(cumulative[s], usage[c]) \in Usage
    BY AccumulatedInRange
  <2>2. cumulative' \in [Session -> Usage] /\ history' \in [Session -> Seq(Turns)]
    BY <1>14, <2>1 DEF Commit
  <2> QED
    BY <1>14, <2>2 DEF Commit
<1>15. CASE Drop(c)
  BY <1>15 DEF Drop
<1> QED
  BY <1>1, <1>2, <1>3, <1>4, <1>5, <1>7, <1>8, <1>9, <1>11, <1>12, <1>13, <1>14, <1>15
  DEF CallStep

Typed == HostTypeOK /\ AgentTypeOK /\ Serving

\* tools.rs, invoke: what its sections do to the record of the invocation.
LEMMA InvokingKeepsName ==
    ASSUME NEW c \in Call, HostTypeOK, Invoking(c)
    PROVE  /\ ~ InInvoke(c, "none") /\ ~ InInvoke(c, "none")'
           /\ invocation'[c].name = invocation[c].name
           /\ \A d \in Call \ {c} : invocation'[d] = invocation[d]
           /\ UNCHANGED agent
<1> DEFINE with(s) == [invocation[c] EXCEPT !.step = s]
           answered(res) == [invocation[c] EXCEPT !.step = "answered", !.result = res]
<1>1. invocation \in [Call -> Invocation]
  BY DEF HostTypeOK
<1>2. ~ InInvoke(c, "none") /\ UNCHANGED agent
  BY DEF Invoking, TakeCanned, LookUp, ToolReturns, InInvoke
<1>3. \E v : /\ invocation' = [invocation EXCEPT ![c] = v]
             /\ \/ v = with("lookup") \/ v = with("calling")
                \/ \E res : v = answered(res)
  BY DEF Invoking, TakeCanned, LookUp, ToolReturns
<1>4. /\ with("lookup").step = "lookup" /\ with("calling").step = "calling"
      /\ \A res : answered(res).step = "answered"
      /\ with("lookup").name = invocation[c].name /\ with("calling").name = invocation[c].name
      /\ \A res : answered(res).name = invocation[c].name
  <2>1. invocation[c] \in [step : {"logged", "lookup", "calling", "answered"},
                           name : ToolName, result : Result]
    <3>1. NoInvocation.step = "none"
      BY DEF NoInvocation
    <3> QED
      BY <1>1, <1>2, <3>1 DEF Invocation, InInvoke
  <2> QED
    BY <2>1
<1> HIDE DEF with, answered
<1> QED
  BY <1>1, <1>2, <1>3, <1>4 DEF InInvoke

\* agent.rs: a call waits for the host only while it dispatches, and for the call
\* that is first.
LEMMA CallKeepsServing ==
    ASSUME Typed, NEW c \in Call, Chat(c) \/ Send(c) \/ CallStep(c) \/ Drop(c)
    PROVE  Serving'
<1>0. HostTypeOK /\ AgentTypeOK /\ Serving
  BY DEF Typed
<1>1. /\ invocation \in [Call -> Invocation] /\ phase \in [Call -> Phase]
      /\ pending \in [Call -> Seq(ToolName)]
  BY <1>0 DEF HostTypeOK, AgentTypeOK
<1>2. NoInvocation.step = "none"
  BY DEF NoInvocation
<1>3. CASE ~ At(c, "dispatch") /\ UNCHANGED invocation
  <2>1. InInvoke(c, "none")
    BY <1>0, <1>3 DEF Serving
  <2>2. \A d \in Call \ {c} : phase'[d] = phase[d] /\ pending'[d] = pending[d]
    BY <1>1, <1>3 DEF Chat, Send, CallStep, Drop, SendLists, Exhausted, ProviderError,
       FinalReply, ModelCalls, BeginCall, Invoking, EndCall, NoHostAnswer, ToolTurn, Commit,
       Goto, At, agent, TakeCanned, LookUp, ToolReturns, LogInvocation, Answered
  <2> QED
    BY <1>0, <1>3, <2>1, <2>2 DEF Serving, InInvoke, At
<1>4. CASE BeginCall(c)
  <2> DEFINE v == [NoInvocation EXCEPT !.step = "logged", !.name = Head(pending[c])]
  <2>1. invocation' = [invocation EXCEPT ![c] = v]
    BY <1>4 DEF BeginCall, LogInvocation
  <2>2. v.name = Head(pending[c])
    BY DEF NoInvocation
  <2> HIDE DEF v
  <2> QED
    BY <1>0, <1>1, <1>4, <2>1, <2>2 DEF BeginCall, Serving, InInvoke, agent, At
<1>5. CASE Invoking(c)
  BY <1>0, <1>5, InvokingKeepsName DEF Serving, agent, At, InInvoke
<1>6. CASE EndInvoke(c) /\ \A d \in Call \ {c} : phase'[d] = phase[d] /\ pending'[d] = pending[d]
  BY <1>0, <1>1, <1>2, <1>6 DEF EndInvoke, Serving, InInvoke, At
<1>7. CASE EndCall(c) \/ Drop(c)
  <2>1. EndInvoke(c) /\ \A d \in Call \ {c} : phase'[d] = phase[d] /\ pending'[d] = pending[d]
    BY <1>1, <1>7 DEF EndCall, Drop, Answered, Goto
  <2> QED
    BY <1>6, <2>1
<1>8. CASE NoHostAnswer(c)
  <2>1. InInvoke(c, "none") /\ UNCHANGED <<invocation, phase>>
    BY <1>0, <1>8 DEF Serving, NoHostAnswer, host, Answered
  <2>2. \A d \in Call \ {c} : pending'[d] = pending[d]
    BY <1>1, <1>8 DEF NoHostAnswer, Answered
  <2> QED
    BY <1>0, <2>1, <2>2 DEF Serving, InInvoke, At
<1>9. CASE ToolTurn(c)
  <2>1. InInvoke(c, "none") /\ UNCHANGED <<invocation, pending>>
    BY <1>0, <1>9 DEF Serving, ToolTurn, host
  <2>2. \A d \in Call \ {c} : phase'[d] = phase[d]
    BY <1>1, <1>9 DEF ToolTurn, Goto
  <2> QED
    BY <1>0, <2>1, <2>2 DEF Serving, InInvoke, At
<1>10. Chat(c) \/ Send(c) \/ SendLists(c) \/ Exhausted(c) \/ ProviderError(c)
          \/ FinalReply(c) \/ ModelCalls(c) \/ Commit(c)
       => ~ At(c, "dispatch") /\ UNCHANGED invocation
  BY DEF Chat, Send, SendLists, Exhausted, ProviderError, FinalReply, ModelCalls, Commit,
         Responds, At, host
<1> QED
  BY <1>3, <1>4, <1>5, <1>7, <1>8, <1>9, <1>10 DEF CallStep

\* CallsTypeOK, for any number of calls: with the types goes that an invocation is
\* always of the first pending call, without which a call that ends could take
\* the head of an empty sequence.
THEOREM CallsAreTyped == Spec => []Typed
<1>1. Init => Typed
  <2> SUFFICES ASSUME Init PROVE Typed
    OBVIOUS
  <2>1. HostTypeOK
    <3>1. NoInvocation \in Invocation
      BY DEF Invocation
    <3> QED
      BY <3>1, HostConstants DEF Init, HostInit, HostTypeOK, Owner, MountStep
  <2>2. DefaultUsage \in Usage
    BY CallConstants DEF DefaultUsage, Usage
  <2>3. AgentTypeOK
    BY <2>2 DEF Init, AgentTypeOK, Phase
  <2>4. Serving
    BY DEF Init, HostInit, Serving, InInvoke, NoInvocation
  <2> QED
    BY <2>1, <2>3, <2>4 DEF Typed
<1>2. Typed /\ [Next]_vars => Typed'
  <2> SUFFICES ASSUME Typed, [Next]_vars PROVE Typed'
    OBVIOUS
  <2>1. HostTypeOK /\ AgentTypeOK /\ Serving
    BY DEF Typed
  <2>2. ASSUME NEW c \in Call, Chat(c) \/ Send(c) \/ CallStep(c) \/ Drop(c) PROVE Typed'
    <3>1. AgentTypeOK' /\ Serving'
      BY <2>1, <2>2, CallKeepsTypes, CallKeepsServing
    <3>2. UNCHANGED host \/ InvokeNext(c)
      <4>1. CASE BeginCall(c)
        <5>1. Head(pending[c]) \in ToolName
          BY <2>1, <4>1 DEF BeginCall, AgentTypeOK
        <5> QED
          BY <4>1, <5>1 DEF BeginCall, InvokeNext
      <4>2. CASE Invoking(c) \/ EndCall(c) \/ Drop(c)
        BY <4>2 DEF Invoking, EndCall, Drop, InvokeNext
      <4>3. CASE Chat(c) \/ Send(c) \/ SendLists(c) \/ Exhausted(c) \/ ProviderError(c)
                    \/ FinalReply(c) \/ ModelCalls(c) \/ NoHostAnswer(c) \/ ToolTurn(c)
                    \/ Commit(c)
        BY <4>3 DEF Chat, Send, SendLists, Exhausted, ProviderError, FinalReply, ModelCalls,
                    NoHostAnswer, ToolTurn, Commit
      <4> QED
        BY <2>2, <4>1, <4>2, <4>3 DEF CallStep
    <3>3. HostTypeOK'
      <4>1. CASE UNCHANGED host
        BY <2>1, <4>1 DEF host, HostTypeOK
      <4> QED
        BY <2>1, <3>2, <4>1, InvokeKeepsTypes
    <3> QED
      BY <3>1, <3>3 DEF Typed
  <2>3. CASE HostStep
    <3>1. HostTypeOK' /\ AgentTypeOK'
      BY <2>1, <2>3, HostKeepsTypes, UnchangedAgentTyped DEF HostStep
    <3>2. UNCHANGED <<invocation, phase, pending>>
      BY <2>3 DEF HostStep, agent, HostNext, RegisterNative, Enqueue, MountStart,
                  MountConnects, MountRegister, MountHandle, MountRecord, ShutdownMcp
    <3> QED
      BY <2>1, <3>1, <3>2 DEF Typed, Serving, InInvoke, At
  <2>4. CASE UNCHANGED vars
    <3>1. HostTypeOK' /\ AgentTypeOK'
      BY <2>1, <2>4, UnchangedAgentTyped DEF vars, host, HostTypeOK
    <3> QED
      BY <2>1, <2>4, <3>1 DEF Typed, Serving, InInvoke, At, vars, host, agent
  <2> QED
    BY <2>2, <2>3, <2>4 DEF Next
<1> QED
  BY <1>1, <1>2, PTL DEF Spec

\* Every variable of the agent and its host keeps its type.
THEOREM CallsTypeCorrect == Spec => []CallsTypeOK
<1>1. Typed => CallsTypeOK
  BY DEF Typed, AgentTypeOK, CallsTypeOK
<1> QED
  BY <1>1, CallsAreTyped, PTL

-----------------------------------------------------------------------------
(* Offered tools                                                           *)

\* Why an offered tool is known: it was listed, and no step takes a name off the
\* host; so a lookup that fails was of another name, and so is its answer.
Known(c) ==
    /\ offered[c] \subseteq Listed
    /\ InInvoke(c, "answered") /\ invocation[c].result = "unknown" =>
          invocation[c].name \notin offered[c]
    /\ phase[c] \in {"idle", "list"} => answers[c] = << >>
    /\ \A i \in DOMAIN answers[c] :
          answers[c][i].name \in offered[c] => answers[c][i].result # "unknown"

KnownInv == \A c \in HasHost : Override[c] = {} => Known(c)

\* tools.rs: what is listed stays listed.
LEMMA HostKeepsNames ==
    ASSUME HostTypeOK, HostNext
    PROVE  Listed \subseteq Listed' /\ UNCHANGED <<invocation>>
<1> USE HostConstants DEF HostTypeOK, Listed
<1>1. ASSUME NEW n \in ToolName, RegisterNative(n)
      PROVE  Listed \subseteq Listed' /\ UNCHANGED invocation
  BY <1>1 DEF RegisterNative
<1>2. ASSUME NEW m \in Mount, MountRegister(m)
      PROVE  Listed \subseteq Listed' /\ UNCHANGED invocation
  BY <1>2 DEF MountRegister
<1>3. CASE UNCHANGED <<native, invocation>>
  BY <1>3
<1> QED
  BY <1>1, <1>2, <1>3 DEF HostNext, Enqueue, MountStart, MountConnects, MountHandle,
     MountRecord, ShutdownMcp

\* tools.rs, invoke: an answer "unknown" is that of a lookup that found nothing.
LEMMA UnknownIsNotListed ==
    ASSUME Typed, NEW c \in Call, Invoking(c), InInvoke(c, "answered")',
           invocation'[c].result = "unknown"
    PROVE  invocation[c].name \notin Listed
<1>1. /\ invocation \in [Call -> Invocation] /\ canned \in [ToolName -> Seq({"ok", "error"})]
  BY DEF Typed, HostTypeOK
<1>2. ~ InInvoke(c, "none")
  BY InvokingKeepsName DEF Typed
<1>3. invocation[c] \in [step : {"logged", "lookup", "calling", "answered"},
                         name : ToolName, result : Result]
  <2>1. NoInvocation.step = "none"
    BY DEF NoInvocation
  <2> QED
    BY <1>1, <1>2, <2>1 DEF Invocation, InInvoke
<1> DEFINE n == invocation[c].name
<1>4. n \in ToolName
  BY <1>3
<1>5. CASE TakeCanned(c)
  <2>1. CASE canned[n] = << >>
    <3>1. invocation' = [invocation EXCEPT ![c] = [invocation[c] EXCEPT !.step = "lookup"]]
      BY <1>5, <2>1 DEF TakeCanned
    <3>2. [invocation[c] EXCEPT !.step = "lookup"].step = "lookup"
      BY <1>3
    <3> QED
      BY <1>1, <3>1, <3>2 DEF InInvoke
  <2>2. CASE canned[n] # << >>
    <3>1. invocation' = [invocation EXCEPT ![c] =
                [invocation[c] EXCEPT !.step = "answered", !.result = Head(canned[n])]]
      BY <1>5, <2>2 DEF TakeCanned
    <3>2. \A res : [invocation[c] EXCEPT !.step = "answered", !.result = res].result = res
      BY <1>3
    <3>3. Head(canned[n]) \in {"ok", "error"}
      BY <1>1, <1>4, <2>2
    <3> QED
      BY <1>1, <3>1, <3>2, <3>3
  <2> QED
    BY <2>1, <2>2
<1>6. CASE LookUp(c)
  <2>1. CASE native[n] = "absent"
    BY <2>1 DEF Listed
  <2>2. CASE native[n] # "absent"
    <3>1. invocation' = [invocation EXCEPT ![c] = [invocation[c] EXCEPT !.step = "calling"]]
      BY <1>6, <2>2 DEF LookUp
    <3>2. [invocation[c] EXCEPT !.step = "calling"].step = "calling"
      BY <1>3
    <3> QED
      BY <1>1, <3>1, <3>2 DEF InInvoke
  <2> QED
    BY <2>1, <2>2
<1>7. CASE ToolReturns(c)
  <2>1. PICK res \in {"ok", "error"} :
           invocation' = [invocation EXCEPT ![c] =
              [invocation[c] EXCEPT !.step = "answered", !.result = res]]
    BY <1>7 DEF ToolReturns
  <2>2. [invocation[c] EXCEPT !.step = "answered", !.result = res].result = res
    BY <1>3
  <2> QED
    BY <1>1, <2>1, <2>2
<1> QED
  BY <1>5, <1>6, <1>7 DEF Invoking

\* agent.rs: a call that has a host only answers "unknown" for a name that it was
\* not offered.
LEMMA CallKeepsKnown ==
    ASSUME Typed, NEW c \in HasHost, Override[c] = {}, Known(c),
           Chat(c) \/ Send(c) \/ CallStep(c) \/ Drop(c)
    PROVE  Known(c)'
<1>0. /\ c \in Call
      /\ invocation \in [Call -> Invocation] /\ phase \in [Call -> Phase]
      /\ pending \in [Call -> Seq(ToolName)] /\ answers \in [Call -> Seq(Answers)]
      /\ offered \in [Call -> SUBSET ToolName]
  BY CallConstants DEF Typed, HostTypeOK, AgentTypeOK
<1>1. UNCHANGED native /\ Listed' = Listed
  BY DEF Chat, Send, CallStep, Drop, SendLists, Exhausted, ProviderError, FinalReply,
         ModelCalls, BeginCall, Invoking, EndCall, NoHostAnswer, ToolTurn, Commit,
         LogInvocation, TakeCanned, LookUp, ToolReturns, EndInvoke, host, Listed
<1>2. NoInvocation.step = "none"
  BY DEF NoInvocation
<1>3. CASE Chat(c) \/ SendLists(c)
  <2>1. offered' = [offered EXCEPT ![c] = Listed] /\ UNCHANGED <<invocation, answers>>
    BY <1>3 DEF Chat, SendLists, Resolved, host
  <2>2. InInvoke(c, "none")
    BY <1>0, <1>3 DEF Typed, Serving, Chat, SendLists, At
  <2>3. answers[c] = << >>
    BY <1>3 DEF Known, Chat, SendLists, At
  <2> QED
    BY <1>0, <1>1, <2>1, <2>2, <2>3 DEF Known, InInvoke
<1>4. CASE Send(c)
  BY <1>0, <1>1, <1>4 DEF Send, Known, InInvoke, host, At, Goto
<1>5. CASE Exhausted(c) \/ ProviderError(c) \/ FinalReply(c) \/ ToolTurn(c) \/ Commit(c)
  <2>1. /\ UNCHANGED <<invocation, answers, offered>>
        /\ phase'[c] \notin {"idle", "list"}
    BY <1>0, <1>5 DEF Exhausted, ProviderError, FinalReply, ToolTurn, Commit, Goto, host
  <2> QED
    BY <1>1, <2>1 DEF Known, InInvoke
<1>6. CASE ModelCalls(c)
  <2>1. /\ UNCHANGED <<invocation, offered>> /\ answers'[c] = << >>
        /\ phase'[c] = "dispatch"
    BY <1>0, <1>6 DEF ModelCalls, Goto, host
  <2> QED
    BY <1>1, <2>1 DEF Known, InInvoke
<1>7. CASE BeginCall(c)
  <2> DEFINE v == [NoInvocation EXCEPT !.step = "logged", !.name = Head(pending[c])]
  <2>1. invocation' = [invocation EXCEPT ![c] = v]
    BY <1>7 DEF BeginCall, LogInvocation
  <2>2. v.step = "logged"
    BY DEF NoInvocation
  <2> HIDE DEF v
  <2> QED
    BY <1>0, <1>1, <1>7, <2>1, <2>2 DEF BeginCall, Known, InInvoke, agent
<1>8. CASE Invoking(c)
  <2>1. UNCHANGED agent /\ invocation'[c].name = invocation[c].name
    BY <1>0, <1>8, InvokingKeepsName DEF Typed
  <2>2. InInvoke(c, "answered")' /\ invocation'[c].result = "unknown" =>
           invocation[c].name \notin Listed
    BY <1>0, <1>8, UnknownIsNotListed
  <2> QED
    BY <1>1, <2>1, <2>2 DEF Known, agent
<1>9. CASE EndCall(c)
  <2> DEFINE result == invocation[c].result
             answer == Answer(Head(pending[c]), result)
  <2>1. /\ answers' = [answers EXCEPT ![c] = Append(answers[c], answer)]
        /\ UNCHANGED <<phase, offered>>
        /\ invocation' = [invocation EXCEPT ![c] = NoInvocation]
        /\ InInvoke(c, "answered")
    BY <1>9 DEF EndCall, Answered, EndInvoke
  <2>2. invocation[c].name = Head(pending[c]) /\ At(c, "dispatch")
    BY <1>0, <2>1 DEF Typed, Serving, InInvoke
  <2>3. answer.name \in offered[c] => answer.result # "unknown"
    BY <2>1, <2>2 DEF Known, Answer
  <2> HIDE DEF answer
  <2>4. answers'[c] = Append(answers[c], answer) /\ answers[c] \in Seq(Answers)
    BY <1>0, <2>1
  <2>5. \A i \in DOMAIN answers'[c] :
           answers'[c][i].name \in offered[c] => answers'[c][i].result # "unknown"
    BY <2>3, <2>4 DEF Known
  <2>6. ~ InInvoke(c, "answered")'
    BY <1>0, <1>2, <2>1 DEF InInvoke
  <2> QED
    BY <1>0, <1>1, <2>1, <2>2, <2>5, <2>6 DEF Known, At
<1>10. CASE NoHostAnswer(c)
  BY <1>10 DEF NoHostAnswer
<1>11. CASE Drop(c)
  <2>1. /\ UNCHANGED <<answers, offered>> /\ phase'[c] = "failed"
        /\ invocation'[c] = NoInvocation
    BY <1>0, <1>11 DEF Drop, EndInvoke, Goto
  <2> QED
    BY <1>1, <1>2, <2>1 DEF Known, InInvoke
<1> QED
  BY <1>3, <1>4, <1>5, <1>6, <1>7, <1>8, <1>9, <1>10, <1>11 DEF CallStep

\* What a call's own step leaves alone of the other calls.
LEMMA CallsAreApart ==
    ASSUME Typed, NEW c \in Call, Chat(c) \/ Send(c) \/ CallStep(c) \/ Drop(c),
           NEW d \in Call \ {c}
    PROVE  /\ phase'[d] = phase[d] /\ contents'[d] = contents[d]
           /\ offered'[d] = offered[d] /\ pending'[d] = pending[d]
           /\ answers'[d] = answers[d] /\ invocation'[d] = invocation[d]
           /\ UNCHANGED native
<1>1. /\ invocation \in [Call -> Invocation] /\ phase \in [Call -> Phase]
      /\ contents \in [Call -> Seq(Turns)]
      /\ pending \in [Call -> Seq(ToolName)] /\ answers \in [Call -> Seq(Answers)]
      /\ offered \in [Call -> SUBSET ToolName]
  BY DEF Typed, HostTypeOK, AgentTypeOK
<1>2. invocation'[d] = invocation[d]
  <2>1. UNCHANGED invocation \/ \E v : invocation' = [invocation EXCEPT ![c] = v]
    BY DEF Chat, Send, CallStep, Drop, SendLists, Exhausted, ProviderError, FinalReply,
           ModelCalls, BeginCall, Invoking, EndCall, NoHostAnswer, ToolTurn, Commit,
           LogInvocation, TakeCanned, LookUp, ToolReturns, EndInvoke, host
  <2> QED
    BY <1>1, <2>1
<1>3. /\ phase'[d] = phase[d] /\ contents'[d] = contents[d] /\ offered'[d] = offered[d]
      /\ pending'[d] = pending[d] /\ answers'[d] = answers[d]
  BY <1>1 DEF Chat, Send, CallStep, Drop, SendLists, Exhausted, ProviderError, FinalReply,
     ModelCalls, BeginCall, Invoking, EndCall, NoHostAnswer, ToolTurn, Commit, Goto,
     Answered, agent
<1>4. UNCHANGED native
  BY DEF Chat, Send, CallStep, Drop, SendLists, Exhausted, ProviderError, FinalReply,
         ModelCalls, BeginCall, Invoking, EndCall, NoHostAnswer, ToolTurn, Commit,
         LogInvocation, TakeCanned, LookUp, ToolReturns, EndInvoke, host
<1> QED
  BY <1>2, <1>3, <1>4

\* A step that lists no less and does not touch call c keeps Known(c).
LEMMA OthersKeepKnown ==
    ASSUME NEW c \in Call, Known(c), Listed \subseteq Listed',
           phase'[c] = phase[c], offered'[c] = offered[c], answers'[c] = answers[c],
           invocation'[c] = invocation[c]
    PROVE  Known(c)'
  BY DEF Known, InInvoke

\* OfferedToolsAreKnown: whatever the host registers, mounts and shuts down while
\* calls run, a tool that it offered to a call is never unknown to that call.
THEOREM OfferedToolsStayKnown == Spec => []OfferedToolsAreKnown
<1>1. Init => KnownInv
  <2> SUFFICES ASSUME Init, NEW c \in HasHost PROVE Known(c)
    BY DEF KnownInv
  <2>1. c \in Call
    BY CallConstants
  <2>2. NoInvocation.step = "none"
    BY DEF NoInvocation
  <2> QED
    BY <2>1, <2>2 DEF Init, HostInit, Known, InInvoke
<1>2. Typed /\ KnownInv /\ [Next]_vars => KnownInv'
  <2> SUFFICES ASSUME Typed, KnownInv, [Next]_vars,
                      NEW c \in HasHost, Override[c] = {}
               PROVE  Known(c)'
    BY DEF KnownInv
  <2>1. c \in Call /\ Known(c)
    BY CallConstants DEF KnownInv
  <2>2. CASE Chat(c) \/ Send(c) \/ CallStep(c) \/ Drop(c)
    BY <2>1, <2>2, CallKeepsKnown
  <2>3. ASSUME NEW d \in Call \ {c}, Chat(d) \/ Send(d) \/ CallStep(d) \/ Drop(d)
        PROVE  Known(c)'
    <3>1. /\ phase'[c] = phase[c] /\ offered'[c] = offered[c]
          /\ answers'[c] = answers[c] /\ invocation'[c] = invocation[c]
          /\ UNCHANGED native
      BY <2>1, <2>3, CallsAreApart
    <3>2. Listed \subseteq Listed'
      BY <3>1 DEF Listed
    <3> QED
      BY <2>1, <3>1, <3>2, OthersKeepKnown
  <2>4. CASE HostStep
    <3>1. Listed \subseteq Listed' /\ UNCHANGED <<invocation, phase, offered, answers>>
      BY <2>4, HostKeepsNames DEF HostStep, agent, Typed
    <3> QED
      BY <2>1, <3>1, OthersKeepKnown
  <2>5. CASE UNCHANGED vars
    <3>1. Listed \subseteq Listed' /\ UNCHANGED <<invocation, phase, offered, answers>>
      BY <2>5 DEF vars, host, agent, Listed
    <3> QED
      BY <2>1, <3>1, OthersKeepKnown
  <2> QED
    BY <2>1, <2>2, <2>3, <2>4, <2>5 DEF Next
<1>3. KnownInv => OfferedToolsAreKnown
  BY DEF KnownInv, Known, OfferedToolsAreKnown
<1> QED
  BY <1>1, <1>2, <1>3, CallsAreTyped, PTL DEF Spec

-----------------------------------------------------------------------------
(* Transcripts                                                             *)

\* A conversation whose last turn waits for the answers to its calls.
Open(turns) ==
    /\ turns # << >>
    /\ turns[Len(turns)].role = "model" /\ turns[Len(turns)].parts # << >>
    /\ \A i \in 1..(Len(turns) - 1) : Fits(turns, i)

\* The answers so far and the pending calls are those of the last turn.
Answering(c) ==
    LET calls == contents[c][Len(contents[c])].parts
    IN  /\ Open(contents[c])
        /\ Len(answers[c]) + Len(pending[c]) = Len(calls)
        /\ \A k \in 1..Len(answers[c]) : answers[c][k].name = calls[k]
        /\ \A k \in 1..Len(pending[c]) : pending[c][k] = calls[Len(answers[c]) + k]

\* Why transcripts are well formed: only a call that dispatches has an open one,
\* and it keeps that to itself.
Transcribed(c) ==
    /\ phase[c] \in {"list", "ask", "commit"} => WellFormed(contents[c])
    /\ At(c, "dispatch") => Answering(c)

TranscriptInv ==
    /\ \A c \in Call : Transcribed(c)
    /\ \A s \in Session : WellFormed(history[s])

\* A turn that fits still fits when another one follows.
LEMMA AppendKeepsFits ==
    ASSUME NEW turns \in Seq(Turns), NEW t \in Turns, NEW i \in 1..Len(turns),
           Fits(turns, i)
    PROVE  Fits(Append(turns, t), i)
<1> DEFINE u == Append(turns, t)
<1>1. Len(u) = Len(turns) + 1 /\ \A j \in 1..Len(turns) : u[j] = turns[j]
  OBVIOUS
<1> HIDE DEF u
<1>2. CASE turns[i].role = "model" /\ turns[i].parts # << >>
  <2>1. i < Len(turns) /\ i + 1 \in 1..Len(turns)
    BY <1>2 DEF Fits
  <2> QED
    BY <1>1, <1>2, <2>1 DEF Fits
<1>3. CASE turns[i].role = "tool"
  <2>1. i > 1 /\ i - 1 \in 1..Len(turns)
    BY <1>3 DEF Fits
  <2> QED
    BY <1>1, <1>3, <2>1 DEF Fits
<1>4. CASE turns[i].role # "tool" /\ ~ (turns[i].role = "model" /\ turns[i].parts # << >>)
  BY <1>1, <1>4 DEF Fits
<1> QED
  BY <1>2, <1>3, <1>4, <1>1 DEF u

\* A user's turn, or a reply, ends a well-formed conversation well.
LEMMA AppendPlainTurn ==
    ASSUME NEW turns \in Seq(Turns), WellFormed(turns), NEW t \in Turns,
           t.role # "tool", t.role = "model" => t.parts = << >>
    PROVE  WellFormed(Append(turns, t))
<1>1. \A i \in 1..Len(turns) : Fits(turns, i)
  BY DEF WellFormed
<1>2. \A i \in 1..Len(turns) : Fits(Append(turns, t), i)
  BY <1>1, AppendKeepsFits
<1> DEFINE u == Append(turns, t)
<1>3. u[Len(turns) + 1] = t /\ DOMAIN u = 1..(Len(turns) + 1)
  OBVIOUS
<1> HIDE DEF u
<1>4. Fits(u, Len(turns) + 1)
  BY <1>3 DEF Fits
<1>5. \A i \in DOMAIN u : Fits(u, i)
  <2>1. \A i \in DOMAIN u : i \in 1..Len(turns) \/ i = Len(turns) + 1
    BY <1>3
  <2> QED
    BY <1>2, <1>4, <2>1 DEF u
<1> QED
  BY <1>5 DEF u, WellFormed

\* A turn with calls opens a well-formed conversation.
LEMMA AppendOpens ==
    ASSUME NEW turns \in Seq(Turns), WellFormed(turns), NEW t \in Turns,
           t.role = "model", t.parts # << >>
    PROVE  Open(Append(turns, t))
<1>1. \A i \in 1..Len(turns) : Fits(turns, i)
  BY DEF WellFormed
<1>2. \A i \in 1..Len(turns) : Fits(Append(turns, t), i)
  BY <1>1, AppendKeepsFits
<1>3. /\ Append(turns, t)[Len(turns) + 1] = t /\ Len(Append(turns, t)) = Len(turns) + 1
      /\ Append(turns, t) # << >>
  OBVIOUS
<1> QED
  BY <1>2, <1>3 DEF Open

\* The tool turn closes it.
LEMMA AppendCloses ==
    ASSUME NEW turns \in Seq(Turns), Open(turns), NEW t \in Turns, t.role = "tool",
           Len(t.parts) = Len(turns[Len(turns)].parts),
           \A k \in DOMAIN turns[Len(turns)].parts :
              t.parts[k].name = turns[Len(turns)].parts[k]
    PROVE  WellFormed(Append(turns, t))
<1> DEFINE u == Append(turns, t)
           n == Len(turns)
<1>0. n \in Nat /\ n >= 1
  BY DEF Open
<1>1. \A i \in 1..(n - 1) : Fits(u, i)
  <2>1. \A i \in 1..(n - 1) : i \in 1..Len(turns) /\ Fits(turns, i)
    BY <1>0 DEF Open
  <2> QED
    BY <2>1, AppendKeepsFits
<1>2. /\ u[n + 1] = t /\ u[n] = turns[n] /\ Len(u) = n + 1 /\ DOMAIN u = 1..(n + 1)
      /\ u \in Seq(Turns)
  BY <1>0
<1>3. turns[n].role = "model" /\ turns[n].parts # << >>
  BY DEF Open
<1>4. /\ Len(t.parts) = Len(turns[n].parts)
      /\ \A k \in DOMAIN turns[n].parts : t.parts[k].name = turns[n].parts[k]
  OBVIOUS
<1>8. (n + 1) - 1 = n /\ n + 1 > 1 /\ n < n + 1
  BY <1>0
<1> HIDE DEF u, n
<1>5. Fits(u, n)
  BY <1>2, <1>3, <1>4, <1>8 DEF Fits
<1>6. Fits(u, n + 1)
  BY <1>2, <1>3, <1>8 DEF Fits
<1>7. \A i \in DOMAIN u : Fits(u, i)
  <2>1. \A i \in DOMAIN u : i \in 1..(n - 1) \/ i = n \/ i = n + 1
    BY <1>0, <1>2
  <2> QED
    BY <1>1, <1>5, <1>6, <2>1
<1> QED
  BY <1>7 DEF u, WellFormed

\* agent.rs: a call's step keeps its conversation and the histories so; a call that
\* fails or is dropped while a turn is open does not commit it.
LEMMA CallKeepsTranscribed ==
    ASSUME Typed, TranscriptInv, NEW c \in Call,
           Chat(c) \/ Send(c) \/ CallStep(c) \/ Drop(c)
    PROVE  Transcribed(c)' /\ \A s \in Session : WellFormed(history'[s])
<1>0. /\ phase \in [Call -> Phase] /\ contents \in [Call -> Seq(Turns)]
      /\ pending \in [Call -> Seq(ToolName)] /\ answers \in [Call -> Seq(Answers)]
      /\ history \in [Session -> Seq(Turns)]
      /\ Transcribed(c) /\ \A s \in Session : WellFormed(history[s])
  BY DEF Typed, AgentTypeOK, TranscriptInv
<1>1. CASE Chat(c)
  <2>1. /\ phase'[c] = "ask" /\ contents'[c] = <<User(c)>> /\ UNCHANGED history
    BY <1>0, <1>1 DEF Chat, Goto
  <2>2. WellFormed(<<User(c)>>)
    BY DEF WellFormed, Fits, User
  <2> QED
    BY <1>0, <2>1, <2>2 DEF Transcribed, At
<1>2. CASE Send(c)
  <2> DEFINE s == session[c]
  <2>1. s \in Session
    BY <1>2, CallConstants DEF Send, IsSend
  <2>2. User(c) \in Turns /\ User(c).role = "user"
    BY TurnsAreTyped DEF User
  <2>3. /\ phase'[c] = "list" /\ contents'[c] = Append(history[s], User(c))
        /\ history' = [history EXCEPT ![s] = Append(history[s], User(c))]
    BY <1>0, <1>2 DEF Send, Goto
  <2> HIDE DEF s
  <2>4. WellFormed(Append(history[s], User(c)))
    BY <1>0, <2>1, <2>2, AppendPlainTurn
  <2> QED
    BY <1>0, <2>1, <2>3, <2>4 DEF Transcribed, At
<1>3. CASE SendLists(c)
  BY <1>0, <1>3 DEF SendLists, Transcribed, At, Goto
<1>4. CASE Exhausted(c) \/ ProviderError(c) \/ Drop(c)
  <2>1. phase'[c] = "failed" /\ UNCHANGED history
    BY <1>0, <1>4 DEF Exhausted, ProviderError, Drop, Goto
  <2> QED
    BY <1>0, <2>1 DEF Transcribed, At
<1>5. CASE FinalReply(c)
  <2> DEFINE t == Model(c, << >>)
  <2>1. << >> \in Seq(ToolName)
    OBVIOUS
  <2>2. t \in Turns /\ t.role = "model" /\ t.parts = << >>
    BY <2>1, TurnsAreTyped DEF Model
  <2>3. contents'[c] = Append(contents[c], t) /\ phase'[c] # "dispatch" /\ UNCHANGED history
    BY <1>0, <1>5 DEF FinalReply, Goto
  <2>4. WellFormed(contents[c])
    BY <1>0, <1>5 DEF FinalReply, Responds, Transcribed, At
  <2> HIDE DEF t
  <2>5. WellFormed(Append(contents[c], t))
    BY <1>0, <2>2, <2>4, AppendPlainTurn
  <2> QED
    BY <1>0, <2>3, <2>5 DEF Transcribed, At
<1>6. CASE ModelCalls(c)
  <2>1. PICK n \in 1..MaxBatch : \E calls \in [1..n -> ToolName] :
           /\ contents' = [contents EXCEPT ![c] = Append(@, Model(c, calls))]
           /\ pending' = [pending EXCEPT ![c] = calls]
    BY <1>6 DEF ModelCalls
  <2>2. PICK calls \in [1..n -> ToolName] :
           /\ contents' = [contents EXCEPT ![c] = Append(@, Model(c, calls))]
           /\ pending' = [pending EXCEPT ![c] = calls]
    BY <2>1
  <2>3. calls \in Seq(ToolName) /\ Len(calls) = n /\ n \in Nat \ {0} /\ calls # << >>
    BY CallConstants
  <2> DEFINE t == Model(c, calls)
  <2>4. t \in Turns /\ t.role = "model" /\ t.parts = calls
    BY <2>3, TurnsAreTyped DEF Model
  <2>5. /\ contents'[c] = Append(contents[c], t) /\ pending'[c] = calls
        /\ answers'[c] = << >> /\ phase'[c] = "dispatch" /\ UNCHANGED history
    BY <1>0, <1>6, <2>2 DEF ModelCalls, Goto
  <2>6. WellFormed(contents[c])
    BY <1>0, <1>6 DEF ModelCalls, Responds, Transcribed, At
  <2> HIDE DEF t
  <2>7. Open(Append(contents[c], t))
    BY <1>0, <2>3, <2>4, <2>6, AppendOpens
  <2>8. Append(contents[c], t)[Len(Append(contents[c], t))] = t
    BY <1>0, <2>4
  <2>9. Answering(c)'
    BY <2>3, <2>4, <2>5, <2>7, <2>8 DEF Answering
  <2> QED
    BY <1>0, <2>5, <2>9 DEF Transcribed, At
<1>7. CASE BeginCall(c) \/ Invoking(c)
  <2>1. UNCHANGED <<phase, contents, pending, answers, history>>
    BY <1>7 DEF BeginCall, Invoking, agent
  <2> QED
    BY <1>0, <2>1 DEF Transcribed, At, Answering
<1>8. ASSUME NEW result \in Result, pending[c] # << >>, At(c, "dispatch"),
             Answered(c, result)
      PROVE  Transcribed(c)' /\ \A s \in Session : WellFormed(history'[s])
  <2> DEFINE a == Answer(Head(pending[c]), result)
             calls == contents[c][Len(contents[c])].parts
             n == Len(answers[c])
             m == Len(pending[c])
  <2>1. /\ answers'[c] = Append(answers[c], a) /\ pending'[c] = Tail(pending[c])
        /\ UNCHANGED <<phase, contents, history>>
    BY <1>0, <1>8 DEF Answered
  <2>2. /\ Open(contents[c]) /\ n + m = Len(calls)
        /\ \A k \in 1..n : answers[c][k].name = calls[k]
        /\ \A k \in 1..m : pending[c][k] = calls[n + k]
    BY <1>0, <1>8 DEF Transcribed, Answering
  <2>3. n \in Nat /\ m \in Nat /\ m >= 1
    BY <1>0, <1>8
  <2>4. /\ Len(answers'[c]) = n + 1 /\ Len(pending'[c]) = m - 1
        /\ \A k \in 1..n : answers'[c][k] = answers[c][k]
        /\ answers'[c][n + 1] = a
        /\ \A k \in 1..(m - 1) : pending'[c][k] = pending[c][k + 1]
    BY <1>0, <1>8, <2>1
  <2>5. a.name = calls[n + 1]
    <3>1. a.name = Head(pending[c])
      BY DEF Answer
    <3>2. Head(pending[c]) = pending[c][1] /\ 1 \in 1..m
      BY <1>0, <2>3
    <3> QED
      BY <2>2, <3>1, <3>2
  <2> HIDE DEF a, n, m
  <2>6. \A k \in 1..(n + 1) : answers'[c][k].name = calls[k]
    <3>1. \A k \in 1..(n + 1) : k \in 1..n \/ k = n + 1
      BY <2>3
    <3> HIDE DEF calls
    <3> QED
      BY <2>2, <2>4, <2>5, <3>1
  <2>7. \A k \in 1..(m - 1) : pending'[c][k] = calls[(n + 1) + k]
    <3>1. \A k \in 1..(m - 1) : k + 1 \in 1..m /\ n + (k + 1) = (n + 1) + k
      BY <2>3
    <3> HIDE DEF calls
    <3> QED
      BY <2>2, <2>4, <3>1
  <2>8. (n + 1) + (m - 1) = Len(calls)
    BY <2>2, <2>3
  <2>9. Answering(c)'
    BY <2>1, <2>2, <2>4, <2>6, <2>7, <2>8 DEF Answering
  <2> QED
    BY <1>0, <1>8, <2>1, <2>9 DEF Transcribed, At
<1>9. CASE EndCall(c)
  <2>1. pending[c] # << >>
    BY <1>9 DEF EndCall, Typed, Serving, InInvoke
  <2>2. invocation[c].result \in Result
    <3>1. invocation[c] \in Invocation
      BY DEF Typed, HostTypeOK
    <3>2. NoInvocation.result \in Result
      BY DEF NoInvocation, Result
    <3> QED
      BY <3>1, <3>2 DEF Invocation
  <2> QED
    BY <1>8, <1>9, <2>1, <2>2 DEF EndCall
<1>10. CASE NoHostAnswer(c)
  BY <1>8, <1>10 DEF NoHostAnswer, Result
<1>11. CASE ToolTurn(c)
  <2> DEFINE t == Tool(c, answers[c])
             calls == contents[c][Len(contents[c])].parts
  <2>1. t \in Turns /\ t.role = "tool" /\ t.parts = answers[c]
    BY <1>0, TurnsAreTyped DEF Tool
  <2>2. contents'[c] = Append(contents[c], t) /\ phase'[c] = "ask" /\ UNCHANGED history
    BY <1>0, <1>11 DEF ToolTurn, Goto
  <2>3. /\ Open(contents[c]) /\ Len(answers[c]) + Len(pending[c]) = Len(calls)
        /\ \A k \in 1..Len(answers[c]) : answers[c][k].name = calls[k]
    BY <1>0, <1>11 DEF ToolTurn, Transcribed, Answering
  <2>4. Len(pending[c]) = 0 /\ Len(answers[c]) \in Nat
    BY <1>0, <1>11 DEF ToolTurn
  <2>5. calls \in Seq(ToolName) /\ DOMAIN calls = 1..Len(calls)
    <3>1. contents[c] # << >> /\ Len(contents[c]) \in DOMAIN contents[c]
      BY <1>0, <2>3 DEF Open
    <3>2. contents[c][Len(contents[c])] \in Turns
      BY <1>0, <3>1
    <3>3. contents[c][Len(contents[c])].role = "model"
      BY <2>3 DEF Open
    <3>4. calls \in Seq(ToolName)
      BY <3>2, <3>3 DEF Turns
    <3> HIDE DEF calls
    <3> QED
      BY <3>4
  <2>6. Len(t.parts) = Len(calls) /\ \A k \in DOMAIN calls : t.parts[k].name = calls[k]
    BY <2>1, <2>3, <2>4, <2>5
  <2> HIDE DEF t
  <2>7. WellFormed(Append(contents[c], t))
    BY <1>0, <2>1, <2>3, <2>6, AppendCloses
  <2> QED
    BY <1>0, <2>2, <2>7 DEF Transcribed, At
<1>12. CASE Commit(c)
  <2>1. /\ phase'[c] = "done" /\ history' = [history EXCEPT ![session[c]] = contents[c]]
        /\ WellFormed(contents[c])
    BY <1>0, <1>12 DEF Commit, Goto, Transcribed, At
  <2>2. \A s \in Session : history'[s] = history[s] \/ history'[s] = contents[c]
    BY <1>0, <2>1
  <2> QED
    BY <1>0, <2>1, <2>2 DEF Transcribed, At
<1> QED
  BY <1>1, <1>2, <1>3, <1>4, <1>5, <1>6, <1>7, <1>9, <1>10, <1>11, <1>12 DEF CallStep

\* TranscriptsAreWellFormed: whatever fails, is dropped, or runs on a clone, no
\* conversation that is sent, and no history, has a call without its answer or an
\* answer without its call.
THEOREM TranscriptsStayWellFormed == Spec => []TranscriptsAreWellFormed
<1>1. Init => TranscriptInv
  BY DEF Init, TranscriptInv, Transcribed, At, WellFormed
<1>2. Typed /\ TranscriptInv /\ [Next]_vars => TranscriptInv'
  <2> SUFFICES ASSUME Typed, TranscriptInv, [Next]_vars PROVE TranscriptInv'
    OBVIOUS
  <2>1. ASSUME NEW c \in Call, Chat(c) \/ Send(c) \/ CallStep(c) \/ Drop(c)
        PROVE  TranscriptInv'
    <3>1. Transcribed(c)' /\ \A s \in Session : WellFormed(history'[s])
      BY <2>1, CallKeepsTranscribed
    <3>2. ASSUME NEW d \in Call \ {c} PROVE Transcribed(d)'
      <4>1. /\ phase'[d] = phase[d] /\ contents'[d] = contents[d]
            /\ pending'[d] = pending[d] /\ answers'[d] = answers[d]
        BY <2>1, CallsAreApart
      <4>2. Transcribed(d)
        BY DEF TranscriptInv
      <4>3. Answering(d) => Answering(d)'
        BY <4>1 DEF Answering
      <4> QED
        BY <4>1, <4>2, <4>3 DEF Transcribed, At
    <3> QED
      BY <3>1, <3>2 DEF TranscriptInv
  <2>2. CASE UNCHANGED agent
    BY <2>2 DEF agent, TranscriptInv, Transcribed, At, Answering
  <2> QED
    BY <2>1, <2>2 DEF Next, HostStep, vars
<1>3. TranscriptInv => TranscriptsAreWellFormed
  BY DEF TranscriptInv, Transcribed, At, TranscriptsAreWellFormed
<1> QED
  BY <1>1, <1>2, <1>3, CallsAreTyped, PTL DEF Spec

-----------------------------------------------------------------------------
(* Whose turns a conversation holds                                        *)

\* A turn that is added to a conversation adds its calls, if it is c's, to c's.
LEMMA CallsInAppend ==
    ASSUME NEW c \in Call, NEW turns \in Seq(Turns), NEW t \in Turns
    PROVE  /\ CallsIn(c, << >>) = << >>
           /\ CallsIn(c, turns) \in Seq(ToolName)
           /\ CallsIn(c, Append(turns, t)) = CallsIn(c, turns) \o
                 (IF t.role = "model" /\ t.of = c THEN t.parts ELSE << >>)
<1> DEFINE part(x) == IF x.role = "model" /\ x.of = c THEN x.parts ELSE << >>
           p == [x \in Turns |-> part(x)]
<1>1. Maps(p, Turns, Seq(ToolName))
  <2>1. \A x \in Turns : part(x) \in Seq(ToolName)
    BY EmptySeq DEF Turns
  <2> QED
    BY <2>1 DEF Maps
<1>2. \A s \in Seq(Turns) : CallsIn(c, s) = FlattenSeq(Mapped(p, s))
  <2> SUFFICES ASSUME NEW s \in Seq(Turns)
               PROVE  CallsIn(c, s) = FlattenSeq(Mapped(p, s))
    OBVIOUS
  <2>1. \A i \in DOMAIN s : p[s[i]] = part(s[i])
    BY LenProperties, ElementOfSeq
  <2>2. Mapped(p, s) = [i \in DOMAIN s |-> part(s[i])]
    BY <2>1 DEF Mapped
  <2> QED
    BY <2>2 DEF CallsIn
<1>3. p[t] = part(t) /\ p[t] \in Seq(ToolName)
  BY <1>1 DEF Maps
<1>4. Mapped(p, turns) \in Seq(Seq(ToolName))
      /\ Mapped(p, Append(turns, t)) = Append(Mapped(p, turns), p[t])
  <2> HIDE DEF p
  <2> QED
    BY <1>1, MapAppend
<1>5. Append(turns, t) \in Seq(Turns)
  BY AppendProperties
<1>6. CallsIn(c, << >>) = << >>
  <2>1. [i \in DOMAIN << >> |-> part(<< >>[i])] = << >>
    OBVIOUS
  <2> QED
    BY <2>1, EmptySeq DEF CallsIn, FlattenSeq
<1> HIDE DEF p
<1>7. FlattenSeq(Mapped(p, turns)) \in Seq(ToolName)
      /\ FlattenSeq(Append(Mapped(p, turns), p[t])) = FlattenSeq(Mapped(p, turns)) \o p[t]
  BY <1>3, <1>4, FlattenAppend
<1> QED
  BY <1>2, <1>3, <1>4, <1>5, <1>6, <1>7

\* A turn that is added to a conversation was said through h, or leaves what was
\* said through h as it is.
LEMMA TurnsOfAppend ==
    ASSUME NEW h, NEW turns \in Seq(Turns), NEW t \in Turns
    PROVE  /\ TurnsOf(h, turns) \in Seq(Turns)
           /\ TurnsOf(h, Append(turns, t)) = TurnsOf(h, turns) \o
                 (IF handle[t.of] = h THEN <<t>> ELSE << >>)
           /\ (\A i \in DOMAIN turns : handle[turns[i].of] # h) => TurnsOf(h, turns) = << >>
<1> DEFINE part(x) == IF handle[x.of] = h THEN <<x>> ELSE << >>
           p == [x \in Turns |-> part(x)]
<1>1. Maps(p, Turns, Seq(Turns))
  <2>1. \A x \in Turns : part(x) \in Seq(Turns)
    BY EmptySeq
  <2> QED
    BY <2>1 DEF Maps
<1>2. \A s \in Seq(Turns) : TurnsOf(h, s) = FlattenSeq(Mapped(p, s))
  <2> SUFFICES ASSUME NEW s \in Seq(Turns)
               PROVE  TurnsOf(h, s) = FlattenSeq(Mapped(p, s))
    OBVIOUS
  <2>1. \A i \in DOMAIN s : p[s[i]] = part(s[i])
    BY LenProperties, ElementOfSeq
  <2>2. Mapped(p, s) = [i \in DOMAIN s |-> part(s[i])]
    BY <2>1 DEF Mapped
  <2> QED
    BY <2>2 DEF TurnsOf
<1>3. p[t] = part(t) /\ p[t] \in Seq(Turns)
  BY <1>1 DEF Maps
<1>4. Mapped(p, turns) \in Seq(Seq(Turns))
      /\ Mapped(p, Append(turns, t)) = Append(Mapped(p, turns), p[t])
  <2> HIDE DEF p
  <2> QED
    BY <1>1, MapAppend
<1>5. Append(turns, t) \in Seq(Turns)
  BY AppendProperties
<1>6. ASSUME \A i \in DOMAIN turns : handle[turns[i].of] # h
      PROVE  TurnsOf(h, turns) = << >>
  <2>1. DOMAIN turns = 1..Len(turns) /\ \A i \in DOMAIN turns : turns[i] \in Turns
    BY LenProperties, ElementOfSeq
  <2>2. \A i \in DOMAIN turns : Mapped(p, turns)[i] = << >>
    BY <1>6, <2>1 DEF Mapped
  <2>3. Len(Mapped(p, turns)) = Len(turns)
    BY <1>4, <2>1, LenProperties DEF Mapped
  <2> HIDE DEF p
  <2>4. FlattenSeq(Mapped(p, turns)) = << >>
    BY <1>4, <2>1, <2>2, <2>3, FlattenNothing
  <2> QED
    BY <1>2, <2>4
<1> HIDE DEF p
<1>7. FlattenSeq(Mapped(p, turns)) \in Seq(Turns)
      /\ FlattenSeq(Append(Mapped(p, turns), p[t])) = FlattenSeq(Mapped(p, turns)) \o p[t]
  BY <1>3, <1>4, FlattenAppend
<1>8. TurnsOf(h, turns) = FlattenSeq(Mapped(p, turns))
      /\ TurnsOf(h, Append(turns, t)) = FlattenSeq(Append(Mapped(p, turns), p[t]))
  BY <1>2, <1>4, <1>5
<1> QED
  BY <1>3, <1>6, <1>7, <1>8

\* A conversation has a turn of call o.
Holds(turns, o) == \E i \in DOMAIN turns : turns[i].of = o

\* A conversation with one turn more holds the turns of its calls, and that turn.
LEMMA HoldsAppend ==
    ASSUME NEW turns \in Seq(Turns), NEW t \in Turns, NEW o
    PROVE  Holds(Append(turns, t), o) <=> Holds(turns, o) \/ t.of = o
<1> DEFINE u == Append(turns, t)
           n == Len(turns)
<1>1. n \in Nat /\ DOMAIN turns = 1..n
  BY LenProperties
<1>2. u \in Seq(Turns) /\ Len(u) = n + 1 /\ u[n + 1] = t /\ \A i \in 1..n : u[i] = turns[i]
  BY AppendProperties
<1>3. DOMAIN u = 1..(n + 1)
  BY <1>2, LenProperties
<1> HIDE DEF u, n
<1>4. Holds(u, o) <=> \E i \in 1..(n + 1) : u[i].of = o
  BY <1>3 DEF Holds
<1>5. Holds(turns, o) <=> \E i \in 1..n : turns[i].of = o
  BY <1>1 DEF Holds
<1>6. \A i \in 1..(n + 1) : i \in 1..n \/ i = n + 1
  BY <1>1
<1>7. n + 1 \in 1..(n + 1) /\ \A i \in 1..n : i \in 1..(n + 1)
  BY <1>1
<1>8. Holds(u, o) <=> Holds(turns, o) \/ t.of = o
  BY <1>2, <1>4, <1>5, <1>6, <1>7
<1> QED
  BY <1>8 DEF u

\* A turn of call o may be in the conversation of c's loop: o began, and is c or
\* a send on c's session.
MayHold(c, o) == ~ At(o, "idle") /\ (o = c \/ (IsSend(c) /\ session[o] = session[c]))

\* A call that did not begin has left no trace; only a send lists in a step of its
\* own, and commits; conversations and histories hold turns of calls that began,
\* on the session they belong to.
SourceInv ==
    /\ \A c \in Call : At(c, "idle") =>
          contents[c] = << >> /\ pending[c] = << >> /\ invoked[c] = << >>
    /\ \A c \in Call : At(c, "list") \/ At(c, "commit") => IsSend(c)
    /\ \A c, o \in Call : Holds(contents[c], o) => MayHold(c, o)
    /\ \A s \in Session, o \in Call :
          Holds(history[s], o) => ~ At(o, "idle") /\ session[o] = s

\* agent.rs: a call that takes a step has begun afterwards, and no call returns to
\* where it was before it began.
LEMMA BegunStaysBegun ==
    ASSUME Typed, NEW c \in Call, Chat(c) \/ Send(c) \/ CallStep(c) \/ Drop(c)
    PROVE  /\ ~ At(c, "idle")'
           /\ \A d \in Call : ~ At(d, "idle") => ~ At(d, "idle")'
<1>1. phase \in [Call -> Phase] /\ Serving
  BY DEF Typed, AgentTypeOK
<1>2. CASE Invoking(c)
  BY <1>1, <1>2, InvokingKeepsName DEF Typed, Serving, At, agent
<1>3. CASE BeginCall(c) \/ EndCall(c) \/ NoHostAnswer(c)
  BY <1>1, <1>3 DEF BeginCall, EndCall, NoHostAnswer, Answered, At, agent
<1>4. CASE Chat(c) \/ Send(c) \/ SendLists(c) \/ Exhausted(c) \/ ProviderError(c)
              \/ FinalReply(c) \/ ModelCalls(c) \/ ToolTurn(c) \/ Commit(c) \/ Drop(c)
  BY <1>1, <1>4 DEF Chat, Send, SendLists, Exhausted, ProviderError, FinalReply, ModelCalls,
     ToolTurn, Commit, Drop, Goto, At
<1>5. ~ At(c, "idle")'
  BY <1>2, <1>3, <1>4 DEF CallStep
<1>6. \A d \in Call \ {c} : phase'[d] = phase[d]
  BY CallsAreApart
<1> QED
  BY <1>5, <1>6 DEF At

\* A step adds one turn of its own to its conversation.
Adds(c, t) ==
    /\ t.of = c
    /\ contents' = [contents EXCEPT ![c] = Append(@, t)]
    /\ UNCHANGED history

\* agent.rs: what a step does to the conversations and the histories.
LEMMA ConversationSteps ==
    ASSUME Typed, SourceInv, NEW c \in Call, Chat(c) \/ Send(c) \/ CallStep(c) \/ Drop(c)
    PROVE  \/ Send(c) \/ Commit(c)
           \/ \E t \in Turns : Adds(c, t)
           \/ UNCHANGED <<contents, history>>
<1>1. /\ contents \in [Call -> Seq(Turns)] /\ answers \in [Call -> Seq(Answers)]
  BY DEF Typed, AgentTypeOK
<1>2. CASE Chat(c)
  <2>1. contents[c] = << >> /\ User(c) \in Turns /\ User(c).of = c
    BY <1>2, TurnsAreTyped DEF Chat, SourceInv, User
  <2>2. Append(<< >>, User(c)) = <<User(c)>>
    BY <2>1
  <2> QED
    BY <1>1, <1>2, <2>1, <2>2 DEF Chat, Adds
<1>3. CASE FinalReply(c)
  <2>1. << >> \in Seq(ToolName)
    BY EmptySeq
  <2>2. Model(c, << >>) \in Turns /\ Model(c, << >>).of = c
    BY <2>1, TurnsAreTyped DEF Model
  <2> QED
    BY <1>3, <2>2 DEF FinalReply, Adds
<1>4. CASE ModelCalls(c)
  <2>1. PICK n \in 1..MaxBatch : \E calls \in [1..n -> ToolName] :
           contents' = [contents EXCEPT ![c] = Append(@, Model(c, calls))]
    BY <1>4 DEF ModelCalls
  <2>2. PICK calls \in Seq(ToolName) :
           contents' = [contents EXCEPT ![c] = Append(@, Model(c, calls))]
    <3>1. n \in Nat
      BY CallConstants
    <3>2. \A calls \in [1..n -> ToolName] : calls \in Seq(ToolName)
      BY <3>1
    <3> QED
      BY <2>1, <3>2
  <2>3. Model(c, calls) \in Turns /\ Model(c, calls).of = c
    BY <2>2, TurnsAreTyped DEF Model
  <2> QED
    BY <1>4, <2>2, <2>3 DEF ModelCalls, Adds
<1>5. CASE ToolTurn(c)
  <2>1. answers[c] \in Seq(Answers)
    BY <1>1
  <2>2. Tool(c, answers[c]) \in Turns /\ Tool(c, answers[c]).of = c
    BY <2>1, TurnsAreTyped DEF Tool
  <2> QED
    BY <1>5, <2>2 DEF ToolTurn, Adds
<1>6. CASE SendLists(c) \/ Exhausted(c) \/ ProviderError(c) \/ BeginCall(c) \/ Invoking(c)
              \/ EndCall(c) \/ NoHostAnswer(c) \/ Drop(c)
  BY <1>6 DEF SendLists, Exhausted, ProviderError, BeginCall, Invoking, EndCall,
     NoHostAnswer, Drop, Answered, agent
<1> QED
  BY <1>2, <1>3, <1>4, <1>5, <1>6 DEF CallStep

\* agent.rs: only a send goes to the sections around its session's lock.
LEMMA CallGoesToSend ==
    ASSUME Typed, SourceInv, NEW c \in Call, Chat(c) \/ Send(c) \/ CallStep(c) \/ Drop(c),
           At(c, "list")' \/ At(c, "commit")'
    PROVE  IsSend(c)
<1>1. phase \in [Call -> Phase]
  BY DEF Typed, AgentTypeOK
<1>2. CASE UNCHANGED phase
  BY <1>2 DEF At, SourceInv
<1>3. CASE Send(c) \/ FinalReply(c)
  BY <1>1, <1>3 DEF Send, FinalReply, Goto, At, IsSend
<1>4. CASE Chat(c) \/ SendLists(c) \/ Exhausted(c) \/ ProviderError(c) \/ ModelCalls(c)
              \/ ToolTurn(c) \/ Commit(c) \/ Drop(c)
  BY <1>1, <1>4 DEF Chat, SendLists, Exhausted, ProviderError, ModelCalls, ToolTurn, Commit,
     Drop, Goto, At
<1>5. BeginCall(c) \/ Invoking(c) \/ EndCall(c) \/ NoHostAnswer(c) => UNCHANGED phase
  BY DEF BeginCall, Invoking, EndCall, NoHostAnswer, Answered, agent
<1> QED
  BY <1>2, <1>3, <1>4, <1>5 DEF CallStep

\* tools.rs: what is invoked for a call is invoked in its steps.
LEMMA CallsInvokeApart ==
    ASSUME Typed, NEW c \in Call, Chat(c) \/ Send(c) \/ CallStep(c) \/ Drop(c)
    PROVE  \A d \in Call \ {c} : invoked'[d] = invoked[d]
  BY DEF Typed, HostTypeOK, Chat, Send, CallStep, Drop, SendLists, Exhausted, ProviderError,
         FinalReply, ModelCalls, BeginCall, Invoking, EndCall, NoHostAnswer, ToolTurn, Commit,
         LogInvocation, TakeCanned, LookUp, ToolReturns, EndInvoke, host

\* agent.rs: turns keep their sources.
LEMMA CallKeepsSources ==
    ASSUME Typed, SourceInv, NEW c \in Call, Chat(c) \/ Send(c) \/ CallStep(c) \/ Drop(c)
    PROVE  SourceInv'
<1>1. /\ contents \in [Call -> Seq(Turns)] /\ history \in [Session -> Seq(Turns)]
      /\ phase \in [Call -> Phase] /\ session \in [Call -> Session \cup {NoSession}]
      /\ invoked \in [Call -> Seq(ToolName)]
  BY CallConstants DEF Typed, AgentTypeOK, HostTypeOK
<1>2. /\ ~ At(c, "idle")' /\ \A d \in Call : ~ At(d, "idle") => ~ At(d, "idle")'
      /\ \A d \in Call \ {c} : /\ phase'[d] = phase[d] /\ contents'[d] = contents[d]
                               /\ pending'[d] = pending[d]
  BY BegunStaysBegun, CallsAreApart
<1>3. \A d \in Call \ {c} : invoked'[d] = invoked[d]
  BY CallsInvokeApart
<1>4. \A d \in Call : At(d, "idle")' =>
         contents'[d] = << >> /\ pending'[d] = << >> /\ invoked'[d] = << >>
  BY <1>2, <1>3 DEF SourceInv, At
<1>5. \A d \in Call : At(d, "list")' \/ At(d, "commit")' => IsSend(d)
  <2>1. At(c, "list")' \/ At(c, "commit")' => IsSend(c)
    BY CallGoesToSend
  <2> QED
    BY <1>2, <2>1 DEF SourceInv, At
<1>6. \A d, o \in Call : MayHold(d, o) => MayHold(d, o)'
  BY <1>2 DEF MayHold, IsSend
<1>7. MayHold(c, c)'
  BY <1>2 DEF MayHold
<1>8. \A d \in Call \ {c}, o \in Call : Holds(contents'[d], o) => MayHold(d, o)'
  BY <1>2, <1>6 DEF SourceInv
<1>9. SUFFICES /\ \A o \in Call : Holds(contents'[c], o) => MayHold(c, o)'
               /\ \A s \in Session, o \in Call :
                     Holds(history'[s], o) => ~ At(o, "idle")' /\ session[o] = s
  <2>1. \A d, o \in Call : Holds(contents'[d], o) => MayHold(d, o)'
    BY <1>8, <1>9
  <2> QED
    BY <1>4, <1>5, <1>9, <2>1 DEF SourceInv, IsSend
<1>10. \A s \in Session, o \in Call : Holds(history[s], o) => ~ At(o, "idle")' /\ session[o] = s
  BY <1>2 DEF SourceInv
<1>11. CASE UNCHANGED <<contents, history>>
  BY <1>6, <1>10, <1>11 DEF SourceInv
<1>12. CASE \E t \in Turns : Adds(c, t)
  <2>1. PICK t \in Turns : Adds(c, t)
    BY <1>12
  <2>2. contents'[c] = Append(contents[c], t) /\ UNCHANGED history /\ t.of = c
    BY <1>1, <2>1 DEF Adds
  <2>3. \A o : Holds(contents'[c], o) <=> Holds(contents[c], o) \/ o = c
    BY <1>1, <2>2, HoldsAppend
  <2> QED
    BY <1>6, <1>7, <1>10, <2>2, <2>3 DEF SourceInv
<1>13. CASE Send(c)
  <2> DEFINE s == session[c]
             t == User(c)
  <2>1. s \in Session /\ t \in Turns /\ t.of = c /\ IsSend(c)
    BY <1>1, <1>13, TurnsAreTyped DEF Send, IsSend, User
  <2>2. /\ contents'[c] = Append(history[s], t) /\ history'[s] = Append(history[s], t)
        /\ \A r \in Session \ {s} : history'[r] = history[r]
    BY <1>1, <1>13, <2>1 DEF Send
  <2> HIDE DEF t
  <2>3. \A o : Holds(history'[s], o) <=> Holds(history[s], o) \/ o = c
    BY <1>1, <2>1, <2>2, HoldsAppend
  <2>4. \A o \in Call : Holds(contents'[c], o) => MayHold(c, o)'
    BY <1>7, <1>10, <2>1, <2>2, <2>3 DEF MayHold, IsSend
  <2>5. \A o \in Call : Holds(history'[s], o) => ~ At(o, "idle")' /\ session[o] = s
    BY <1>2, <1>10, <2>1, <2>3
  <2> QED
    BY <1>10, <2>2, <2>4, <2>5
<1>14. CASE Commit(c)
  <2> DEFINE s == session[c]
  <2>1. s \in Session /\ IsSend(c)
    BY <1>1, <1>14 DEF Commit, SourceInv, IsSend
  <2>2. /\ UNCHANGED contents /\ history'[s] = contents[c]
        /\ \A r \in Session \ {s} : history'[r] = history[r]
    BY <1>1, <1>14, <2>1 DEF Commit
  <2>3. \A o \in Call : Holds(contents'[c], o) => MayHold(c, o)'
    BY <1>6, <2>2 DEF SourceInv
  <2>4. \A o \in Call : Holds(history'[s], o) => ~ At(o, "idle")' /\ session[o] = s
    BY <2>2, <2>3 DEF MayHold
  <2> QED
    BY <1>10, <2>2, <2>3, <2>4
<1> QED
  BY <1>11, <1>12, <1>13, <1>14, ConversationSteps

\* Turns keep their sources, for any number of calls.
THEOREM SourcesStay == Spec => []SourceInv
<1>1. Init => SourceInv
  <2> SUFFICES ASSUME Init PROVE SourceInv
    OBVIOUS
  <2>1. /\ \A c \in Call : At(c, "idle") /\ contents[c] = << >> /\ pending[c] = << >>
                           /\ invoked[c] = << >>
        /\ \A s \in Session : history[s] = << >>
    BY DEF Init, HostInit, At
  <2>2. \A o : ~ Holds(<< >>, o)
    BY DEF Holds
  <2> QED
    BY <2>1, <2>2 DEF SourceInv, At
<1>2. Typed /\ SourceInv /\ [Next]_vars => SourceInv'
  <2> SUFFICES ASSUME Typed, SourceInv, [Next]_vars PROVE SourceInv'
    OBVIOUS
  <2>1. CASE HostStep \/ UNCHANGED vars
    <3>1. UNCHANGED <<agent, invoked>>
      BY <2>1 DEF HostStep, vars, host, HostNext, RegisterNative, Enqueue, MountStart,
                  MountConnects, MountRegister, MountHandle, MountRecord, ShutdownMcp
    <3> QED
      BY <3>1 DEF agent, SourceInv, At, MayHold, IsSend
  <2> QED
    BY <2>1, CallKeepsSources DEF Next
<1> QED
  BY <1>1, <1>2, CallsAreTyped, PTL DEF Spec

-----------------------------------------------------------------------------
(* Each call is invoked once                                               *)

\* A conversation without c's turns has no calls of c.
LEMMA CallsOfNobody ==
    ASSUME NEW c \in Call, NEW turns \in Seq(Turns), ~ Holds(turns, c)
    PROVE  CallsIn(c, turns) = << >>
<1> DEFINE part(x) == IF x.role = "model" /\ x.of = c THEN x.parts ELSE << >>
           m == [i \in DOMAIN turns |-> part(turns[i])]
<1>1. DOMAIN turns = 1..Len(turns) /\ Len(turns) \in Nat
  BY LenProperties
<1>2. \A i \in 1..Len(turns) : part(turns[i]) = << >>
  BY <1>1 DEF Holds
<1>3. << >> \in Seq(ToolName)
  BY EmptySeq
<1>4. m = [i \in 1..Len(turns) |-> << >>]
  BY <1>1, <1>2
<1>5. m \in Seq(Seq(ToolName)) /\ Len(m) = Len(turns) /\ \A i \in 1..Len(m) : m[i] = << >>
  <2> DEFINE n == Len(turns)
             S == Seq(ToolName)
             e == << >>
  <2>1. n \in Nat /\ e \in S /\ m = [i \in 1..n |-> e]
    BY <1>1, <1>3, <1>4
  <2> HIDE DEF n, S, m, e
  <2>2. m \in Seq(S) /\ Len(m) = n /\ \A i \in 1..n : m[i] = e
    BY <2>1
  <2> QED
    BY <2>1, <2>2 DEF n, S, e
<1>6. CallsIn(c, turns) = FlattenSeq(m)
  BY DEF CallsIn
<1> HIDE DEF m
<1> QED
  BY <1>5, <1>6, FlattenNothing

\* Those of c's calls that the host was not yet asked for.
ToInvoke(c) == IF InInvoke(c, "none") THEN pending[c] ELSE Tail(pending[c])

\* What was invoked and what is still to be invoked are the calls of the model's
\* turns; between two turns nothing is left to invoke.
Invoked(c) ==
    /\ ~ At(c, "dispatch") /\ ~ At(c, "failed") => pending[c] = << >>
    /\ c \in HasHost /\ ~ At(c, "failed") =>
          invoked[c] \o ToInvoke(c) = CallsIn(c, contents[c])

InvokedInv == \A c \in Call : Invoked(c)

\* agent.rs: a call's step takes the calls of the model's turn one by one.
LEMMA CallKeepsInvoked ==
    ASSUME Typed, SourceInv, NEW c \in Call, Invoked(c),
           Chat(c) \/ Send(c) \/ CallStep(c) \/ Drop(c)
    PROVE  Invoked(c)'
<1>1. /\ contents \in [Call -> Seq(Turns)] /\ history \in [Session -> Seq(Turns)]
      /\ phase \in [Call -> Phase] /\ session \in [Call -> Session \cup {NoSession}]
      /\ invoked \in [Call -> Seq(ToolName)] /\ pending \in [Call -> Seq(ToolName)]
      /\ invocation \in [Call -> Invocation]
  BY CallConstants DEF Typed, AgentTypeOK, HostTypeOK
<1>2. << >> \in Seq(ToolName) /\ \A s \in Seq(ToolName) : s \o << >> = s /\ << >> \o s = s
  BY EmptySeq, ConcatEmptySeq
<1>3. ~ InInvoke(c, "none") => /\ c \in HasHost /\ At(c, "dispatch") /\ pending[c] # << >>
                               /\ invocation[c].name = Head(pending[c])
  BY DEF Typed, Serving
<1>4. /\ NoInvocation.step = "none"
      /\ \A n : [NoInvocation EXCEPT !.step = "logged", !.name = n].step = "logged"
  BY DEF NoInvocation
<1>5. CASE Chat(c)
  <2>1. /\ contents'[c] = <<User(c)>> /\ UNCHANGED <<pending, invoked, invocation>>
        /\ pending[c] = << >> /\ invoked[c] = << >> /\ InInvoke(c, "none")
        /\ contents[c] = << >>
    BY <1>1, <1>3, <1>5 DEF Chat, host, SourceInv, At
  <2>2. User(c) \in Turns /\ User(c).role = "user"
    BY TurnsAreTyped DEF User
  <2>3. << >> \in Seq(Turns) /\ Append(<< >>, User(c)) = <<User(c)>>
    BY EmptySeq
  <2> DEFINE t == User(c)
  <2> HIDE DEF t
  <2>4. CallsIn(c, Append(<< >>, t)) = << >>
    <3>1. /\ CallsIn(c, << >>) = << >>
          /\ CallsIn(c, Append(<< >>, t)) = CallsIn(c, << >>) \o
                 (IF t.role = "model" /\ t.of = c THEN t.parts ELSE << >>)
      BY <2>2, <2>3, CallsInAppend DEF t
    <3>2. t.role # "model"
      BY <2>2 DEF t
    <3> QED
      BY <1>2, <3>1, <3>2
  <2>5. CallsIn(c, contents'[c]) = << >>
    BY <2>1, <2>3, <2>4 DEF t
  <2> QED
    BY <1>2, <2>1, <2>5 DEF Invoked, ToInvoke, InInvoke
<1>6. CASE Send(c)
  <2> DEFINE s == session[c]
             t == User(c)
  <2>1. s \in Session /\ t \in Turns /\ t.role = "user"
    BY <1>1, <1>6, TurnsAreTyped DEF Send, IsSend, User
  <2>2. /\ contents'[c] = Append(history[s], t) /\ UNCHANGED <<pending, invoked, invocation>>
        /\ pending[c] = << >> /\ invoked[c] = << >> /\ InInvoke(c, "none")
    BY <1>1, <1>3, <1>6 DEF Send, host, SourceInv, At
  <2>3. ~ Holds(history[s], c)
    BY <1>6, <2>1 DEF SourceInv, Send
  <2>4. history[s] \in Seq(Turns)
    BY <1>1, <2>1
  <2> HIDE DEF t, s
  <2>5. CallsIn(c, history[s]) = << >>
    BY <2>3, <2>4, CallsOfNobody
  <2>6. CallsIn(c, Append(history[s], t)) = << >>
    <3>1. CallsIn(c, Append(history[s], t)) = CallsIn(c, history[s]) \o
                 (IF t.role = "model" /\ t.of = c THEN t.parts ELSE << >>)
      BY <2>1, <2>4, CallsInAppend
    <3> QED
      BY <1>2, <2>1, <2>5, <3>1
  <2> QED
    BY <1>2, <2>2, <2>6 DEF Invoked, ToInvoke, InInvoke
<1>7. CASE SendLists(c) \/ Exhausted(c) \/ ProviderError(c) \/ Commit(c)
  <2>1. /\ UNCHANGED <<contents, pending, invoked, invocation>>
        /\ ~ At(c, "failed") /\ ~ At(c, "dispatch") /\ ~ At(c, "dispatch")'
    BY <1>1, <1>7 DEF SendLists, Exhausted, ProviderError, Commit, host, At, Goto
  <2> QED
    BY <2>1 DEF Invoked, ToInvoke, InInvoke, At
<1>8. CASE FinalReply(c)
  <2> DEFINE t == Model(c, << >>)
  <2>1. t \in Turns /\ t.parts = << >>
    BY <1>2, TurnsAreTyped DEF Model
  <2>2. /\ contents'[c] = Append(contents[c], t) /\ UNCHANGED <<pending, invoked, invocation>>
        /\ ~ At(c, "failed") /\ ~ At(c, "dispatch")
    BY <1>1, <1>8 DEF FinalReply, host, Responds, At
  <2>3. contents[c] \in Seq(Turns)
    BY <1>1
  <2> HIDE DEF t
  <2>4. CallsIn(c, contents'[c]) = CallsIn(c, contents[c])
    <3>1. /\ CallsIn(c, contents[c]) \in Seq(ToolName)
          /\ CallsIn(c, Append(contents[c], t)) = CallsIn(c, contents[c]) \o
                 (IF t.role = "model" /\ t.of = c THEN t.parts ELSE << >>)
      BY <2>1, <2>3, CallsInAppend
    <3> QED
      BY <1>2, <2>1, <2>2, <3>1
  <2> QED
    BY <2>2, <2>4 DEF Invoked, ToInvoke, InInvoke
<1>9. CASE ModelCalls(c)
  <2>1. PICK n \in 1..MaxBatch : \E calls \in [1..n -> ToolName] :
           /\ contents' = [contents EXCEPT ![c] = Append(@, Model(c, calls))]
           /\ pending' = [pending EXCEPT ![c] = calls]
    BY <1>9 DEF ModelCalls
  <2>2. PICK calls \in Seq(ToolName) :
           /\ contents' = [contents EXCEPT ![c] = Append(@, Model(c, calls))]
           /\ pending' = [pending EXCEPT ![c] = calls]
    <3>1. n \in Nat
      BY CallConstants
    <3>2. \A calls \in [1..n -> ToolName] : calls \in Seq(ToolName)
      BY <3>1
    <3> QED
      BY <2>1, <3>2
  <2> DEFINE t == Model(c, calls)
  <2>3. t \in Turns /\ t.parts = calls /\ t.role = "model" /\ t.of = c
    BY <2>2, TurnsAreTyped DEF Model
  <2>4. /\ contents'[c] = Append(contents[c], t) /\ pending'[c] = calls
        /\ UNCHANGED <<invoked, invocation>> /\ contents[c] \in Seq(Turns)
        /\ At(c, "ask") /\ At(c, "dispatch")'
    BY <1>1, <1>9, <2>2 DEF ModelCalls, host, Responds, At, Goto
  <2>5. ~ At(c, "dispatch") /\ ~ At(c, "failed") /\ InInvoke(c, "none")
    BY <1>3, <2>4 DEF At
  <2> HIDE DEF t
  <2>6. CallsIn(c, contents'[c]) = CallsIn(c, contents[c]) \o calls
    <3>1. CallsIn(c, Append(contents[c], t)) = CallsIn(c, contents[c]) \o
                 (IF t.role = "model" /\ t.of = c THEN t.parts ELSE << >>)
      BY <2>3, <2>4, CallsInAppend
    <3> QED
      BY <2>3, <2>4, <3>1
  <2>7. c \in HasHost => invoked[c] = CallsIn(c, contents[c])
    <3>1. pending[c] = << >> /\ invoked[c] \in Seq(ToolName)
      BY <1>1, <2>5 DEF Invoked
    <3> QED
      BY <1>2, <2>5, <3>1 DEF Invoked, ToInvoke
  <2>8. InInvoke(c, "none")'
    BY <2>4, <2>5 DEF InInvoke
  <2> QED
    BY <2>4, <2>6, <2>7, <2>8 DEF Invoked, ToInvoke
<1>10. CASE BeginCall(c)
  <2> DEFINE p == pending[c]
             i == invoked[c]
             v == [NoInvocation EXCEPT !.step = "logged", !.name = Head(p)]
  <2>1. /\ InInvoke(c, "none") /\ p # << >> /\ At(c, "dispatch") /\ c \in HasHost
        /\ invoked'[c] = Append(i, Head(p)) /\ UNCHANGED agent
        /\ invocation' = [invocation EXCEPT ![c] = v]
    BY <1>1, <1>10 DEF BeginCall, LogInvocation
  <2>2. v.step = "logged"
    BY <1>4
  <2> HIDE DEF v
  <2>3. ~ InInvoke(c, "none")'
    BY <1>1, <2>1, <2>2 DEF InInvoke
  <2>4. p \in Seq(ToolName) /\ i \in Seq(ToolName)
    BY <1>1
  <2> HIDE DEF p, i
  <2>5. Append(i, Head(p)) \o Tail(p) = i \o p
    BY <2>1, <2>4
  <2>6. i \o p = CallsIn(c, contents[c])
    BY <2>1 DEF Invoked, ToInvoke, At, p, i
  <2> QED
    BY <2>1, <2>3, <2>5, <2>6 DEF Invoked, ToInvoke, At, agent, p, i
<1>11. CASE Invoking(c)
  <2>1. ~ InInvoke(c, "none") /\ ~ InInvoke(c, "none")' /\ UNCHANGED agent
    BY <1>11, InvokingKeepsName DEF Typed
  <2>2. UNCHANGED invoked
    BY <1>11 DEF Invoking, TakeCanned, LookUp, ToolReturns
  <2> QED
    BY <2>1, <2>2 DEF Invoked, ToInvoke, At, agent
<1>12. CASE EndCall(c)
  <2>1. /\ InInvoke(c, "answered") /\ At(c, "dispatch") /\ pending'[c] = Tail(pending[c])
        /\ UNCHANGED <<phase, contents, invoked>>
        /\ invocation' = [invocation EXCEPT ![c] = NoInvocation]
    BY <1>1, <1>12 DEF EndCall, Answered, EndInvoke
  <2>2. ~ InInvoke(c, "none")
    BY <2>1 DEF InInvoke
  <2>3. InInvoke(c, "none")'
    BY <1>1, <1>4, <2>1 DEF InInvoke
  <2> QED
    BY <2>1, <2>2, <2>3 DEF Invoked, ToInvoke, At
<1>13. CASE NoHostAnswer(c)
  BY <1>13 DEF NoHostAnswer, Answered, Invoked, At
<1>14. CASE ToolTurn(c)
  <2> DEFINE t == Tool(c, answers[c])
  <2>1. t \in Turns /\ t.role = "tool"
    BY TurnsAreTyped DEF Tool, Typed, AgentTypeOK
  <2>2. /\ contents'[c] = Append(contents[c], t) /\ UNCHANGED <<pending, invoked, invocation>>
        /\ contents[c] \in Seq(Turns) /\ pending[c] = << >> /\ At(c, "dispatch")
    BY <1>1, <1>14 DEF ToolTurn, host
  <2> HIDE DEF t
  <2>3. CallsIn(c, contents'[c]) = CallsIn(c, contents[c])
    <3>1. /\ CallsIn(c, contents[c]) \in Seq(ToolName)
          /\ CallsIn(c, Append(contents[c], t)) = CallsIn(c, contents[c]) \o
                 (IF t.role = "model" /\ t.of = c THEN t.parts ELSE << >>)
      BY <2>1, <2>2, CallsInAppend
    <3> QED
      BY <1>2, <2>1, <2>2, <3>1
  <2> QED
    BY <2>2, <2>3 DEF Invoked, ToInvoke, InInvoke, At
<1>15. CASE Drop(c)
  BY <1>1, <1>15 DEF Drop, Goto, Invoked, At
<1> QED
  BY <1>5, <1>6, <1>7, <1>8, <1>9, <1>10, <1>11, <1>12, <1>13, <1>14, <1>15 DEF CallStep

\* EachCallIsInvokedOnce: the host is invoked for the calls that the model made,
\* each once and in order, whatever runs beside.
THEOREM CallsAreInvokedOnce == Spec => []EachCallIsInvokedOnce
<1>1. Init => InvokedInv
  <2> SUFFICES ASSUME Init, NEW c \in Call PROVE Invoked(c)
    BY DEF InvokedInv
  <2>1. CallsIn(c, << >>) = << >>
    BY DEF CallsIn, FlattenSeq
  <2>2. pending[c] = << >> /\ invoked[c] = << >> /\ contents[c] = << >> /\ InInvoke(c, "none")
    BY DEF Init, HostInit, InInvoke, NoInvocation
  <2>3. << >> \o << >> = << >>
    OBVIOUS
  <2> QED
    BY <2>1, <2>2, <2>3 DEF Invoked, ToInvoke
<1>2. Typed /\ SourceInv /\ InvokedInv /\ [Next]_vars => InvokedInv'
  <2> SUFFICES ASSUME Typed, SourceInv, InvokedInv, [Next]_vars, NEW d \in Call
               PROVE  Invoked(d)'
    BY DEF InvokedInv
  <2>1. Invoked(d)
    BY DEF InvokedInv
  <2>2. ASSUME NEW c \in Call, c # d, Chat(c) \/ Send(c) \/ CallStep(c) \/ Drop(c)
        PROVE  Invoked(d)'
    <3>1. /\ phase'[d] = phase[d] /\ contents'[d] = contents[d] /\ pending'[d] = pending[d]
          /\ invocation'[d] = invocation[d]
      BY <2>2, CallsAreApart
    <3>2. invoked'[d] = invoked[d]
      BY <2>2, CallsInvokeApart
    <3> QED
      BY <2>1, <3>1, <3>2 DEF Invoked, ToInvoke, InInvoke, At
  <2>3. CASE HostStep \/ UNCHANGED vars
    <3>1. UNCHANGED <<agent, invoked, invocation>>
      BY <2>3 DEF HostStep, vars, host, HostNext, RegisterNative, Enqueue, MountStart,
                  MountConnects, MountRegister, MountHandle, MountRecord, ShutdownMcp
    <3> QED
      BY <2>1, <3>1 DEF agent, Invoked, ToInvoke, InInvoke, At
  <2> QED
    BY <2>1, <2>2, <2>3, CallKeepsInvoked DEF Next
<1>3. InvokedInv => EachCallIsInvokedOnce
  BY CallConstants DEF InvokedInv, Invoked, ToInvoke, EachCallIsInvokedOnce, At
<1> QED
  BY <1>1, <1>2, <1>3, CallsAreTyped, SourcesStay, PTL DEF Spec

-----------------------------------------------------------------------------
(* The usage of a session                                                  *)

\* The calls that began: finitely many, whatever Call is.
Begun == {c \in Call : ~ At(c, "idle")}

Tokens == [c \in Call |-> usage[c].tokens]

UsageInv == IsFiniteSet(Begun) /\ SessionUsageCountsReplies

\* A call's step begins no call but that one.
LEMMA BegunStaysFinite ==
    ASSUME Typed, IsFiniteSet(Begun), NEW c \in Call,
           Chat(c) \/ Send(c) \/ CallStep(c) \/ Drop(c)
    PROVE  IsFiniteSet(Begun')
<1>1. Begun' \in SUBSET (Begun \cup {c})
  BY CallsAreApart DEF Begun, At
<1>2. IsFiniteSet(Begun \cup {c})
  BY FS_AddElement
<1> QED
  BY <1>1, <1>2, FS_Subset

\* agent.rs: only a commit adds to a session's usage, and to its replies; what the
\* calls that are done used does not change.
LEMMA OnlyCommitsCount ==
    ASSUME Typed, NEW c \in Call, Chat(c) \/ Send(c) \/ CallStep(c) \/ Drop(c), ~ Commit(c)
    PROVE  /\ UNCHANGED cumulative
           /\ \A d \in Call : IsSend(d) => (At(d, "done")' <=> At(d, "done"))
           /\ \A d \in Call : At(d, "done") => usage'[d] = usage[d]
<1>1. phase \in [Call -> Phase] /\ usage \in [Call -> Usage]
  BY DEF Typed, AgentTypeOK
<1>2. \A d \in Call \ {c} : phase'[d] = phase[d]
  BY CallsAreApart
<1>3. UNCHANGED cumulative
  BY DEF Chat, Send, CallStep, Drop, SendLists, Exhausted, ProviderError, FinalReply,
         ModelCalls, BeginCall, Invoking, EndCall, NoHostAnswer, ToolTurn, Answered, agent
<1>4. /\ IsSend(c) => (At(c, "done")' <=> At(c, "done"))
      /\ \A d \in Call : At(d, "done") => usage'[d] = usage[d]
  <2>1. CASE BeginCall(c) \/ Invoking(c)
    BY <2>1 DEF BeginCall, Invoking, agent, At
  <2>2. CASE EndCall(c) \/ NoHostAnswer(c)
    BY <2>2 DEF EndCall, NoHostAnswer, Answered, At
  <2>3. CASE FinalReply(c) \/ ModelCalls(c)
    <3>1. At(c, "ask") /\ \A d \in Call \ {c} : usage'[d] = usage[d]
      BY <1>1, <2>3 DEF FinalReply, ModelCalls, Responds
    <3>2. IsSend(c) => ~ At(c, "done")'
      BY <1>1, <2>3 DEF FinalReply, ModelCalls, Goto, At
    <3> QED
      BY <3>1, <3>2 DEF At
  <2>4. CASE Chat(c) \/ Send(c) \/ SendLists(c) \/ Exhausted(c) \/ ProviderError(c)
                \/ ToolTurn(c)
    BY <1>1, <2>4 DEF Chat, Send, SendLists, Exhausted, ProviderError, ToolTurn, Goto, At
  <2>5. CASE Drop(c)
    BY <1>1, <2>5 DEF Drop, Goto, At
  <2> QED
    BY <2>1, <2>2, <2>3, <2>4, <2>5 DEF CallStep
<1> QED
  BY <1>2, <1>3, <1>4 DEF At

\* agent.rs, send and accumulate: a commit counts its send once.
LEMMA CommitCountsOnce ==
    ASSUME Typed, SourceInv, UsageInv, NEW c \in Call, Commit(c), NEW s \in Session
    PROVE  cumulative'[s].tokens = Saturate(TokensOf(s)')
<1> DEFINE R == Replied(s)
           n == TokensOf(s)
           t == usage[c].tokens
<1>1. /\ phase \in [Call -> Phase] /\ usage \in [Call -> Usage]
      /\ cumulative \in [Session -> Usage] /\ Tokens \in [Call -> Nat]
  BY CallConstants DEF Typed, AgentTypeOK, Usage, Tokens
<1>2. /\ phase' = [phase EXCEPT ![c] = "done"] /\ At(c, "commit") /\ UNCHANGED usage
      /\ cumulative' = [cumulative EXCEPT
                            ![session[c]] = Accumulated(cumulative[session[c]], usage[c])]
  BY <1>1 DEF Commit, Goto
<1>3. R \in SUBSET Call /\ R \in SUBSET Begun /\ IsFiniteSet(R)
  <2>1. R \in SUBSET Call /\ R \in SUBSET Begun
    BY DEF Replied, Begun, At
  <2> QED
    BY <2>1, FS_Subset DEF UsageInv
<1>4. n = SumFunctionOnSet(Tokens, R) /\ TokensOf(s)' = SumFunctionOnSet(Tokens', R')
  BY DEF TokensOf, Tokens
<1>5. UNCHANGED Tokens
  BY <1>2 DEF Tokens
<1>6. cumulative[s].tokens = Saturate(n) /\ n \in Nat /\ t \in Nat
  <2>1. SumFunctionOnSet(Tokens, R) \in Nat
    BY <1>1, <1>3, SumRemove
  <2>2. t \in Nat
    BY <1>1, CallConstants DEF Usage
  <2> QED
    BY <1>4, <2>1, <2>2 DEF UsageInv, SessionUsageCountsReplies
<1>7. CASE session[c] # s
  <2>1. R' = R
    BY <1>1, <1>2, <1>7 DEF Replied, At
  <2>2. cumulative'[s] = cumulative[s]
    BY <1>1, <1>2, <1>7
  <2> QED
    BY <1>4, <1>5, <1>6, <2>1, <2>2
<1>8. CASE session[c] = s
  <2>1. R' = R \cup {c} /\ c \notin R
    BY <1>1, <1>2, <1>8 DEF Replied, At
  <2>2. SumFunctionOnSet(Tokens, R \cup {c})
           = Tokens[c] + SumFunctionOnSet(Tokens, (R \cup {c}) \ {c})
    <3>1. R \cup {c} \in SUBSET Call /\ IsFiniteSet(R \cup {c}) /\ c \in R \cup {c}
      BY <1>3, FS_AddElement
    <3> QED
      BY <1>1, <3>1, SumRemove
  <2>3. (R \cup {c}) \ {c} = R /\ Tokens[c] = t
    BY <2>1 DEF Tokens
  <2>4. TokensOf(s)' = t + n
    BY <1>4, <1>5, <2>1, <2>2, <2>3
  <2>5. cumulative'[s].tokens = Saturate(cumulative[s].tokens + t)
    <3>1. cumulative'[s] = Accumulated(cumulative[s], usage[c])
      BY <1>1, <1>2, <1>8
    <3> QED
      BY <3>1 DEF Accumulated
  <2> HIDE DEF n, t
  <2> QED
    BY <1>6, <2>4, <2>5, CallConstants DEF Saturate
<1> QED
  BY <1>7, <1>8

\* SessionUsageCountsReplies: each send that returned is counted once in its
\* session's usage, in whatever order the clones commit.
THEOREM SessionUsageIsExact == Spec => []SessionUsageCountsReplies
<1>1. Init => UsageInv
  <2> SUFFICES ASSUME Init PROVE UsageInv
    OBVIOUS
  <2>1. Begun = {} /\ \A s \in Session : Replied(s) = {}
    BY DEF Init, Begun, Replied, At
  <2>2. IsFiniteSet(Begun)
    BY <2>1, FS_EmptySet
  <2>3. ASSUME NEW s \in Session PROVE TokensOf(s) = 0
    <3>1. Tokens \in [Call -> Nat]
      BY DEF Init, Tokens, DefaultUsage
    <3>2. {} \in SUBSET Call /\ IsFiniteSet({})
      BY FS_EmptySet
    <3>3. SumFunctionOnSet(Tokens, {}) = 0
      BY <3>1, <3>2, SumRemove
    <3> QED
      BY <2>1, <3>3 DEF TokensOf, Tokens
  <2>4. \A s \in Session : cumulative[s].tokens = 0
    BY DEF Init, DefaultUsage
  <2>5. Saturate(0) = 0
    BY CallConstants DEF Saturate
  <2> QED
    BY <2>2, <2>3, <2>4, <2>5 DEF UsageInv, SessionUsageCountsReplies
<1>2. Typed /\ SourceInv /\ UsageInv /\ [Next]_vars => UsageInv'
  <2> SUFFICES ASSUME Typed, SourceInv, UsageInv, [Next]_vars PROVE UsageInv'
    OBVIOUS
  <2>1. ASSUME NEW c \in Call, Commit(c) PROVE UsageInv'
    <3>1. IsFiniteSet(Begun')
      BY <2>1, BegunStaysFinite DEF UsageInv, CallStep
    <3> QED
      BY <2>1, <3>1, CommitCountsOnce DEF UsageInv, SessionUsageCountsReplies
  <2>2. ASSUME IsFiniteSet(Begun'), UNCHANGED cumulative,
               \A d \in Call : IsSend(d) => (At(d, "done")' <=> At(d, "done")),
               \A d \in Call : At(d, "done") => usage'[d] = usage[d]
        PROVE  UsageInv'
    <3>1. ASSUME NEW s \in Session PROVE TokensOf(s)' = TokensOf(s)
      <4>1. Replied(s)' = Replied(s)
        BY <2>2, CallConstants DEF Replied, IsSend
      <4>2. IsFiniteSet(Replied(s))
        <5>1. Replied(s) \in SUBSET Begun
          BY DEF Replied, Begun, At
        <5> QED
          BY <5>1, FS_Subset DEF UsageInv
      <4>3. \A x \in Replied(s) : Tokens[x] = Tokens'[x]
        BY <2>2 DEF Replied, Tokens
      <4>4. SumFunctionOnSet(Tokens, Replied(s)) = SumFunctionOnSet(Tokens', Replied(s))
        BY <4>2, <4>3, SumAgree
      <4> QED
        BY <4>1, <4>4 DEF TokensOf, Tokens
    <3> QED
      BY <2>2, <3>1 DEF UsageInv, SessionUsageCountsReplies
  <2>3. ASSUME NEW c \in Call, Chat(c) \/ Send(c) \/ CallStep(c) \/ Drop(c), ~ Commit(c)
        PROVE  UsageInv'
    BY <2>2, <2>3, BegunStaysFinite, OnlyCommitsCount DEF UsageInv
  <2>4. CASE UNCHANGED agent
    BY <2>2, <2>4 DEF agent, Begun, At, UsageInv
  <2> QED
    BY <2>1, <2>3, <2>4 DEF Next, HostStep, vars
<1>3. UsageInv => SessionUsageCountsReplies
  BY DEF UsageInv
<1> QED
  BY <1>1, <1>2, <1>3, CallsAreTyped, SourcesStay, PTL DEF Spec

-----------------------------------------------------------------------------
(* What was said through one value                                         *)

\* What r holds through h, t holds too, and t perhaps goes on.
Behind(h, r, t) == IsPrefix(TurnsOf(h, r), TurnsOf(h, t))

\* Behind is a preorder; a conversation that holds nothing through h is behind all.
LEMMA BehindOrder ==
    ASSUME NEW c \in Call, NEW h, NEW r \in Seq(Turns), NEW s \in Seq(Turns),
           NEW t \in Seq(Turns)
    PROVE  /\ Behind(h, r, r)
           /\ Behind(h, r, s) /\ Behind(h, s, t) => Behind(h, r, t)
           /\ (\A o : Holds(r, o) => handle[o] # h) => Behind(h, r, t)
<1> DEFINE x == TurnsOf(h, r)
           y == TurnsOf(h, s)
           z == TurnsOf(h, t)
<1>1. User(c) \in Turns
  BY TurnsAreTyped
<1>2. x \in Seq(Turns) /\ y \in Seq(Turns) /\ z \in Seq(Turns)
  BY <1>1, TurnsOfAppend
<1>3. ASSUME \A o : Holds(r, o) => handle[o] # h PROVE x = << >>
  <2>1. \A i \in DOMAIN r : handle[r[i].of] # h
    BY <1>3 DEF Holds
  <2> QED
    BY <1>1, <2>1, TurnsOfAppend
<1> HIDE DEF x, y, z
<1>4. /\ IsPrefix(x, x)
      /\ IsPrefix(x, y) /\ IsPrefix(y, z) => IsPrefix(x, z)
  BY <1>2, PrefixOrder
<1>5. IsPrefix(<< >>, z)
  <2>1. << >> \in Seq(Turns) /\ << >> \o z = z
    BY <1>2, EmptySeq, ConcatEmptySeq
  <2> QED
    BY <1>2, <2>1, PrefixOrder
<1> QED
  BY <1>3, <1>4, <1>5 DEF Behind, x, y, z

\* A conversation is behind itself with one turn more, and as far through the values
\* that the turn is not of.
LEMMA BehindAppend ==
    ASSUME NEW h, NEW r \in Seq(Turns), NEW t \in Turns
    PROVE  /\ Behind(h, r, Append(r, t))
           /\ handle[t.of] # h => Behind(h, Append(r, t), r)
<1> DEFINE x == TurnsOf(h, r)
           y == TurnsOf(h, Append(r, t))
           u == IF handle[t.of] = h THEN <<t>> ELSE << >>
<1>1. x \in Seq(Turns) /\ y = x \o u
  BY TurnsOfAppend
<1>2. u \in Seq(Turns)
  BY EmptySeq
<1> HIDE DEF x, y
<1>3. IsPrefix(x, x \o u) /\ IsPrefix(x, x)
  <2> HIDE DEF u
  <2> QED
    BY <1>1, <1>2, PrefixOrder
<1>4. handle[t.of] # h => y = x
  BY <1>1, ConcatEmptySeq
<1> QED
  BY <1>1, <1>3, <1>4 DEF Behind, x, y

\* A send between the copy of the history and the commit.
InFlight(c) == IsSend(c) /\ phase[c] \in {"list", "ask", "dispatch", "commit"}

\* The copy of a send in flight has what the history has through its own value, and
\* the history has what the copy has through the others.
Ahead(c) ==
    \A h \in Handle :
        IF h = handle[c] THEN Behind(h, history[session[c]], contents[c])
                         ELSE Behind(h, contents[c], history[session[c]])

\* Sends in flight are of different values, and ahead while there is one clone.
OwnInv ==
    /\ \A c, d \in Call : InFlight(c) /\ InFlight(d) /\ handle[c] = handle[d] => c = d
    /\ \A c \in Call : InFlight(c) /\ AtMostOneClone(session[c]) => Ahead(c)

\* Of three sends that began on a session with one clone, two are of one value.
LEMMA TwoValues ==
    ASSUME NEW s, AtMostOneClone(s),
           NEW c \in Call, NEW d \in Call, NEW e \in Call,
           session[c] = s, session[d] = s, session[e] = s,
           ~ At(c, "idle"), ~ At(d, "idle"), ~ At(e, "idle")
    PROVE  handle[c] = handle[d] \/ handle[d] = handle[e] \/ handle[c] = handle[e]
<1> DEFINE used == {handle[x] : x \in {y \in Call : session[y] = s /\ ~ At(y, "idle")}}
<1>1. \A f, g, h \in used : f = g \/ g = h \/ f = h
  BY DEF AtMostOneClone
<1>2. handle[c] \in used /\ handle[d] \in used /\ handle[e] \in used
  OBVIOUS
<1> HIDE DEF used
<1> QED
  BY <1>1, <1>2

\* Calls do not become idle, so clones are not unused again.
LEMMA ClonesStay ==
    ASSUME Typed, NEW c \in Call, Chat(c) \/ Send(c) \/ CallStep(c) \/ Drop(c),
           NEW s, AtMostOneClone(s)'
    PROVE  AtMostOneClone(s)
<1> DEFINE used == {handle[x] : x \in {y \in Call : session[y] = s /\ ~ At(y, "idle")}}
<1>1. used \subseteq used'
  BY BegunStaysBegun
<1>2. \A f, g, h \in used' : f = g \/ g = h \/ f = h
  BY DEF AtMostOneClone
<1>3. \A f, g, h \in used : f = g \/ g = h \/ f = h
  <2> HIDE DEF used
  <2> QED
    BY <1>1, <1>2
<1> QED
  BY <1>3 DEF AtMostOneClone

\* agent.rs: what a step does to the sends in flight.
LEMMA FlightSteps ==
    ASSUME Typed, SourceInv, NEW c \in Call, Chat(c) \/ Send(c) \/ CallStep(c) \/ Drop(c)
    PROVE  /\ \A d \in Call \ {c} : InFlight(d)' <=> InFlight(d)
           /\ InFlight(c)' => Send(c) \/ InFlight(c)
           /\ Commit(c) => InFlight(c) /\ ~ InFlight(c)'
           /\ Chat(c) => ~ IsSend(c)
<1>1. phase \in [Call -> Phase]
  BY DEF Typed, AgentTypeOK
<1>2. \A d \in Call \ {c} : phase'[d] = phase[d]
  BY CallsAreApart
<1>3. Commit(c) => InFlight(c) /\ ~ InFlight(c)'
  BY <1>1 DEF Commit, Goto, At, InFlight, SourceInv
<1>4. Chat(c) => ~ IsSend(c)
  BY DEF Chat
<1>5. IsSend(c)' <=> IsSend(c)
  BY DEF IsSend
<1>6. ~ Chat(c) /\ ~ Send(c) => phase[c] \in {"list", "ask", "dispatch", "commit"}
  <2>1. CASE Invoking(c)
    <3>1. ~ InInvoke(c, "none")
      BY <2>1, InvokingKeepsName DEF Typed
    <3> QED
      BY <3>1 DEF Typed, Serving, At
  <2> QED
    BY <2>1 DEF CallStep, Drop, SendLists, Exhausted, ProviderError, FinalReply, ModelCalls,
       BeginCall, EndCall, NoHostAnswer, ToolTurn, Commit, Responds, At
<1> QED
  BY <1>2, <1>3, <1>4, <1>5, <1>6 DEF InFlight

\* agent.rs, send: a commit hands the history over from one value's copy to the
\* other's, which is behind it through every value that it is not of.
LEMMA CommitKeepsAhead ==
    ASSUME Typed, SourceInv, OwnInv, NEW c \in Call, Commit(c), InFlight(c),
           NEW d \in Call, d # c, InFlight(d), AtMostOneClone(session[d])
    PROVE  Ahead(d)'
<1> DEFINE s == session[c]
           x == history[s]
           y == contents[c]
           z == contents[d]
<1>1. /\ contents \in [Call -> Seq(Turns)] /\ history \in [Session -> Seq(Turns)]
      /\ session \in [Call -> Session \cup {NoSession}] /\ handle \in [Call -> Handle]
  BY CallConstants DEF Typed, AgentTypeOK
<1>2. s \in Session /\ session[d] \in Session
  BY <1>1 DEF InFlight, IsSend
<1>3. UNCHANGED contents /\ history' = [history EXCEPT ![s] = y]
  BY DEF Commit
<1>4. Ahead(d) /\ handle[c] # handle[d]
  BY DEF OwnInv
<1>5. CASE session[d] # s
  <2>1. history'[session[d]] = history[session[d]]
    BY <1>1, <1>2, <1>3, <1>5
  <2> QED
    BY <1>3, <1>4, <2>1 DEF Ahead
<1>6. CASE session[d] = s
  <2>1. history'[s] = y /\ contents'[d] = z
    BY <1>1, <1>2, <1>3
  <2>2. Ahead(c)
    BY <1>6 DEF OwnInv
  <2>3. x \in Seq(Turns) /\ y \in Seq(Turns) /\ z \in Seq(Turns)
    BY <1>1, <1>2
  <2>4. \A o \in Call : Holds(z, o) => handle[o] \in {handle[c], handle[d]}
    <3> SUFFICES ASSUME NEW o \in Call, Holds(z, o)
                 PROVE  handle[o] \in {handle[c], handle[d]}
      OBVIOUS
    <3>1. ~ At(o, "idle") /\ session[o] = s
      BY <1>6 DEF SourceInv, MayHold
    <3>2. ~ At(c, "idle") /\ ~ At(d, "idle")
      BY DEF InFlight, At
    <3> QED
      BY <1>4, <1>6, <3>1, <3>2, TwoValues
  <2>5. \A o : Holds(z, o) => o \in Call
    <3>1. \A i \in DOMAIN z : z[i] \in Turns
      BY <2>3, LenProperties, ElementOfSeq
    <3> QED
      BY <3>1 DEF Holds, Turns
  <2>6. /\ \A h \in Handle : IF h = handle[c] THEN Behind(h, x, y) ELSE Behind(h, y, x)
        /\ \A h \in Handle : IF h = handle[d] THEN Behind(h, x, z) ELSE Behind(h, z, x)
    BY <1>4, <1>6, <2>2 DEF Ahead
  <2> SUFFICES ASSUME NEW h \in Handle
               PROVE  IF h = handle[d] THEN Behind(h, y, z) ELSE Behind(h, z, y)
    BY <1>6, <2>1 DEF Ahead, Behind
  <2> HIDE DEF s, x, y, z
  <2>7. CASE h = handle[d]
    BY <1>4, <2>3, <2>6, <2>7, BehindOrder
  <2>8. CASE h = handle[c]
    <3>1. Behind(h, z, x) /\ Behind(h, x, y) /\ h # handle[d]
      BY <1>4, <2>6, <2>8
    <3> QED
      BY <2>3, <3>1, BehindOrder
  <2>9. CASE h \notin {handle[c], handle[d]}
    <3>1. \A o : Holds(z, o) => handle[o] # h
      BY <2>4, <2>5, <2>9
    <3> QED
      BY <2>3, <2>9, <3>1, BehindOrder
  <2> QED
    BY <2>7, <2>8, <2>9
<1> QED
  BY <1>5, <1>6

\* agent.rs, send: the user's turn that one value pushes is of that value.
LEMMA SendKeepsAhead ==
    ASSUME Typed, OwnInv, NEW c \in Call, Send(c), NEW d \in Call,
           d = c \/ (InFlight(d) /\ handle[d] # handle[c] /\ AtMostOneClone(session[d])),
           IsSend(d)
    PROVE  Ahead(d)'
<1> DEFINE s == session[c]
           t == User(c)
           x == history[s]
           y == Append(x, t)
           z == contents[d]
<1>1. /\ contents \in [Call -> Seq(Turns)] /\ history \in [Session -> Seq(Turns)]
      /\ session \in [Call -> Session \cup {NoSession}] /\ handle \in [Call -> Handle]
  BY CallConstants DEF Typed, AgentTypeOK
<1>2. s \in Session /\ session[d] \in Session /\ t \in Turns /\ t.of = c
  BY <1>1, TurnsAreTyped DEF Send, IsSend, User
<1>3. /\ history' = [history EXCEPT ![s] = y]
      /\ contents' = [contents EXCEPT ![c] = y]
  BY DEF Send
<1>4. x \in Seq(Turns) /\ y \in Seq(Turns) /\ z \in Seq(Turns)
  <2> HIDE DEF t
  <2> QED
    BY <1>1, <1>2, AppendProperties
<1>5. CASE d = c
  <2>1. history'[s] = y /\ contents'[c] = y
    BY <1>1, <1>2, <1>3
  <2>2. \A h : Behind(h, y, y)
    BY <1>4, BehindOrder
  <2> HIDE DEF y
  <2> QED
    BY <1>5, <2>1, <2>2 DEF Ahead, Behind
<1>6. CASE d # c
  <2>1. Ahead(d) /\ contents'[d] = z /\ handle[d] # handle[c]
    BY <1>1, <1>3, <1>6 DEF OwnInv
  <2>2. CASE session[d] # s
    <3>1. history'[session[d]] = history[session[d]]
      BY <1>1, <1>2, <1>3, <2>2
    <3> QED
      BY <2>1, <3>1 DEF Ahead, Behind
  <2>3. CASE session[d] = s
    <3>1. history'[s] = y
      BY <1>1, <1>2, <1>3
    <3>2. \A h \in Handle : IF h = handle[d] THEN Behind(h, x, z) ELSE Behind(h, z, x)
      BY <2>1, <2>3 DEF Ahead
    <3>3. \A h : Behind(h, x, y) /\ (handle[c] # h => Behind(h, y, x))
      <4> HIDE DEF t, x
      <4> QED
        BY <1>2, <1>4, BehindAppend
    <3> SUFFICES ASSUME NEW h \in Handle
                 PROVE  IF h = handle[d] THEN Behind(h, y, z) ELSE Behind(h, z, y)
      BY <2>1, <2>3, <3>1 DEF Ahead, Behind
    <3> HIDE DEF s, x, y, z
    <3>4. CASE h = handle[d]
      <4>1. Behind(h, y, x) /\ Behind(h, x, z)
        BY <2>1, <3>2, <3>3, <3>4
      <4> QED
        BY <1>4, <3>4, <4>1, BehindOrder
    <3>5. CASE h # handle[d]
      <4>1. Behind(h, z, x) /\ Behind(h, x, y)
        BY <3>2, <3>3, <3>5
      <4> QED
        BY <1>4, <3>5, <4>1, BehindOrder
    <3> QED
      BY <3>4, <3>5
  <2> QED
    BY <2>2, <2>3
<1> QED
  BY <1>5, <1>6

\* agent.rs, run_loop_inner: the loop adds turns of its own send.
LEMMA AddKeepsAhead ==
    ASSUME Typed, NEW c \in Call, NEW t \in Turns, Adds(c, t), IsSend(c), Ahead(c)
    PROVE  Ahead(c)'
<1> DEFINE x == history[session[c]]
           y == contents[c]
           z == Append(y, t)
<1>1. /\ contents \in [Call -> Seq(Turns)] /\ history \in [Session -> Seq(Turns)]
      /\ session[c] \in Session
  BY CallConstants DEF Typed, AgentTypeOK, IsSend
<1>2. x \in Seq(Turns) /\ y \in Seq(Turns) /\ z \in Seq(Turns)
  BY <1>1, AppendProperties
<1>3. contents'[c] = z /\ UNCHANGED history /\ t.of = c
  BY <1>1 DEF Adds
<1>4. \A h \in Handle : IF h = handle[c] THEN Behind(h, x, y) ELSE Behind(h, y, x)
  BY DEF Ahead
<1>5. \A h : Behind(h, y, z) /\ (handle[c] # h => Behind(h, z, y))
  <2> HIDE DEF x, y
  <2> QED
    BY <1>2, <1>3, BehindAppend
<1> SUFFICES ASSUME NEW h \in Handle
             PROVE  IF h = handle[c] THEN Behind(h, x, z) ELSE Behind(h, z, x)
  BY <1>3 DEF Ahead, Behind
<1> HIDE DEF x, y, z
<1>6. CASE h = handle[c]
  <2>1. Behind(h, x, y) /\ Behind(h, y, z)
    BY <1>4, <1>5, <1>6
  <2> QED
    BY <1>2, <1>6, <2>1, BehindOrder
<1>7. CASE h # handle[c]
  <2>1. Behind(h, z, y) /\ Behind(h, y, x)
    BY <1>4, <1>5, <1>7
  <2> QED
    BY <1>2, <1>7, <2>1, BehindOrder
<1> QED
  BY <1>6, <1>7

\* agent.rs: a call's step keeps the sends in flight apart, and ahead.
LEMMA CallKeepsOwn ==
    ASSUME Typed, SourceInv, OwnInv, NEW c \in Call,
           Chat(c) \/ Send(c) \/ CallStep(c) \/ Drop(c)
    PROVE  OwnInv'
<1>1. /\ \A d \in Call \ {c} : InFlight(d)' <=> InFlight(d)
      /\ InFlight(c)' => Send(c) \/ InFlight(c)
      /\ Commit(c) => InFlight(c) /\ ~ InFlight(c)'
      /\ Chat(c) => ~ IsSend(c)
  BY FlightSteps
<1>2. \A d \in Call \ {c} : InFlight(d) /\ InFlight(c)' => handle[c] # handle[d]
  <2>1. Send(c) => \A d \in Call \ {c} : InFlight(d) => handle[c] # handle[d]
    BY DEF Send, HandleFree, InFlight, Ended
  <2> QED
    BY <1>1, <2>1 DEF OwnInv
<1>3. \A d, e \in Call : InFlight(d)' /\ InFlight(e)' /\ handle[d] = handle[e] => d = e
  BY <1>1, <1>2 DEF OwnInv
<1>4. ASSUME NEW d \in Call, InFlight(d)', AtMostOneClone(session[d])'
      PROVE  Ahead(d)'
  <2>1. AtMostOneClone(session[d]) /\ IsSend(d)
    BY <1>4, ClonesStay DEF InFlight, IsSend
  <2>2. d = c \/ (InFlight(d) /\ Ahead(d) /\ contents'[d] = contents[d])
    BY <1>1, <1>4, <2>1, CallsAreApart DEF OwnInv
  <2>3. CASE Send(c)
    <3>1. d = c \/ (InFlight(d) /\ handle[d] # handle[c])
      <4>1. CASE d # c
        <5>1. InFlight(c)'
          BY <2>3 DEF Send, Goto, InFlight, IsSend, Typed, AgentTypeOK
        <5> QED
          BY <1>2, <2>2, <4>1, <5>1
      <4> QED
        BY <4>1
    <3> QED
      BY <2>1, <2>3, <3>1, SendKeepsAhead
  <2>4. CASE Commit(c)
    <3>1. InFlight(c) /\ d # c /\ InFlight(d)
      BY <1>1, <1>4, <2>4
    <3> QED
      BY <2>1, <2>4, <3>1, CommitKeepsAhead
  <2>5. CASE ~ Send(c) /\ \E t \in Turns : Adds(c, t)
    <3>1. PICK t \in Turns : Adds(c, t)
      BY <2>5
    <3>2. CASE d = c
      <4>1. Ahead(c)
        BY <1>1, <1>4, <2>1, <2>5, <3>2 DEF OwnInv
      <4> QED
        BY <2>1, <3>1, <3>2, <4>1, AddKeepsAhead
    <3>3. CASE d # c
      BY <2>2, <3>1, <3>3 DEF Adds, Ahead, Behind
    <3> QED
      BY <3>2, <3>3
  <2>6. CASE ~ Send(c) /\ UNCHANGED <<contents, history>>
    <3>1. Ahead(d)
      BY <1>1, <1>4, <2>1, <2>6 DEF OwnInv
    <3> QED
      BY <2>6, <3>1 DEF Ahead, Behind
  <2> QED
    BY <2>3, <2>4, <2>5, <2>6, ConversationSteps
<1> QED
  BY <1>3, <1>4 DEF OwnInv

\* agent.rs: in a call's own step, what was said through its value only grows.
LEMMA OwnTurnsGrow ==
    ASSUME Typed, SourceInv, OwnInv, NEW c \in Call,
           Chat(c) \/ Send(c) \/ CallStep(c) \/ Drop(c),
           IsSend(c), AtMostOneClone(session[c])'
    PROVE  Behind(handle[c], history[session[c]], history'[session[c]])
<1> DEFINE h == handle[c]
           s == session[c]
           x == history[s]
<1>1. /\ contents \in [Call -> Seq(Turns)] /\ history \in [Session -> Seq(Turns)]
      /\ s \in Session /\ h \in Handle
  BY CallConstants DEF Typed, AgentTypeOK, IsSend
<1>2. x \in Seq(Turns) /\ User(c) \in Turns
  BY <1>1, TurnsAreTyped
<1>3. CASE Send(c)
  <2>1. history'[s] = Append(x, User(c))
    BY <1>1, <1>3 DEF Send
  <2> HIDE DEF x, h
  <2>2. Behind(h, x, Append(x, User(c)))
    BY <1>2, BehindAppend
  <2> QED
    BY <2>1, <2>2 DEF x, h
<1>4. CASE Commit(c)
  <2>1. history'[s] = contents[c]
    BY <1>1, <1>4 DEF Commit
  <2>2. InFlight(c) /\ AtMostOneClone(s)
    BY <1>4, FlightSteps, ClonesStay
  <2>3. Ahead(c)
    BY <2>2 DEF OwnInv
  <2> QED
    BY <1>1, <2>1, <2>3 DEF Ahead
<1>5. CASE UNCHANGED history
  <2>1. Behind(h, x, x)
    <3> HIDE DEF x, h
    <3> QED
      BY <1>2, BehindOrder
  <2> QED
    BY <1>5, <2>1
<1> QED
  BY <1>3, <1>4, <1>5, ConversationSteps DEF Adds

\* OwnTurnsOnlyGrow: with one clone, what was said through a value survives its own
\* later sends, whatever fails, is dropped or commits between.
THEOREM OwnTurnsSurvive == Spec => OwnTurnsOnlyGrow
<1> DEFINE Grow(c) == IsSend(c) /\ phase'[c] # phase[c] /\ AtMostOneClone(session[c])' =>
                         IsPrefix(TurnsOf(handle[c], history[session[c]]),
                                  TurnsOf(handle[c], history'[session[c]]))
<1>1. Init => OwnInv
  BY DEF Init, OwnInv, InFlight
<1>2. Typed /\ SourceInv /\ OwnInv /\ [Next]_vars => OwnInv'
  <2> SUFFICES ASSUME Typed, SourceInv, OwnInv, [Next]_vars PROVE OwnInv'
    OBVIOUS
  <2>1. CASE UNCHANGED agent
    BY <2>1 DEF agent, OwnInv, InFlight, IsSend, Ahead, Behind, AtMostOneClone, At
  <2> QED
    BY <2>1, CallKeepsOwn DEF Next, HostStep, vars
<1>3. Typed /\ SourceInv /\ OwnInv /\ [Next]_vars => [\A c \in Call : Grow(c)]_vars
  <2> SUFFICES ASSUME Typed, SourceInv, OwnInv, Next, NEW c \in Call, IsSend(c),
                      phase'[c] # phase[c], AtMostOneClone(session[c])'
               PROVE  Behind(handle[c], history[session[c]], history'[session[c]])
    BY DEF Behind
  <2>1. ~ UNCHANGED agent
    BY DEF agent
  <2>2. PICK d \in Call : Chat(d) \/ Send(d) \/ CallStep(d) \/ Drop(d)
    BY <2>1 DEF Next, HostStep
  <2>3. d = c
    BY <2>2, CallsAreApart
  <2> QED
    BY <2>2, <2>3, OwnTurnsGrow
<1> QED
  BY <1>1, <1>2, <1>3, CallsAreTyped, SourcesStay, PTL DEF Spec, OwnTurnsOnlyGrow

=============================================================================
