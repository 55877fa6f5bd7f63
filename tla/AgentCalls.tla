----------------------------- MODULE AgentCalls -----------------------------
(***************************************************************************)
(* The LLM adapter's calls (crate ph0b0s-llm-adk, agent.rs): chat() and     *)
(* session.send(), which share one loop - ask the model, invoke the tools   *)
(* it calls, tell it the results - over a shared tool host.  A call awaits  *)
(* the provider and the tools with no lock held; a session's history and    *)
(* usage sit behind one mutex that its clones share.                        *)
(***************************************************************************)
EXTENDS ToolHost, Integers, SequencesExt

CONSTANTS
    Session,
    NoSession,
    session,    \* session[c]: the session c sends on; NoSession for a chat()
    Handle,     \* AdkSession values: a session and its clones
    handle,     \* handle[c]: the value c was made on; send takes it by &mut
    HasHost,    \* the calls of an agent that has a tool host
    Override,   \* Override[c]: ChatRequest.tools, {} when the host's are used
    MaxTurns,   \* MaxTurns[c]: 10, or a chat's max_tool_turns hint
    Reported,   \* the token counts a response may report: i32, and NoUsage
    NoUsage,
    MaxCount,   \* the largest token count: u64::MAX in the code
    MaxBatch    \* bound: tool calls in one model turn

ASSUME CallConstants ==
    /\ NoSession \notin Session
    /\ session \in [Call -> Session \cup {NoSession}]
    /\ handle \in [Call -> Handle]
    /\ HasHost \subseteq Call
    /\ Override \in [Call -> SUBSET ToolName]
    /\ \A c, d \in Call : session[c] # NoSession /\ session[d] # NoSession =>
          /\ Override[c] = {}
          /\ MaxTurns[c] = MaxTurns[d]
          /\ session[c] = session[d] => (c \in HasHost <=> d \in HasHost)
    /\ MaxTurns \in [Call -> Nat]
    /\ MaxCount \in Nat /\ MaxBatch \in Nat
    /\ NoUsage \notin Int
    /\ \A n \in Reported \ {NoUsage} : n \in Int /\ n <= MaxCount

VARIABLES
    phase,      \* phase[c]: where call c is
    contents,   \* contents[c]: the conversation of c's loop
    offered,    \* offered[c]: the tools resolved when c began
    turn,       \* turn[c]: completed turns of the loop
    pending,    \* pending[c]: calls of the last model turn still to invoke
    answers,    \* answers[c]: the tool turn being built
    usage,      \* usage[c]: what the loop accumulated
    history,    \* history[s]: SessionState.history
    cumulative  \* cumulative[s]: SessionState.cumulative

agent == <<phase, contents, offered, turn, pending, answers, usage,
           history, cumulative>>
vars  == <<host, agent>>

Phase == {"idle", "list", "ask", "dispatch", "commit", "done", "failed"}
Ended == {"done", "failed"}

\* Turns: a user's, the model's with its function calls, the tools' answers.
User(c)          == [role |-> "user", of |-> c, parts |-> << >>]
Model(c, calls)  == [role |-> "model", of |-> c, parts |-> calls]
Tool(c, results) == [role |-> "tool", of |-> c, parts |-> results]

Answer(n, result) == [name |-> n, result |-> result]
Answers == [name : ToolName, result : Result]

Turns ==
    [role : {"user"}, of : Call, parts : {<< >>}]
      \cup [role : {"model"}, of : Call, parts : Seq(ToolName)]
      \cup [role : {"tool"}, of : Call, parts : Seq(Answers)]

DefaultUsage == [tokens |-> 0, source |-> "native"]
Usage == [tokens : 0..MaxCount, source : {"native", "estimate", "unknown"}]

\* Every variable has a value of its type.
CallsTypeOK ==
    /\ HostTypeOK
    /\ phase \in [Call -> Phase]
    /\ contents \in [Call -> Seq(Turns)]
    /\ offered \in [Call -> SUBSET ToolName]
    /\ turn \in [Call -> Nat]
    /\ pending \in [Call -> Seq(ToolName)]
    /\ answers \in [Call -> Seq(Answers)]
    /\ usage \in [Call -> Usage]
    /\ history \in [Session -> Seq(Turns)]
    /\ cumulative \in [Session -> Usage]

\* System prompts only lead a conversation and are left out.
Init ==
    /\ HostInit
    /\ phase = [c \in Call |-> "idle"]
    /\ contents = [c \in Call |-> << >>]
    /\ offered = [c \in Call |-> {}]
    /\ turn = [c \in Call |-> 0]
    /\ pending = [c \in Call |-> << >>]
    /\ answers = [c \in Call |-> << >>]
    /\ usage = [c \in Call |-> DefaultUsage]
    /\ history = [s \in Session |-> << >>]
    /\ cumulative = [s \in Session |-> DefaultUsage]

At(c, p)   == phase[c] = p
Goto(c, p) == phase' = [phase EXCEPT ![c] = p]
IsSend(c)  == session[c] # NoSession

-----------------------------------------------------------------------------
(* Usage                                                                   *)

Saturate(n) == IF n > MaxCount THEN MaxCount ELSE n

\* Mutant: a negative count is not clamped.
UnclampedUsage(reported) ==
    IF reported = NoUsage THEN DefaultUsage
    ELSE [tokens |-> reported, source |-> "native"]

\* from_adk_usage: a negative count is 0; no metadata is the default Usage.
FromAdkUsage(reported) ==
    IF reported = NoUsage THEN DefaultUsage
    ELSE [tokens |-> IF reported < 0 THEN 0 ELSE reported,
          source |-> "native"]

\* accumulate: counts saturate, the source is that of the usage added last.
Accumulated(cum, add) ==
    [tokens |-> Saturate(cum.tokens + add.tokens), source |-> add.source]

-----------------------------------------------------------------------------
(* Starting a call                                                         *)

\* &mut self: two sends on one session value do not overlap.
HandleFree(c) == \A d \in Call \ {c} : IsSend(d) /\ handle[d] = handle[c] =>
                    phase[d] \in {"idle"} \cup Ended

\* The tools are those of the request, else those of the host at this moment.
Resolved(c) ==
    IF Override[c] # {} THEN Override[c] ELSE IF c \in HasHost THEN Listed ELSE {}

Chat(c) ==
    /\ At(c, "idle") /\ ~ IsSend(c) /\ Goto(c, "ask")
    /\ contents' = [contents EXCEPT ![c] = <<User(c)>>]
    /\ offered' = [offered EXCEPT ![c] = Resolved(c)]
    /\ UNCHANGED <<host, turn, pending, answers, usage, history, cumulative>>

\* Mutant: the loop starts from the message alone.
SendWithoutHistory(c) ==
    /\ At(c, "idle") /\ IsSend(c) /\ HandleFree(c) /\ Goto(c, "list")
    /\ history' = [history EXCEPT ![session[c]] = Append(@, User(c))]
    /\ contents' = [contents EXCEPT ![c] = <<User(c)>>]
    /\ UNCHANGED <<host, offered, turn, pending, answers, usage, cumulative>>

\* Under the session's lock: push the user turn, take a copy of the history.
Send(c) ==
    /\ At(c, "idle") /\ IsSend(c) /\ HandleFree(c) /\ Goto(c, "list")
    /\ LET s == session[c]
       IN  /\ history' = [history EXCEPT ![s] = Append(@, User(c))]
           /\ contents' = [contents EXCEPT ![c] = Append(history[s], User(c))]
    /\ UNCHANGED <<host, offered, turn, pending, answers, usage, cumulative>>

\* The session's lock is released; the host is asked for its tools.
SendLists(c) ==
    /\ At(c, "list") /\ Goto(c, "ask")
    /\ offered' = [offered EXCEPT ![c] = Resolved(c)]
    /\ UNCHANGED <<host, contents, turn, pending, answers, usage,
                   history, cumulative>>

-----------------------------------------------------------------------------
(* run_loop_inner                                                          *)

\* The for loop is out of turns.
Exhausted(c) ==
    /\ At(c, "ask") /\ turn[c] = MaxTurns[c] /\ Goto(c, "failed")
    /\ UNCHANGED <<host, contents, offered, turn, pending, answers, usage,
                   history, cumulative>>

\* The provider's answer to the conversation so far, with its usage.
Responds(c, reported) ==
    /\ At(c, "ask") /\ turn[c] < MaxTurns[c]
    /\ usage' = [usage EXCEPT ![c] = Accumulated(@, FromAdkUsage(reported))]

\* The provider fails, or its stream is empty.
ProviderError(c) ==
    /\ At(c, "ask") /\ turn[c] < MaxTurns[c] /\ Goto(c, "failed")
    /\ UNCHANGED <<host, contents, offered, turn, pending, answers, usage,
                   history, cumulative>>

\* A turn without function calls is the reply.
FinalReply(c) ==
    /\ \E reported \in Reported : Responds(c, reported)
    /\ contents' = [contents EXCEPT ![c] = Append(@, Model(c, << >>))]
    /\ Goto(c, IF IsSend(c) THEN "commit" ELSE "done")
    /\ UNCHANGED <<host, offered, turn, pending, answers, history, cumulative>>

\* A turn with function calls, of any names the model likes.
ModelCalls(c) ==
    /\ \E reported \in Reported : Responds(c, reported)
    /\ \E n \in 1..MaxBatch : \E calls \in [1..n -> ToolName] :
          /\ contents' = [contents EXCEPT ![c] = Append(@, Model(c, calls))]
          /\ pending' = [pending EXCEPT ![c] = calls]
    /\ answers' = [answers EXCEPT ![c] = << >>]
    /\ Goto(c, "dispatch")
    /\ UNCHANGED <<host, offered, turn, history, cumulative>>

\* Mutant: the last call is taken first.
BeginLastCall(c) ==
    /\ At(c, "dispatch") /\ pending[c] # << >> /\ c \in HasHost
    /\ LogInvocation(c, Last(pending[c]))
    /\ UNCHANGED agent

\* The function calls are invoked one after the other; host.invoke is awaited.
BeginCall(c) ==
    /\ At(c, "dispatch") /\ pending[c] # << >> /\ c \in HasHost
    /\ LogInvocation(c, Head(pending[c]))
    /\ UNCHANGED agent

Invoking(c) == (TakeCanned(c) \/ LookUp(c) \/ ToolReturns(c)) /\ UNCHANGED agent

\* An error is an answer like any other.
Answered(c, result) ==
    /\ answers' = [answers EXCEPT ![c] = Append(@, Answer(Head(pending[c]), result))]
    /\ pending' = [pending EXCEPT ![c] = Tail(@)]
    /\ UNCHANGED <<phase, contents, offered, turn, usage, history, cumulative>>

\* Mutant: only a tool's success is told to the model.
EndCallUnlessError(c) ==
    /\ At(c, "dispatch") /\ InInvoke(c, "answered")
    /\ IF invocation[c].result = "ok" THEN Answered(c, "ok")
       ELSE /\ pending' = [pending EXCEPT ![c] = Tail(@)]
            /\ UNCHANGED <<phase, contents, offered, turn, answers, usage,
                           history, cumulative>>
    /\ EndInvoke(c)

\* Mutant: an Unknown error is not fed back.
EndCallIfKnown(c) ==
    /\ At(c, "dispatch") /\ InInvoke(c, "answered") /\ invocation[c].result # "unknown"
    /\ Answered(c, invocation[c].result)
    /\ EndInvoke(c)

EndCall(c) ==
    /\ At(c, "dispatch") /\ InInvoke(c, "answered")
    /\ Answered(c, invocation[c].result)
    /\ EndInvoke(c)

\* Without a host every call is answered Unknown.
NoHostAnswer(c) ==
    /\ At(c, "dispatch") /\ pending[c] # << >> /\ c \notin HasHost
    /\ Answered(c, "unknown")
    /\ UNCHANGED host

ToolTurn(c) ==
    /\ At(c, "dispatch") /\ pending[c] = << >> /\ Goto(c, "ask")
    /\ contents' = [contents EXCEPT ![c] = Append(@, Tool(c, answers[c]))]
    /\ turn' = [turn EXCEPT ![c] = @ + 1]
    /\ UNCHANGED <<host, offered, pending, answers, usage, history, cumulative>>

\* Mutant: the usage of the session is that of its last send.
CommitReplacesUsage(c) ==
    /\ At(c, "commit") /\ Goto(c, "done")
    /\ history' = [history EXCEPT ![session[c]] = contents[c]]
    /\ cumulative' = [cumulative EXCEPT ![session[c]] = usage[c]]
    /\ UNCHANGED <<host, contents, offered, turn, pending, answers, usage>>

\* send, after the loop: under the lock, the loop's conversation becomes the
\* history, and its usage is added.
Commit(c) ==
    /\ At(c, "commit") /\ Goto(c, "done")
    /\ history' = [history EXCEPT ![session[c]] = contents[c]]
    /\ cumulative' = [cumulative EXCEPT ![session[c]] = Accumulated(@, usage[c])]
    /\ UNCHANGED <<host, contents, offered, turn, pending, answers, usage>>

\* The caller drops the future at an await: the provider's or a tool's.
Drop(c) ==
    /\ \/ At(c, "ask") /\ turn[c] < MaxTurns[c]
       \/ At(c, "dispatch") /\ InInvoke(c, "calling")
    /\ Goto(c, "failed")
    /\ EndInvoke(c)
    /\ UNCHANGED <<contents, offered, turn, pending, answers, usage,
                   history, cumulative>>

-----------------------------------------------------------------------------
(* What a call that began does unless it is dropped.                       *)
CallStep(c) ==
    \/ SendLists(c)
    \/ Exhausted(c) \/ ProviderError(c) \/ FinalReply(c) \/ ModelCalls(c)
    \/ BeginCall(c) \/ Invoking(c) \/ EndCall(c) \/ NoHostAnswer(c)
    \/ ToolTurn(c) \/ Commit(c)

HostStep == HostNext /\ UNCHANGED agent

Next ==
    \/ \E c \in Call : Chat(c) \/ Send(c) \/ CallStep(c) \/ Drop(c)
    \/ HostStep

Spec == Init /\ [][Next]_vars

\* A started call is polled, and the provider and the tools answer.
FairSpec == Spec /\ \A c \in Call : WF_vars(CallStep(c))

-----------------------------------------------------------------------------
(* Safety                                                                  *)

\* A model turn that calls tools is followed by a tool turn that answers those
\* calls, in order, and tools answer nothing else.
Fits(turns, i) ==
    /\ turns[i].role = "model" /\ turns[i].parts # << >> =>
          /\ i < Len(turns) /\ turns[i + 1].role = "tool"
          /\ Len(turns[i + 1].parts) = Len(turns[i].parts)
          /\ \A k \in DOMAIN turns[i].parts :
                turns[i + 1].parts[k].name = turns[i].parts[k]
    /\ turns[i].role = "tool" =>
          i > 1 /\ turns[i - 1].role = "model" /\ turns[i - 1].parts # << >>

\* Providers refuse a conversation that is not so.
WellFormed(turns) == \A i \in DOMAIN turns : Fits(turns, i)

\* Every conversation sent to a provider is well formed, and so is every
\* session's history, whatever failed, was dropped, or ran on a clone.
TranscriptsAreWellFormed ==
    /\ \A c \in Call : At(c, "ask") => WellFormed(contents[c])
    /\ \A s \in Session : WellFormed(history[s])

\* The calls of c's model turns among turns, in emission order.
CallsIn(c, turns) ==
    FlattenSeq([i \in DOMAIN turns |->
                   IF turns[i].role = "model" /\ turns[i].of = c
                   THEN turns[i].parts ELSE << >>])

\* The host is invoked once for each call the model made, in that order, and
\* for nothing else; those not invoked yet are exactly the pending ones.
EachCallIsInvokedOnce ==
    \A c \in HasHost : phase[c] # "failed" =>
        invoked[c] \o (IF InInvoke(c, "none") THEN pending[c] ELSE Tail(pending[c]))
            = CallsIn(c, contents[c])

\* The tools are listed once, before the loop, and looked up again at every
\* call while others register, mount and shut down: a tool the host offered
\* is never unknown to it when the model calls it.
OfferedToolsAreKnown ==
    \A c \in HasHost : Override[c] = {} =>
        \A i \in DOMAIN answers[c] :
            answers[c][i].name \in offered[c] => answers[c][i].result # "unknown"

\* The sum of the usages of the sends of s that returned a reply.
Replied(s)    == {c \in Call : session[c] = s /\ At(c, "done")}
TokensOf(s)   == SumFunctionOnSet([c \in Call |-> usage[c].tokens], Replied(s))

\* A session's usage is that of the sends that returned, each counted once,
\* though clones commit in any order, and it never passes the largest count.
SessionUsageCountsReplies ==
    \A s \in Session : cumulative[s].tokens = Saturate(TokensOf(s))

\* What was said on s through h.
TurnsOf(h, turns) ==
    FlattenSeq([i \in DOMAIN turns |->
                   IF handle[turns[i].of] = h THEN <<turns[i]>> ELSE << >>])

\* s was sent on through two values at most.
AtMostOneClone(s) ==
    LET used == {handle[c] : c \in {d \in Call : session[d] = s /\ ~ At(d, "idle")}}
    IN  \A f, g, h \in used : f = g \/ g = h \/ f = h

\* send replaces the history wholesale by the copy it took before its awaits.
\* Two sends of one session value do not overlap, so what was said through that
\* value survives its own later sends, also when one fails or is dropped between
\* the copy and the commit; only a send of the clone can take turns away.  With a
\* second clone it is not so: what one clone takes away the other may bring back
\* after a send began, and that send then takes it away again.
OwnTurnsOnlyGrow ==
    [][\A c \in Call :
          IsSend(c) /\ phase'[c] # phase[c] /\ AtMostOneClone(session[c])' =>
             IsPrefix(TurnsOf(handle[c], history[session[c]]),
                      TurnsOf(handle[c], history'[session[c]]))]_vars

\* agent.rs: clones share the history, which grows with each send: a send that
\* returned is in it.
RepliedSendsStayInHistory ==
    \A c \in Call : At(c, "done") /\ IsSend(c) =>
        \E i \in DOMAIN history[session[c]] : history[session[c]][i] = User(c)

-----------------------------------------------------------------------------
(* Liveness, under FairSpec                                                *)

\* A call ends: with a reply, an error, or out of turns.  No sequence of tool
\* calls and tool errors keeps it going.
EveryCallEnds == \A c \in Call : phase[c] # "idle" ~> phase[c] \in Ended
=============================================================================
