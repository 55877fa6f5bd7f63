-------------------------------- MODULE Mocks --------------------------------
(***************************************************************************)
(* The mocks of ph0b0s-test-support that the tests run detectors against:    *)
(* MockLlmAgent, MockLlmSession and MockToolHost.  All work alike: a call is *)
(* recorded under one mutex, then takes the first canned answer under        *)
(* another, so calls of concurrent tasks get between the two.  Without an    *)
(* answer a model's call fails, and a tool's call goes to a registered tool. *)
(* Clones share this state, so that it is one state for all callers.         *)
(***************************************************************************)
EXTENDS Naturals, SequencesExt, FiniteSetsExt

CONSTANTS
    Caller,     \* the tasks that call the mocks
    Method,     \* the agent's methods with a queue: "chat" and "structured"
    ToolName,
    Mount,      \* the servers given to mount_mcp
    Initial,    \* what with_initial_usage set
    Tokens,     \* the usage of an answer
    MaxCount,   \* u64::MAX
    MaxSeeded,  \* bound: answers enqueued in one behaviour
    MaxCalls    \* bound: calls of one caller

ASSUME MocksAssumption ==
    /\ Method \subseteq {"chat", "structured"}
    /\ {"chat", "structured", "template", "fresh"} \cap ToolName = {}
    /\ IsFiniteSet(ToolName)
    /\ Tokens \in Nat /\ MaxCount \in Nat /\ Initial \in 0..MaxCount
    /\ MaxSeeded \in Nat /\ MaxCalls \in Nat

VARIABLES
    responses,  \* responses[q]: the canned answers that are left
    seeded,     \* how many were enqueued in q, for their ids and MaxSeeded
    recorded,   \* recorded[c]: what c's calls put into the recorded_ vectors
    template,   \* session_template is set
    session,    \* session[c]: the session that c has
    usage,      \* the template's cumulative usage
    native,     \* native_tools
    mounted,    \* mounted_mcp
    call,       \* call[c]: the call that c is in
    returned    \* returned[c]: what c's calls returned

llm   == <<template, session, usage>>
tools == <<native, mounted>>
vars  == <<responses, seeded, recorded, llm, tools, call, returned>>

\* Nobody can enqueue into a session that session() made without a template.
Seedable == Method \cup {"template"} \cup ToolName
Queue    == Seedable \cup {"fresh"}

\* 0 is no canned answer: an exhausted queue, an unknown tool, or a tool's own.
None == [id |-> 0, ok |-> FALSE]
Idle == [step |-> "idle", queue |-> "fresh", answer |-> None]

Init ==
    /\ responses = [q \in Queue |-> << >>] /\ seeded = [q \in Queue |-> 0]
    /\ recorded = [c \in Caller |-> << >>]
    /\ template = FALSE /\ session = [c \in Caller |-> "none"]
    /\ usage = Initial
    /\ native = {} /\ mounted = {}
    /\ call = [c \in Caller |-> Idle] /\ returned = [c \in Caller |-> << >>]

-----------------------------------------------------------------------------
(* Setting up                                                              *)

\* The six enqueue_ methods.
Enqueue(q, ok) ==
    /\ SumFunctionOnSet(seeded, Queue) < MaxSeeded
    /\ seeded' = [seeded EXCEPT ![q] = @ + 1]
    /\ responses' = [responses EXCEPT ![q] = Append(@, [id |-> seeded[q] + 1, ok |-> ok])]
    /\ UNCHANGED <<recorded, llm, tools, call, returned>>

\* Once; another template would be another session.
SetSessionTemplate ==
    /\ ~ template /\ template' = TRUE
    /\ UNCHANGED <<responses, seeded, recorded, session, usage, tools, call, returned>>

RegisterNative(n) ==
    /\ native' = native \cup {n}
    /\ UNCHANGED <<responses, seeded, recorded, llm, mounted, call, returned>>

\* Whatever its transport, a server is only recorded.
MountMcp(m) ==
    /\ mounted' = mounted \cup {m}
    /\ UNCHANGED <<responses, seeded, recorded, llm, native, call, returned>>

-----------------------------------------------------------------------------
(* A call                                                                  *)

Becomes(c, step, answer) ==
    call' = [call EXCEPT ![c] = [@ EXCEPT !.step = step, !.answer = answer]]

At(c, step) == call[c].step = step

Delivered(c, answer) ==
    /\ returned' = [returned EXCEPT
          ![c] = Append(@, [queue |-> call[c].queue, answer |-> answer])]
    /\ call' = [call EXCEPT ![c] = Idle]

\* A model's call returns in the section that has the answer.
Ends(c, answer) ==
    IF call[c].queue \in ToolName
    THEN Becomes(c, "done", answer) /\ UNCHANGED returned
    ELSE Delivered(c, answer)

\* A session's call has its usage to add first.
Answers(c, answer) ==
    IF call[c].queue = "template" /\ answer.ok
    THEN Becomes(c, "usage", answer) /\ UNCHANGED returned
    ELSE Ends(c, answer)

\* No canned answer: the model's call fails, the tool's looks the tool up.
Exhausted(c) ==
    IF call[c].queue \in ToolName
    THEN Becomes(c, "lookup", None) /\ UNCHANGED returned
    ELSE Ends(c, None)

\* session(), its first section: the options are recorded.
OpenSession(c) ==
    /\ At(c, "idle") /\ session[c] = "none"
    /\ Becomes(c, "opening", None)
    /\ UNCHANGED <<responses, seeded, recorded, llm, tools, returned>>

\* The template's clone shares its state with it; without one a session is new.
CloneTemplate(c) ==
    /\ At(c, "opening")
    /\ session' = [session EXCEPT ![c] = IF template THEN "template" ELSE "fresh"]
    /\ Becomes(c, "idle", None)
    /\ UNCHANGED <<responses, seeded, recorded, template, usage, tools, returned>>

\* chat, structured, send and invoke begin alike; q says which.
Record(c, q) ==
    /\ At(c, "idle") /\ Len(returned[c]) < MaxCalls
    /\ q \in {"template", "fresh"} => session[c] = q
    /\ recorded' = [recorded EXCEPT ![c] = Append(@, q)]
    /\ call' = [call EXCEPT ![c] = [step |-> "recorded", queue |-> q, answer |-> None]]
    /\ UNCHANGED <<responses, seeded, llm, tools, returned>>

\* Mutant: the last answer is taken first.
PopBack(c) ==
    /\ At(c, "recorded")
    /\ LET q == call[c].queue
       IN  \/ /\ responses[q] # << >>
              /\ Answers(c, Last(responses[q]))
              /\ responses' = [responses EXCEPT ![q] = Front(@)]
           \/ responses[q] = << >> /\ Exhausted(c) /\ UNCHANGED responses
    /\ UNCHANGED <<seeded, recorded, llm, tools>>

\* Mutant: a registered tool goes before a canned answer.
NativeFirst(c) ==
    /\ At(c, "recorded")
    /\ LET q == call[c].queue
       IN  \/ /\ responses[q] # << >> /\ q \notin native
              /\ Answers(c, Head(responses[q]))
              /\ responses' = [responses EXCEPT ![q] = Tail(@)]
           \/ /\ responses[q] = << >> \/ q \in native
              /\ Exhausted(c) /\ UNCHANGED responses
    /\ UNCHANGED <<seeded, recorded, llm, tools>>

PopFront(c) ==
    /\ At(c, "recorded")
    /\ LET q == call[c].queue
       IN  \/ /\ responses[q] # << >>
              /\ Answers(c, Head(responses[q]))
              /\ responses' = [responses EXCEPT ![q] = Tail(@)]
           \/ responses[q] = << >> /\ Exhausted(c) /\ UNCHANGED responses
    /\ UNCHANGED <<seeded, recorded, llm, tools>>

\* invoke without a canned answer: a registered tool, or ToolError::Unknown.
LookUp(c) ==
    /\ At(c, "lookup")
    /\ Becomes(c, IF call[c].queue \in native THEN "calling" ELSE "done", None)
    /\ UNCHANGED <<responses, seeded, recorded, llm, tools, returned>>

\* CannedTool::call never fails.
CannedToolCall(c) ==
    /\ At(c, "calling")
    /\ Becomes(c, "done", [None EXCEPT !.ok = TRUE])
    /\ UNCHANGED <<responses, seeded, recorded, llm, tools, returned>>

Least(a, b) == IF a < b THEN a ELSE b

\* Mutant: the sum is not saturated.
AddWithoutBound(c) ==
    /\ At(c, "usage")
    /\ usage' = usage + Tokens
    /\ Ends(c, call[c].answer)
    /\ UNCHANGED <<responses, seeded, recorded, template, session, tools>>

\* Mutant: the usage is that of the last answer.
ReplaceUsage(c) ==
    /\ At(c, "usage")
    /\ usage' = Tokens
    /\ Ends(c, call[c].answer)
    /\ UNCHANGED <<responses, seeded, recorded, template, session, tools>>

\* send's third section, for an answer that is Ok.
AddUsage(c) ==
    /\ At(c, "usage")
    /\ usage' = Least(usage + Tokens, MaxCount)
    /\ Ends(c, call[c].answer)
    /\ UNCHANGED <<responses, seeded, recorded, template, session, tools>>

\* invoke returns.
Return(c) ==
    /\ At(c, "done") /\ Delivered(c, call[c].answer)
    /\ UNCHANGED <<responses, seeded, recorded, llm, tools>>

Next ==
    \/ \E q \in Seedable, ok \in BOOLEAN : Enqueue(q, ok)
    \/ SetSessionTemplate
    \/ \E n \in ToolName : RegisterNative(n)
    \/ \E m \in Mount : MountMcp(m)
    \/ \E c \in Caller :
          \/ OpenSession(c) \/ CloneTemplate(c)
          \/ \E q \in Queue : Record(c, q)
          \/ PopFront(c) \/ LookUp(c) \/ CannedToolCall(c) \/ AddUsage(c) \/ Return(c)

Spec == Init /\ [][Next]_vars

-----------------------------------------------------------------------------
(* Properties                                                              *)

Answer == [id : 0..MaxSeeded, ok : BOOLEAN]
Busy(c) == ~ At(c, "idle") /\ ~ At(c, "opening")

\* The types of the variables; a session's usage is a u64.
MocksTypeOK ==
    /\ responses \in [Queue -> Seq(Answer)] /\ seeded \in [Queue -> 0..MaxSeeded]
    /\ recorded \in [Caller -> Seq(Queue)]
    /\ template \in BOOLEAN /\ session \in [Caller -> {"none", "template", "fresh"}]
    /\ usage \in 0..MaxCount
    /\ native \subseteq ToolName /\ mounted \subseteq Mount
    /\ call \in [Caller -> [step : {"idle", "opening", "recorded", "lookup", "calling",
                                    "usage", "done"},
                            queue : Queue, answer : Answer]]
    /\ returned \in [Caller -> Seq([queue : Queue, answer : Answer])]

\* The i-th call that c made: one that returned, or the one that it is in.
TheCall(c, i) ==
    IF i \in DOMAIN returned[c] THEN returned[c][i]
    ELSE [queue |-> call[c].queue, answer |-> call[c].answer]

\* pop_front and the recorded_ vectors: each recorded call has returned once or
\* is running, in the order of its caller; each canned answer went to one call of
\* its queue or still waits, and those that wait were enqueued after those that
\* went.  Which of two concurrent calls gets the first answer is not promised.
AnswersMatchCalls ==
    /\ \A c \in Caller :
          /\ Len(recorded[c]) = Len(returned[c]) + IF Busy(c) THEN 1 ELSE 0
          /\ \A i \in DOMAIN recorded[c] : recorded[c][i] = TheCall(c, i).queue
    /\ \A q \in Queue :
          LET waiting == {responses[q][i].id : i \in DOMAIN responses[q]}
              calls(c) == {i \in DOMAIN recorded[c] : recorded[c][i] = q}
              taken == UNION {{TheCall(c, i).answer.id : i \in calls(c)} : c \in Caller}
          IN  /\ (taken \ {0}) \cup waiting = 1..seeded[q]
              /\ \A i \in taken, j \in waiting : i < j
              /\ \A c, d \in Caller : \A i \in calls(c), j \in calls(d) :
                    TheCall(c, i).answer.id = TheCall(d, j).answer.id =>
                        TheCall(c, i).answer.id = 0 \/ (c = d /\ i = j)

\* send: the usage of a session, and of all its clones, is what it started with
\* and one answer's usage for every answer that came back without an error.
MockUsageIsExact ==
    LET counted(c) == {i \in DOMAIN returned[c] :
                          returned[c][i].queue = "template" /\ returned[c][i].answer.ok}
        all == UNION {{c} \X counted(c) : c \in Caller}
    IN  usage = Least(Initial + Tokens * Cardinality(all), MaxCount)

\* The mock as a real host that never connects to a server: what is seen of the
\* one may be seen of the other.
InvocationOf(c) ==
    IF call[c].queue \notin ToolName \/ ~ Busy(c)
    THEN [step |-> "none", name |-> "", result |-> "unknown"]
    ELSE [step |-> CASE At(c, "recorded") -> "logged"
                     [] At(c, "done") -> "answered"
                     [] OTHER -> call[c].step,
          name |-> call[c].queue,
          result |-> CASE call[c].answer = None -> "unknown"
                       [] call[c].answer.ok -> "ok"
                       [] OTHER -> "error"]

\* What the host's callers saw recorded of c.
Invoked(c) ==
    FlattenSeq([i \in DOMAIN recorded[c] |->
        IF recorded[c][i] \in ToolName THEN <<recorded[c][i]>> ELSE << >>])

Real == INSTANCE ToolHost WITH
    Call      <- Caller,
    transport <- [m \in Mount |-> "sse"],
    serves    <- [m \in Mount |-> {}],
    MaxCanned <- MaxSeeded,
    native    <- [n \in ToolName |-> IF n \in native THEN "local" ELSE "absent"],
    canned    <- [n \in ToolName |-> [i \in DOMAIN responses[n] |->
                     IF responses[n][i].ok THEN "ok" ELSE "error"]],
    seeded    <- SumFunctionOnSet(seeded, ToolName),
    mountStep <- [m \in Mount |-> IF m \in mounted THEN "done" ELSE "idle"],
    handles   <- {},
    cancelled <- {},
    invoked   <- [c \in Caller |-> Invoked(c)],
    invocation <- [c \in Caller |-> InvocationOf(c)]

\* MockToolHost implements AdkToolHost: a test cannot see anything through the
\* mock that the real host, without MCP connections, does not do.
MockImplementsHost == Real!HostSpec
=============================================================================
