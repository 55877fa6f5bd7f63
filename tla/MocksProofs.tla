---------------------------- MODULE MocksProofs -----------------------------
(***************************************************************************)
(* What the mocks promise, for any tasks, tool names, servers and answers:   *)
(* the types, which call gets which answer, the session's usage, and that    *)
(* MockToolHost implements the real tool host.                               *)
(***************************************************************************)
EXTENDS Mocks, DataLemmas, TLAPS

-----------------------------------------------------------------------------
(* Types                                                                   *)

Steps == {"idle", "opening", "recorded", "lookup", "calling", "usage", "done"}
CallState == [step : Steps, queue : Queue, answer : Answer]
Reply == [queue : Queue, answer : Answer]

TypeInv ==
    /\ responses \in [Queue -> Seq(Answer)] /\ seeded \in [Queue -> 0..MaxSeeded]
    /\ recorded \in [Caller -> Seq(Queue)]
    /\ template \in BOOLEAN /\ session \in [Caller -> {"none", "template", "fresh"}]
    /\ usage \in 0..MaxCount
    /\ native \in SUBSET ToolName /\ mounted \in SUBSET Mount
    /\ call \in [Caller -> CallState]
    /\ returned \in [Caller -> Seq(Reply)]
    /\ \A c \in Caller :
          /\ call[c].step \in {"lookup", "calling", "done"} => call[c].queue \in ToolName
          /\ call[c].step = "usage" => call[c].queue = "template" /\ call[c].answer.ok
          /\ call[c].step \in {"recorded", "lookup", "calling"} => call[c].answer = None

\* The queues are finitely many, and a tool's queue is none of the others.
LEMMA QueueFacts ==
    /\ IsFiniteSet(Queue) /\ IsFiniteSet(ToolName)
    /\ "fresh" \in Queue /\ "template" \in Queue /\ Seedable \subseteq Queue
    /\ ToolName \subseteq Queue
    /\ "template" \notin ToolName /\ "fresh" \notin ToolName
<1>1. IsFiniteSet({"chat", "structured"}) /\ Method \subseteq {"chat", "structured"}
  <2>1. IsFiniteSet({}) /\ IsFiniteSet({"chat"})
    BY FS_EmptySet, FS_Singleton
  <2>2. IsFiniteSet({"chat"} \cup {"structured"})
    BY <2>1, FS_AddElement
  <2>3. {"chat"} \cup {"structured"} = {"chat", "structured"}
    OBVIOUS
  <2>. QED
    BY <2>2, <2>3, MocksAssumption
<1>2. IsFiniteSet(Method)
  BY <1>1, FS_Subset
<1>3. IsFiniteSet({"template"}) /\ IsFiniteSet({"fresh"})
  BY FS_Singleton
<1>4. IsFiniteSet(Method \cup {"template"})
  BY <1>2, <1>3, FS_Union
<1>5. IsFiniteSet((Method \cup {"template"}) \cup ToolName)
  BY <1>4, FS_Union, MocksAssumption
<1>6. IsFiniteSet(Queue)
  BY <1>3, <1>5, FS_Union DEF Queue, Seedable
<1>. QED
  BY <1>6, MocksAssumption DEF Queue, Seedable

\* No answer and no call are values of their types.
LEMMA NoneTyped ==
    /\ None \in Answer /\ None.id = 0 /\ ~ None.ok
    /\ Idle \in CallState /\ Idle.step = "idle" /\ Idle.queue = "fresh" /\ Idle.answer = None
<1>1. None \in Answer /\ None.id = 0 /\ ~ None.ok
  BY MocksAssumption DEF None, Answer
<1>. HIDE DEF None
<1>. QED
  BY <1>1, QueueFacts DEF Idle, CallState, Steps

\* One queue has at most as many answers as all have.
LEMMA SeededBelowSum ==
    ASSUME seeded \in [Queue -> Nat]
    PROVE  /\ SumFunctionOnSet(seeded, Queue) \in Nat
           /\ \A q \in Queue : seeded[q] <= SumFunctionOnSet(seeded, Queue)
<1>1. SumFunctionOnSet(seeded, Queue) \in Nat
  BY QueueFacts, SumRemove
<1>2. ASSUME NEW q \in Queue PROVE seeded[q] <= SumFunctionOnSet(seeded, Queue)
  <2>1. SumFunctionOnSet(seeded, Queue) = seeded[q] + SumFunctionOnSet(seeded, Queue \ {q})
    BY QueueFacts, SumRemove
  <2>2. IsFiniteSet(Queue \ {q}) /\ Queue \ {q} \in SUBSET Queue
    BY QueueFacts, FS_Subset
  <2>3. SumFunctionOnSet(seeded, Queue \ {q}) \in Nat
    BY <2>2, SumRemove
  <2>. QED
    BY <1>1, <2>1, <2>3
<1>. QED
  BY <1>1, <1>2

\* A tool's share in what was enqueued for all tools.
LEMMA ToolSum ==
    ASSUME NEW f \in [Queue -> Nat], NEW q \in ToolName
    PROVE  SumFunctionOnSet(f, ToolName) = f[q] + SumFunctionOnSet(f, ToolName \ {q})
<1>1. ToolName \in SUBSET Queue /\ IsFiniteSet(ToolName)
  BY QueueFacts
<1>. QED
  BY <1>1, SumRemove

\* The tools' answers are some of all.
LEMMA SeededParts ==
    ASSUME seeded \in [Queue -> Nat]
    PROVE  SumFunctionOnSet(seeded, ToolName) <= SumFunctionOnSet(seeded, Queue)
BY QueueFacts, SumOfPart

\* The effect of a step within a call.
Moves(c, step, answer) ==
    /\ call' \in [Caller -> CallState]
    /\ call'[c].step = step /\ call'[c].queue = call[c].queue /\ call'[c].answer = answer
    /\ \A d \in Caller : d # c => call'[d] = call[d]

\* Becomes, field by field: c is at another section, with an answer.
LEMMA BecomesMoves ==
    ASSUME TypeInv, NEW c \in Caller, NEW step \in Steps, NEW answer \in Answer,
           Becomes(c, step, answer)
    PROVE  Moves(c, step, answer)
<1>. DEFINE new == [call[c] EXCEPT !.step = step, !.answer = answer]
<1>1. call \in [Caller -> CallState] /\ call[c] \in CallState
  BY DEF TypeInv
<1>2. new \in CallState /\ new.step = step /\ new.queue = call[c].queue /\ new.answer = answer
  BY <1>1 DEF CallState
<1>3. call' = [call EXCEPT ![c] = new]
  BY DEF Becomes
<1>. HIDE DEF new
<1>. QED
  BY <1>1, <1>2, <1>3 DEF Moves

\* The effect of a call's return.
Gives(c, answer) ==
    /\ call' \in [Caller -> CallState] /\ call'[c] = Idle
    /\ returned' \in [Caller -> Seq(Reply)]
    /\ Len(returned'[c]) = Len(returned[c]) + 1
    /\ \A i \in 1..Len(returned[c]) : returned'[c][i] = returned[c][i]
    /\ returned'[c][Len(returned[c]) + 1] = [queue |-> call[c].queue, answer |-> answer]
    /\ \A d \in Caller : d # c => call'[d] = call[d] /\ returned'[d] = returned[d]

\* Delivered, field by field: c's call is over and its answer returned.
LEMMA DeliveredGives ==
    ASSUME TypeInv, NEW c \in Caller, NEW answer \in Answer, Delivered(c, answer)
    PROVE  Gives(c, answer)
<1>. DEFINE r == [queue |-> call[c].queue, answer |-> answer]
<1>1. /\ call \in [Caller -> CallState] /\ call[c] \in CallState
      /\ returned \in [Caller -> Seq(Reply)] /\ returned[c] \in Seq(Reply)
  BY DEF TypeInv
<1>2. r \in Reply
  BY <1>1 DEF CallState, Reply
<1>3. /\ call' = [call EXCEPT ![c] = Idle]
      /\ returned' = [returned EXCEPT ![c] = Append(returned[c], r)]
  BY DEF Delivered
<1>. HIDE DEF r
<1>4. /\ Append(returned[c], r) \in Seq(Reply)
      /\ Len(Append(returned[c], r)) = Len(returned[c]) + 1
      /\ \A i \in 1..Len(returned[c]) : Append(returned[c], r)[i] = returned[c][i]
      /\ Append(returned[c], r)[Len(returned[c]) + 1] = r
  BY <1>1, <1>2, AppendProperties
<1>5. returned' \in [Caller -> Seq(Reply)] /\ returned'[c] = Append(returned[c], r)
      /\ \A d \in Caller : d # c => returned'[d] = returned[d]
  BY <1>1, <1>3, <1>4
<1>6. call' \in [Caller -> CallState] /\ call'[c] = Idle
      /\ \A d \in Caller : d # c => call'[d] = call[d]
  BY <1>1, <1>3, NoneTyped
<1>. QED
  BY <1>4, <1>5, <1>6 DEF Gives, r

\* What a call does in the section that has its answer.
LEMMA EndsCases ==
    ASSUME TypeInv, NEW c \in Caller, NEW answer \in Answer, Ends(c, answer)
    PROVE  \/ call[c].queue \in ToolName /\ Moves(c, "done", answer) /\ returned' = returned
           \/ call[c].queue \notin ToolName /\ Gives(c, answer)
BY BecomesMoves, DeliveredGives DEF Ends, Steps

\* What the first section of a call does, with an answer or without.
LEMMA PopCases ==
    ASSUME TypeInv, NEW c \in Caller, PopFront(c)
    PROVE  LET q == call[c].queue
               canned == Head(responses[q])
           IN  \/ /\ responses[q] # << >> /\ canned \in Answer
                  /\ responses' = [responses EXCEPT ![q] = Tail(responses[q])]
                  /\ \/ /\ q = "template" /\ canned.ok
                        /\ Moves(c, "usage", canned) /\ returned' = returned
                     \/ q \in ToolName /\ Moves(c, "done", canned) /\ returned' = returned
                     \/ /\ q \notin ToolName /\ ~ (q = "template" /\ canned.ok)
                        /\ Gives(c, canned)
               \/ /\ responses[q] = << >> /\ responses' = responses
                  /\ \/ q \in ToolName /\ Moves(c, "lookup", None) /\ returned' = returned
                     \/ q \notin ToolName /\ Gives(c, None)
<1>. DEFINE q == call[c].queue
            canned == Head(responses[q])
<1>1. q \in Queue /\ responses[q] \in Seq(Answer)
  BY DEF TypeInv, CallState
<1>2. CASE /\ responses[q] # << >> /\ Answers(c, canned)
           /\ responses' = [responses EXCEPT ![q] = Tail(@)]
  <2>1. canned \in Answer
    BY <1>1, <1>2, HeadTailProperties
  <2>. HIDE DEF canned
  <2>2. CASE q = "template" /\ canned.ok
    <3>1. Becomes(c, "usage", canned) /\ returned' = returned
      BY <1>2, <2>2 DEF Answers
    <3>2. Moves(c, "usage", canned)
      BY <2>1, <3>1, BecomesMoves DEF Steps
    <3>. QED
      BY <1>2, <2>1, <2>2, <3>1, <3>2 DEF canned
  <2>3. CASE ~ (q = "template" /\ canned.ok)
    <3>1. Ends(c, canned)
      BY <1>2, <2>3 DEF Answers
    <3>2. \/ q \in ToolName /\ Moves(c, "done", canned) /\ returned' = returned
          \/ q \notin ToolName /\ Gives(c, canned)
      BY <2>1, <3>1, EndsCases
    <3>. QED
      BY <1>2, <2>1, <2>3, <3>2 DEF canned
  <2>. QED
    BY <2>2, <2>3
<1>3. CASE responses[q] = << >> /\ Exhausted(c) /\ responses' = responses
  <2>1. CASE q \in ToolName
    <3>1. Becomes(c, "lookup", None) /\ returned' = returned
      BY <1>3, <2>1 DEF Exhausted
    <3>2. Moves(c, "lookup", None)
      BY <3>1, BecomesMoves, NoneTyped DEF Steps
    <3>. QED
      BY <1>3, <2>1, <3>1, <3>2
  <2>2. CASE q \notin ToolName
    <3>1. Ends(c, None)
      BY <1>3, <2>2 DEF Exhausted
    <3>2. Gives(c, None)
      BY <2>2, <3>1, EndsCases, NoneTyped
    <3>. QED
      BY <1>3, <2>2, <3>2
  <2>. QED
    BY <2>1, <2>2
<1>. QED
  BY <1>2, <1>3 DEF PopFront

\* The types of a call that moves or returns.
LEMMA MovesTyped ==
    ASSUME TypeInv, NEW c \in Caller, NEW step \in Steps, NEW answer \in Answer,
           Moves(c, step, answer), returned' = returned,
           step \in {"lookup", "calling", "done"} => call[c].queue \in ToolName,
           step = "usage" => call[c].queue = "template" /\ answer.ok,
           step \in {"recorded", "lookup", "calling"} => answer = None,
           responses' \in [Queue -> Seq(Answer)], usage' \in 0..MaxCount,
           session' \in [Caller -> {"none", "template", "fresh"}],
           UNCHANGED <<seeded, recorded, template, tools>>
    PROVE  TypeInv'
<1>1. call' \in [Caller -> CallState] /\ returned' \in [Caller -> Seq(Reply)]
  BY DEF Moves, TypeInv
<1>2. ASSUME NEW d \in Caller
      PROVE  /\ call'[d].step \in {"lookup", "calling", "done"} => call'[d].queue \in ToolName
             /\ call'[d].step = "usage" => call'[d].queue = "template" /\ call'[d].answer.ok
             /\ call'[d].step \in {"recorded", "lookup", "calling"} => call'[d].answer = None
  <2>1. CASE d = c
    BY <2>1 DEF Moves
  <2>2. CASE d # c
    BY <2>2 DEF Moves, TypeInv
  <2>. QED
    BY <2>1, <2>2
<1>. QED
  BY <1>1, <1>2 DEF TypeInv, tools

\* A call that returns leaves the mocks typed if its answer and the usage are.
LEMMA GivesTyped ==
    ASSUME TypeInv, NEW c \in Caller, NEW answer \in Answer, Gives(c, answer),
           responses' \in [Queue -> Seq(Answer)], usage' \in 0..MaxCount,
           UNCHANGED <<seeded, recorded, template, session, tools>>
    PROVE  TypeInv'
<1>1. call' \in [Caller -> CallState] /\ returned' \in [Caller -> Seq(Reply)]
  BY DEF Gives
<1>2. ASSUME NEW d \in Caller
      PROVE  /\ call'[d].step \in {"lookup", "calling", "done"} => call'[d].queue \in ToolName
             /\ call'[d].step = "usage" => call'[d].queue = "template" /\ call'[d].answer.ok
             /\ call'[d].step \in {"recorded", "lookup", "calling"} => call'[d].answer = None
  <2>1. CASE d = c
    BY <2>1, NoneTyped DEF Gives
  <2>2. CASE d # c
    BY <2>2 DEF Gives, TypeInv
  <2>. QED
    BY <2>1, <2>2
<1>. QED
  BY <1>1, <1>2 DEF TypeInv, tools

\* A step that is not part of a call.
LEMMA OutsideTyped ==
    ASSUME TypeInv, UNCHANGED <<recorded, session, usage, call, returned>>,
           responses' \in [Queue -> Seq(Answer)], seeded' \in [Queue -> 0..MaxSeeded],
           template' \in BOOLEAN, native' \in SUBSET ToolName, mounted' \in SUBSET Mount
    PROVE  TypeInv'
BY DEF TypeInv

\* mock_llm.rs, mock_tools.rs, the enqueue_ methods: answers are numbered from 1.
LEMMA TypeByEnqueue ==
    ASSUME TypeInv, NEW q \in Seedable, NEW ok \in BOOLEAN, Enqueue(q, ok)
    PROVE  TypeInv'
<1>. DEFINE a == [id |-> seeded[q] + 1, ok |-> ok]
<1>1. q \in Queue /\ seeded \in [Queue -> 0..MaxSeeded] /\ MaxSeeded \in Nat
  BY QueueFacts, MocksAssumption DEF TypeInv
<1>2. seeded[q] + 1 \in 0..MaxSeeded
  BY <1>1, SeededBelowSum DEF Enqueue
<1>3. a \in Answer
  BY <1>2 DEF Answer
<1>4. responses \in [Queue -> Seq(Answer)] /\ responses[q] \in Seq(Answer)
  BY <1>1 DEF TypeInv
<1>5. responses' = [responses EXCEPT ![q] = Append(responses[q], a)]
      /\ seeded' = [seeded EXCEPT ![q] = seeded[q] + 1]
  BY DEF Enqueue
<1>. HIDE DEF a
<1>6. Append(responses[q], a) \in Seq(Answer)
  BY <1>3, <1>4, AppendProperties
<1>7. responses' \in [Queue -> Seq(Answer)] /\ seeded' \in [Queue -> 0..MaxSeeded]
  BY <1>1, <1>2, <1>4, <1>5, <1>6
<1>. QED
  BY <1>7, OutsideTyped DEF Enqueue, llm, tools, TypeInv

\* pop_front: a call has the first answer of its queue, or none.
LEMMA TypeByPop ==
    ASSUME TypeInv, NEW c \in Caller, PopFront(c)
    PROVE  TypeInv'
<1>. DEFINE q == call[c].queue
            canned == Head(responses[q])
<1>1. q \in Queue /\ responses \in [Queue -> Seq(Answer)] /\ responses[q] \in Seq(Answer)
      /\ usage' \in 0..MaxCount /\ session' \in [Caller -> {"none", "template", "fresh"}]
      /\ UNCHANGED <<seeded, recorded, template, session, tools>>
  BY DEF TypeInv, CallState, PopFront, llm
<1>2. CASE /\ responses[q] # << >> /\ canned \in Answer
           /\ responses' = [responses EXCEPT ![q] = Tail(responses[q])]
           /\ \/ /\ q = "template" /\ canned.ok
                 /\ Moves(c, "usage", canned) /\ returned' = returned
              \/ q \in ToolName /\ Moves(c, "done", canned) /\ returned' = returned
              \/ /\ q \notin ToolName /\ ~ (q = "template" /\ canned.ok)
                 /\ Gives(c, canned)
  <2>1. Tail(responses[q]) \in Seq(Answer)
    BY <1>1, <1>2, HeadTailProperties
  <2>2. responses' \in [Queue -> Seq(Answer)]
    BY <1>1, <1>2, <2>1
  <2>. HIDE DEF canned
  <2>. QED
    BY <1>1, <1>2, <2>2, MovesTyped, GivesTyped DEF Steps
<1>3. CASE /\ responses[q] = << >> /\ responses' = responses
           /\ \/ q \in ToolName /\ Moves(c, "lookup", None) /\ returned' = returned
              \/ q \notin ToolName /\ Gives(c, None)
  BY <1>1, <1>3, NoneTyped, MovesTyped, GivesTyped DEF Steps
<1>. QED
  BY <1>2, <1>3, PopCases

\* The effect of a call's first section.
Begins(c, q) ==
    /\ call' \in [Caller -> CallState] /\ recorded' \in [Caller -> Seq(Queue)]
    /\ call'[c].step = "recorded" /\ call'[c].queue = q /\ call'[c].answer = None
    /\ Len(recorded'[c]) = Len(recorded[c]) + 1
    /\ \A i \in 1..Len(recorded[c]) : recorded'[c][i] = recorded[c][i]
    /\ recorded'[c][Len(recorded[c]) + 1] = q
    /\ recorded'[c] = Append(recorded[c], q)
    /\ \A d \in Caller : d # c => call'[d] = call[d] /\ recorded'[d] = recorded[d]

\* Record, field by field: c is in a call of q, which is recorded last.
LEMMA RecordBegins ==
    ASSUME TypeInv, NEW c \in Caller, NEW q \in Queue, Record(c, q)
    PROVE  Begins(c, q)
<1>. DEFINE new == [step |-> "recorded", queue |-> q, answer |-> None]
<1>1. /\ call \in [Caller -> CallState] /\ recorded \in [Caller -> Seq(Queue)]
      /\ recorded[c] \in Seq(Queue)
  BY DEF TypeInv
<1>2. new \in CallState /\ new.step = "recorded" /\ new.queue = q /\ new.answer = None
  BY NoneTyped DEF CallState, Steps
<1>3. call' = [call EXCEPT ![c] = new]
      /\ recorded' = [recorded EXCEPT ![c] = Append(recorded[c], q)]
  BY DEF Record
<1>. HIDE DEF new
<1>4. /\ Append(recorded[c], q) \in Seq(Queue)
      /\ Len(Append(recorded[c], q)) = Len(recorded[c]) + 1
      /\ \A i \in 1..Len(recorded[c]) : Append(recorded[c], q)[i] = recorded[c][i]
      /\ Append(recorded[c], q)[Len(recorded[c]) + 1] = q
  BY <1>1, AppendProperties
<1>5. recorded' \in [Caller -> Seq(Queue)] /\ recorded'[c] = Append(recorded[c], q)
      /\ \A d \in Caller : d # c => recorded'[d] = recorded[d]
  BY <1>1, <1>3, <1>4
<1>6. call' \in [Caller -> CallState] /\ call'[c] = new
      /\ \A d \in Caller : d # c => call'[d] = call[d]
  BY <1>1, <1>2, <1>3
<1>. QED
  BY <1>2, <1>4, <1>5, <1>6 DEF Begins

\* A call that begins is typed: a tool's call has a tool's queue.
LEMMA TypeByRecord ==
    ASSUME TypeInv, NEW c \in Caller, NEW q \in Queue, Record(c, q)
    PROVE  TypeInv'
<1>1. Begins(c, q)
  BY RecordBegins
<1>2. ASSUME NEW d \in Caller
      PROVE  /\ call'[d].step \in {"lookup", "calling", "done"} => call'[d].queue \in ToolName
             /\ call'[d].step = "usage" => call'[d].queue = "template" /\ call'[d].answer.ok
             /\ call'[d].step \in {"recorded", "lookup", "calling"} => call'[d].answer = None
  <2>1. CASE d = c
    BY <1>1, <2>1 DEF Begins
  <2>2. CASE d # c
    BY <1>1, <2>2 DEF Begins, TypeInv
  <2>. QED
    BY <2>1, <2>2
<1>3. call' \in [Caller -> CallState] /\ recorded' \in [Caller -> Seq(Queue)]
      /\ UNCHANGED <<responses, seeded, template, session, usage, native, mounted, returned>>
  BY <1>1 DEF Begins, Record, llm, tools
<1>. QED
  BY <1>2, <1>3 DEF TypeInv

\* What the later sections of a call do.
LEMMA LaterCases ==
    ASSUME TypeInv, NEW c \in Caller
    PROVE  /\ LookUp(c) =>
                 /\ call[c].step = "lookup" /\ call[c].queue \in ToolName
                 /\ call[c].answer = None
                 /\ Moves(c, IF call[c].queue \in native THEN "calling" ELSE "done", None)
                 /\ UNCHANGED <<responses, seeded, recorded, llm, tools, returned>>
           /\ CannedToolCall(c) =>
                 /\ call[c].step = "calling" /\ call[c].queue \in ToolName
                 /\ call[c].answer = None
                 /\ Moves(c, "done", [id |-> 0, ok |-> TRUE])
                 /\ UNCHANGED <<responses, seeded, recorded, llm, tools, returned>>
           /\ AddUsage(c) =>
                 /\ call[c].step = "usage" /\ call[c].queue = "template"
                 /\ call[c].answer.ok /\ Gives(c, call[c].answer)
                 /\ usage' = Least(usage + Tokens, MaxCount)
                 /\ UNCHANGED <<responses, seeded, recorded, template, session, tools>>
           /\ Return(c) =>
                 /\ call[c].step = "done" /\ call[c].queue \in ToolName
                 /\ Gives(c, call[c].answer)
                 /\ UNCHANGED <<responses, seeded, recorded, llm, tools>>
           /\ OpenSession(c) =>
                 /\ call[c].step = "idle" /\ Moves(c, "opening", None)
                 /\ UNCHANGED <<responses, seeded, recorded, llm, tools, returned>>
           /\ CloneTemplate(c) =>
                 /\ call[c].step = "opening" /\ Moves(c, "idle", None)
                 /\ session' \in [Caller -> {"none", "template", "fresh"}]
                 /\ UNCHANGED <<responses, seeded, recorded, template, usage, tools, returned>>
<1>0. call[c] \in CallState /\ call[c].answer \in Answer
  BY DEF TypeInv, CallState
<1>1. ASSUME LookUp(c)
      PROVE  Moves(c, IF call[c].queue \in native THEN "calling" ELSE "done", None)
  BY <1>1, BecomesMoves, NoneTyped DEF LookUp, Steps
<1>2. ASSUME CannedToolCall(c) PROVE Moves(c, "done", [id |-> 0, ok |-> TRUE])
  <2>1. [None EXCEPT !.ok = TRUE] = [id |-> 0, ok |-> TRUE]
    <3>. DEFINE x == [None EXCEPT !.ok = TRUE]
    <3>1. None \in [id : 0..MaxSeeded, ok : BOOLEAN] /\ None.id = 0
      BY NoneTyped DEF Answer
    <3>2. x \in [id : 0..MaxSeeded, ok : BOOLEAN] /\ x.id = 0 /\ x.ok = TRUE
      BY <3>1
    <3>. HIDE DEF x
    <3>3. x = [id |-> 0, ok |-> TRUE]
      BY <3>2
    <3>. QED
      BY <3>3 DEF x
  <2>2. [id |-> 0, ok |-> TRUE] \in Answer
    BY MocksAssumption DEF Answer
  <2>3. Becomes(c, "done", [id |-> 0, ok |-> TRUE])
    BY <1>2, <2>1 DEF CannedToolCall
  <2>. QED
    BY <2>2, <2>3, BecomesMoves DEF Steps
<1>3. ASSUME AddUsage(c) PROVE Gives(c, call[c].answer)
  BY <1>0, <1>3, EndsCases, QueueFacts DEF AddUsage, At, TypeInv
<1>4. ASSUME Return(c) PROVE Gives(c, call[c].answer)
  BY <1>0, <1>4, DeliveredGives DEF Return
<1>5. ASSUME OpenSession(c) PROVE Moves(c, "opening", None)
  BY <1>5, BecomesMoves, NoneTyped DEF OpenSession, Steps
<1>6. ASSUME CloneTemplate(c) PROVE Moves(c, "idle", None)
  BY <1>6, BecomesMoves, NoneTyped DEF CloneTemplate, Steps
<1>7. ASSUME CloneTemplate(c) PROVE session' \in [Caller -> {"none", "template", "fresh"}]
  BY <1>7 DEF CloneTemplate, TypeInv
<1>. QED
  BY <1>1, <1>2, <1>3, <1>4, <1>5, <1>6, <1>7
  DEF LookUp, CannedToolCall, AddUsage, Return, OpenSession, CloneTemplate, At, TypeInv

\* The sum that is bounded.
LEMMA UsageTyped ==
    ASSUME TypeInv
    PROVE  Least(usage + Tokens, MaxCount) \in 0..MaxCount
BY MocksAssumption DEF TypeInv, Least

\* The other sections of a call, and the opening of a session, keep the types.
LEMMA TypeByCall ==
    ASSUME TypeInv, NEW c \in Caller,
           LookUp(c) \/ CannedToolCall(c) \/ AddUsage(c) \/ Return(c)
             \/ OpenSession(c) \/ CloneTemplate(c)
    PROVE  TypeInv'
<1>0. /\ responses \in [Queue -> Seq(Answer)] /\ usage \in 0..MaxCount
      /\ session \in [Caller -> {"none", "template", "fresh"}]
      /\ call[c].answer \in Answer /\ [id |-> 0, ok |-> TRUE] \in Answer
  <2>1. [id |-> 0, ok |-> TRUE] \in Answer
    BY MocksAssumption DEF Answer
  <2>2. call[c] \in CallState
    BY DEF TypeInv
  <2>. QED
    BY <2>1, <2>2 DEF TypeInv, CallState
<1>1. CASE LookUp(c)
  BY <1>0, <1>1, LaterCases, MovesTyped, NoneTyped DEF Steps, llm
<1>2. CASE CannedToolCall(c)
  BY <1>0, <1>2, LaterCases, MovesTyped DEF Steps, llm
<1>3. CASE AddUsage(c)
  BY <1>0, <1>3, LaterCases, GivesTyped, UsageTyped
<1>4. CASE Return(c)
  BY <1>0, <1>4, LaterCases, GivesTyped DEF llm
<1>5. CASE OpenSession(c)
  BY <1>0, <1>5, LaterCases, MovesTyped, NoneTyped DEF Steps, llm
<1>6. CASE CloneTemplate(c)
  BY <1>0, <1>6, LaterCases, MovesTyped, NoneTyped DEF Steps, llm
<1>. QED
  BY <1>1, <1>2, <1>3, <1>4, <1>5, <1>6

\* Every step of the mocks keeps TypeInv.
LEMMA TypeByStep ==
    ASSUME TypeInv, [Next]_vars
    PROVE  TypeInv'
<1>1. CASE SetSessionTemplate
  BY <1>1, OutsideTyped DEF SetSessionTemplate, tools, TypeInv
<1>2. CASE \E n \in ToolName : RegisterNative(n)
  BY <1>2, OutsideTyped DEF RegisterNative, llm, TypeInv
<1>3. CASE \E m \in Mount : MountMcp(m)
  BY <1>3, OutsideTyped DEF MountMcp, llm, TypeInv
<1>4. CASE UNCHANGED vars
  BY <1>4, OutsideTyped DEF vars, llm, tools, TypeInv
<1>. QED
  BY <1>1, <1>2, <1>3, <1>4, TypeByEnqueue, TypeByRecord, TypeByPop, TypeByCall DEF Next

\* The mocks start typed: nothing is enqueued, recorded or returned.
LEMMA TypeInit ==
    ASSUME Init
    PROVE  TypeInv
<1>1. << >> \in Seq(Answer) /\ << >> \in Seq(Queue) /\ << >> \in Seq(Reply)
  BY EmptySeq
<1>2. 0 \in 0..MaxSeeded /\ Initial \in 0..MaxCount
  BY MocksAssumption
<1>3. /\ responses \in [Queue -> Seq(Answer)] /\ seeded \in [Queue -> 0..MaxSeeded]
      /\ recorded \in [Caller -> Seq(Queue)] /\ returned \in [Caller -> Seq(Reply)]
      /\ session \in [Caller -> {"none", "template", "fresh"}]
  BY <1>1, <1>2 DEF Init
<1>4. call \in [Caller -> CallState] /\ \A c \in Caller : call[c] = Idle
  BY NoneTyped DEF Init
<1>. QED
  BY <1>2, <1>3, <1>4, NoneTyped DEF Init, TypeInv

\* The mocks stay well typed, and a session's usage a u64, whatever is enqueued and
\* however the calls of the tasks interleave.
THEOREM MockTypes == Spec => []MocksTypeOK
<1>1. TypeInv => MocksTypeOK
  BY DEF TypeInv, MocksTypeOK, CallState, Steps, Reply
<1>. QED
  BY <1>1, TypeInit, TypeByStep, PTL DEF Spec

-----------------------------------------------------------------------------
(* The usage of the template's sessions                                    *)

\* The calls that MockUsageIsExact counts.
CountedOf(c) == {i \in DOMAIN returned[c] :
                    returned[c][i].queue = "template" /\ returned[c][i].answer.ok}
Counted == UNION {{c} \X CountedOf(c) : c \in Caller}

UsageInv ==
    /\ IsFiniteSet(Counted)
    /\ usage = Least(Initial + Tokens * Cardinality(Counted), MaxCount)

\* A call that returns is counted if it is a send without an error, and was not
\* counted before.
LEMMA CountedByReturn ==
    ASSUME TypeInv, NEW c \in Caller, NEW answer \in Answer, Gives(c, answer)
    PROVE  LET n == Len(returned[c]) + 1
           IN  /\ <<c, n>> \notin Counted
               /\ Counted' = IF call[c].queue = "template" /\ answer.ok
                             THEN Counted \cup {<<c, n>>} ELSE Counted
<1>. DEFINE n == Len(returned[c]) + 1
            counts == call[c].queue = "template" /\ answer.ok
<1>1. returned[c] \in Seq(Reply) /\ returned'[c] \in Seq(Reply)
      /\ DOMAIN returned[c] = 1..Len(returned[c]) /\ DOMAIN returned'[c] = 1..Len(returned'[c])
      /\ Len(returned[c]) \in Nat /\ Len(returned'[c]) = n
  BY DEF TypeInv, Gives
<1>2. CountedOf(c)' = IF counts THEN CountedOf(c) \cup {n} ELSE CountedOf(c)
  <2>1. n \in DOMAIN returned'[c] /\ n \notin DOMAIN returned[c]
        /\ DOMAIN returned'[c] = DOMAIN returned[c] \cup {n}
    BY <1>1
  <2>2. \A i \in DOMAIN returned[c] : returned'[c][i] = returned[c][i]
    BY <1>1 DEF Gives
  <2>3. returned'[c][n].queue = call[c].queue /\ returned'[c][n].answer = answer
    BY DEF Gives
  <2>. HIDE DEF n
  <2>. QED
    BY <2>1, <2>2, <2>3 DEF CountedOf
<1>3. n \notin CountedOf(c)
  BY <1>1 DEF CountedOf
<1>4. \A d \in Caller : d # c => CountedOf(d)' = CountedOf(d)
  BY DEF CountedOf, Gives
<1>. HIDE DEF n, counts
<1>5. <<c, n>> \notin Counted
  BY <1>3 DEF Counted
<1>6. Counted' = IF counts THEN Counted \cup {<<c, n>>} ELSE Counted
  <2>1. CASE counts
    <3>1. ASSUME NEW p \in Counted' PROVE p \in Counted \cup {<<c, n>>}
      <4>1. PICK d \in Caller : p \in {d} \X CountedOf(d)'
        BY <3>1 DEF Counted
      <4>2. CASE d = c
        BY <1>2, <2>1, <4>1, <4>2 DEF Counted
      <4>3. CASE d # c
        BY <1>4, <4>1, <4>3 DEF Counted
      <4>. QED
        BY <4>2, <4>3
    <3>2. ASSUME NEW p \in Counted \cup {<<c, n>>} PROVE p \in Counted'
      <4>1. CASE p = <<c, n>>
        BY <1>2, <2>1, <4>1 DEF Counted
      <4>2. CASE p \in Counted
        <5>1. PICK d \in Caller : p \in {d} \X CountedOf(d)
          BY <4>2 DEF Counted
        <5>2. CountedOf(d) \subseteq CountedOf(d)'
          BY <1>2, <1>4, <2>1
        <5>. QED
          BY <5>1, <5>2 DEF Counted
      <4>. QED
        BY <3>2, <4>1, <4>2
    <3>. QED
      BY <2>1, <3>1, <3>2
  <2>2. CASE ~ counts
    <3>1. \A d \in Caller : CountedOf(d)' = CountedOf(d)
      BY <1>2, <1>4, <2>2
    <3>. QED
      BY <2>2, <3>1 DEF Counted
  <2>. QED
    BY <2>1, <2>2
<1>. QED
  BY <1>5, <1>6 DEF n, counts

\* UsageInv is about nothing but the usage and the calls counted.
LEMMA UsageUnchanged ==
    ASSUME UsageInv, usage' = usage, Counted' = Counted
    PROVE  UsageInv'
BY DEF UsageInv

\* Saturating at each step is saturating at the end.
LEMMA SaturatedSum ==
    ASSUME NEW a \in Nat
    PROVE  Least(Least(Initial + Tokens * a, MaxCount) + Tokens, MaxCount)
             = Least(Initial + Tokens * (a + 1), MaxCount)
<1>. DEFINE x == Tokens * a
<1>1. x \in Nat /\ Tokens * (a + 1) = x + Tokens
  BY MocksAssumption
<1>. HIDE DEF x
<1>. QED
  BY <1>1, MocksAssumption DEF Least, x

\* pop_front: only calls whose usage is not counted return in that section.
LEMMA UsageByPop ==
    ASSUME TypeInv, UsageInv, NEW c \in Caller, PopFront(c)
    PROVE  UsageInv'
<1>1. usage' = usage
  BY DEF PopFront, llm
<1>2. returned' = returned => Counted' = Counted
  BY DEF Counted, CountedOf
<1>3. \/ returned' = returned
      \/ \E answer \in Answer :
            Gives(c, answer) /\ ~ (call[c].queue = "template" /\ answer.ok)
  BY PopCases, NoneTyped
<1>4. Counted' = Counted
  BY <1>2, <1>3, CountedByReturn
<1>. QED
  BY <1>1, <1>4, UsageUnchanged

\* A tool's call is not counted.
LEMMA UsageByReturn ==
    ASSUME TypeInv, UsageInv, NEW c \in Caller, Return(c)
    PROVE  UsageInv'
<1>1. Gives(c, call[c].answer) /\ call[c].queue \in ToolName /\ usage' = usage
      /\ call[c].answer \in Answer
  BY LaterCases DEF llm, TypeInv, CallState
<1>2. Counted' = Counted
  BY <1>1, CountedByReturn, QueueFacts
<1>. QED
  BY <1>1, <1>2, UsageUnchanged

\* send: one answer's usage is added, saturating, and one call is counted.
LEMMA UsageByAddUsage ==
    ASSUME TypeInv, UsageInv, NEW c \in Caller, AddUsage(c)
    PROVE  UsageInv'
<1>. DEFINE p == <<c, Len(returned[c]) + 1>>
<1>1. /\ Gives(c, call[c].answer) /\ call[c].queue = "template" /\ call[c].answer.ok
      /\ call[c].answer \in Answer /\ usage' = Least(usage + Tokens, MaxCount)
  BY LaterCases DEF TypeInv, CallState
<1>2. Counted' = Counted \cup {p} /\ p \notin Counted
  BY <1>1, CountedByReturn
<1>. HIDE DEF p
<1>3. IsFiniteSet(Counted') /\ Cardinality(Counted') = Cardinality(Counted) + 1
      /\ Cardinality(Counted) \in Nat
  BY <1>2, FS_AddElement, FS_CardinalityType DEF UsageInv
<1>4. usage = Least(Initial + Tokens * Cardinality(Counted), MaxCount)
  BY DEF UsageInv
<1>5. usage' = Least(Initial + Tokens * (Cardinality(Counted) + 1), MaxCount)
  BY <1>1, <1>3, <1>4, SaturatedSum
<1>. QED
  BY <1>3, <1>5 DEF UsageInv

\* No other step adds usage or returns.
LEMMA UsageByStep ==
    ASSUME TypeInv, UsageInv, [Next]_vars
    PROVE  UsageInv'
<1>1. returned' = returned => Counted' = Counted
  BY DEF Counted, CountedOf
<1>2. ASSUME usage' = usage, returned' = returned PROVE UsageInv'
  BY <1>1, <1>2, UsageUnchanged
<1>3. CASE \E q \in Seedable, ok \in BOOLEAN : Enqueue(q, ok)
  BY <1>2, <1>3 DEF Enqueue, llm
<1>4. CASE SetSessionTemplate
  BY <1>2, <1>4 DEF SetSessionTemplate
<1>5. CASE \E n \in ToolName : RegisterNative(n)
  BY <1>2, <1>5 DEF RegisterNative, llm
<1>6. CASE \E m \in Mount : MountMcp(m)
  BY <1>2, <1>6 DEF MountMcp, llm
<1>7. CASE \E c \in Caller : \E q \in Queue : Record(c, q)
  BY <1>2, <1>7 DEF Record, llm
<1>8. CASE \E c \in Caller : OpenSession(c) \/ CloneTemplate(c) \/ LookUp(c) \/ CannedToolCall(c)
  BY <1>2, <1>8 DEF OpenSession, CloneTemplate, LookUp, CannedToolCall, llm
<1>9. CASE UNCHANGED vars
  BY <1>2, <1>9 DEF vars, llm
<1>. QED
  BY <1>3, <1>4, <1>5, <1>6, <1>7, <1>8, <1>9, UsageByPop, UsageByReturn, UsageByAddUsage
  DEF Next

\* A template starts with its initial usage and no call.
LEMMA UsageInit ==
    ASSUME Init
    PROVE  UsageInv
<1>1. Counted = {}
  BY DEF Init, Counted, CountedOf
<1>2. IsFiniteSet(Counted) /\ Cardinality(Counted) = 0
  BY <1>1, FS_EmptySet
<1>. QED
  BY <1>2, MocksAssumption DEF Init, UsageInv, Least

\* send: the usage of the session that all clones of a template share is exactly what
\* it started with and one answer's usage for each call that came back without an
\* error, however the sections of concurrent calls interleave.
THEOREM SharedUsageIsExact == Spec => []MockUsageIsExact
<1>1. UsageInv => MockUsageIsExact
  BY DEF UsageInv, MockUsageIsExact, Counted, CountedOf
<1>. QED
  BY <1>1, TypeInit, TypeByStep, UsageInit, UsageByStep, PTL DEF Spec

-----------------------------------------------------------------------------
(* Which call gets which answer                                            *)

\* Every recorded call has returned or is running, in its caller's order.
CallsInv ==
    \A c \in Caller :
        /\ Len(recorded[c]) = Len(returned[c]) + IF Busy(c) THEN 1 ELSE 0
        /\ \A i \in 1..Len(recorded[c]) : recorded[c][i] = TheCall(c, i).queue

\* The answer that the i-th call of c has, if it has one.
AnswerId(c, i) == TheCall(c, i).answer.id
CallsOf(c, q)  == {i \in 1..Len(recorded[c]) : recorded[c][i] = q}

\* The first Popped(q) answers of q are with one call each, the others wait in order.
Popped(q) == seeded[q] - Len(responses[q])
QueueInv(q) ==
    /\ Popped(q) \in Nat
    /\ \A i \in 1..Len(responses[q]) : responses[q][i].id = Popped(q) + i
    /\ \A c \in Caller : \A i \in CallsOf(c, q) : AnswerId(c, i) \in 0..Popped(q)
    /\ \A n \in 1..Popped(q) : \E c \in Caller : \E i \in CallsOf(c, q) : AnswerId(c, i) = n
    /\ \A c, d \in Caller : \A i \in CallsOf(c, q), j \in CallsOf(d, q) :
          AnswerId(c, i) = AnswerId(d, j) => AnswerId(c, i) = 0 \/ (c = d /\ i = j)

AnswersInv == CallsInv /\ \A q \in Queue : QueueInv(q)

\* A caller's calls and replies are finite sequences, and its call is typed.
LEMMA SequencesTyped ==
    ASSUME TypeInv, NEW c \in Caller
    PROVE  /\ recorded[c] \in Seq(Queue) /\ returned[c] \in Seq(Reply)
           /\ Len(recorded[c]) \in Nat /\ Len(returned[c]) \in Nat
           /\ DOMAIN recorded[c] = 1..Len(recorded[c])
           /\ DOMAIN returned[c] = 1..Len(returned[c])
           /\ call[c] \in CallState /\ call[c].queue \in Queue /\ call[c].answer \in Answer
BY DEF TypeInv, CallState

\* The calls of c before the one that it is in have returned, and that one has not.
LEMMA CallForms ==
    ASSUME TypeInv, CallsInv, NEW c \in Caller
    PROVE  /\ \A i \in 1..Len(returned[c]) : TheCall(c, i) = returned[c][i]
           /\ ~ Busy(c) => Len(recorded[c]) = Len(returned[c])
           /\ Busy(c) => /\ Len(recorded[c]) = Len(returned[c]) + 1
                         /\ TheCall(c, Len(recorded[c])) =
                               [queue |-> call[c].queue, answer |-> call[c].answer]
                         /\ recorded[c][Len(recorded[c])] = call[c].queue
<1>1. \A i \in 1..Len(returned[c]) : TheCall(c, i) = returned[c][i]
  BY SequencesTyped DEF TheCall
<1>2. ASSUME ~ Busy(c) PROVE Len(recorded[c]) = Len(returned[c])
  <2>1. Len(recorded[c]) = Len(returned[c]) + (IF Busy(c) THEN 1 ELSE 0)
    BY DEF CallsInv
  <2>2. (IF Busy(c) THEN 1 ELSE 0) = 0
    BY <1>2
  <2>3. Len(recorded[c]) = Len(returned[c]) + 0
    BY <2>1, <2>2, Zenon
  <2>. QED
    BY <2>3, SequencesTyped
<1>3. ASSUME Busy(c)
      PROVE  /\ Len(recorded[c]) = Len(returned[c]) + 1
             /\ TheCall(c, Len(recorded[c])) = [queue |-> call[c].queue, answer |-> call[c].answer]
             /\ recorded[c][Len(recorded[c])] = call[c].queue
  <2>0. Len(recorded[c]) = Len(returned[c]) + (IF Busy(c) THEN 1 ELSE 0)
        /\ (IF Busy(c) THEN 1 ELSE 0) = 1
    BY <1>3 DEF CallsInv
  <2>1. Len(recorded[c]) = Len(returned[c]) + 1
    BY <2>0, Zenon
  <2>2. Len(recorded[c]) \notin DOMAIN returned[c] /\ Len(recorded[c]) \in 1..Len(recorded[c])
    BY <2>1, SequencesTyped
  <2>3. TheCall(c, Len(recorded[c])) = [queue |-> call[c].queue, answer |-> call[c].answer]
    BY <2>2 DEF TheCall
  <2>4. \A i \in 1..Len(recorded[c]) : recorded[c][i] = TheCall(c, i).queue
    BY DEF CallsInv
  <2>5. recorded[c][Len(recorded[c])] = TheCall(c, Len(recorded[c])).queue
    BY <2>2, <2>4
  <2>6. TheCall(c, Len(recorded[c])).queue = call[c].queue
    BY <2>3
  <2>. QED
    BY <2>1, <2>3, <2>5, <2>6, Zenon
<1>. QED
  BY <1>1, <1>2, <1>3

\* The last call of c now has the answer with this id, and nothing else changed.
Settled(c, id) ==
    /\ recorded' = recorded
    /\ \A d \in Caller : \A i \in 1..Len(recorded[d]) :
          AnswerId(d, i)' = IF d = c /\ i = Len(recorded[d]) THEN id ELSE AnswerId(d, i)

\* Other callers' calls are theirs.
LEMMA OthersKeep ==
    ASSUME TypeInv, NEW d \in Caller, call'[d] = call[d], returned'[d] = returned[d]
    PROVE  /\ \A i \in 1..Len(recorded[d]) : TheCall(d, i)' = TheCall(d, i)
           /\ Busy(d)' <=> Busy(d)
BY DEF TheCall, Busy, At

\* A section of a running call changes at most the answer of that call.
LEMMA SettledByMove ==
    ASSUME TypeInv, CallsInv, NEW c \in Caller, NEW step \in Steps, NEW answer \in Answer,
           Moves(c, step, answer), returned' = returned, recorded' = recorded,
           Busy(c), step \notin {"idle", "opening"}
    PROVE  CallsInv' /\ Settled(c, answer.id)
<1>n. PICK n \in Nat : n = Len(recorded[c])
  BY SequencesTyped
<1>1. Busy(c)'
  BY DEF Busy, At, Moves
<1>0. /\ Len(returned[c]) \in Nat /\ n = Len(returned[c]) + 1
      /\ DOMAIN returned[c] = 1..Len(returned[c])
      /\ \A i \in 1..n : recorded[c][i] = TheCall(c, i).queue
      /\ recorded[c][n] = call[c].queue
  <2>1. Len(returned[c]) \in Nat /\ DOMAIN returned[c] = 1..Len(returned[c])
    BY <1>n, SequencesTyped
  <2>2. n = Len(returned[c]) + 1 /\ recorded[c][n] = call[c].queue
    BY <1>n, CallForms
  <2>3. \A i \in 1..n : recorded[c][i] = TheCall(c, i).queue
    BY <1>n DEF CallsInv
  <2>. QED
    BY <2>1, <2>2, <2>3
<1>2. TheCall(c, n)' = [queue |-> call[c].queue, answer |-> answer]
  <2>1. n \notin DOMAIN returned[c]
    BY <1>n, <1>0
  <2>. QED
    BY <2>1 DEF TheCall, Moves
<1>3. \A i \in 1..n : i # n => TheCall(c, i)' = TheCall(c, i)
  <2>1. \A i \in 1..n : i # n => i \in DOMAIN returned[c]
    BY <1>n, <1>0
  <2>. QED
    BY <2>1 DEF TheCall
<1>4. ASSUME NEW d \in Caller
      PROVE  /\ Busy(d)' <=> Busy(d)
             /\ \A i \in 1..Len(recorded[d]) : recorded[d][i] = TheCall(d, i)'.queue
             /\ \A i \in 1..Len(recorded[d]) :
                   d # c \/ i # n => TheCall(d, i)' = TheCall(d, i)
  <2>1. CASE d = c
    <3>1. \A i \in 1..n : recorded[c][i] = TheCall(c, i)'.queue
      <4>. TAKE i \in 1..n
      <4>1. TheCall(c, n)'.queue = recorded[c][n]
        BY <1>0, <1>2
      <4>2. i # n => TheCall(c, i)'.queue = TheCall(c, i).queue
        BY <1>3
      <4>. QED
        BY <1>0, <4>1, <4>2
    <3>. QED
      BY <1>n, <1>1, <1>3, <2>1, <3>1
  <2>2. CASE d # c
    BY <2>2, OthersKeep DEF Moves, CallsInv
  <2>. QED
    BY <2>1, <2>2
<1>5. CallsInv'
  <2>1. \A d \in Caller : Len(recorded'[d]) = Len(returned'[d]) + IF Busy(d)' THEN 1 ELSE 0
    BY <1>4 DEF CallsInv
  <2>2. \A d \in Caller : \A i \in 1..Len(recorded'[d]) : recorded'[d][i] = TheCall(d, i)'.queue
    BY <1>4
  <2>. QED
    BY <2>1, <2>2 DEF CallsInv
<1>. QED
  BY <1>n, <1>2, <1>4, <1>5 DEF Settled, AnswerId

\* So does its return, which makes the running call a returned one.
LEMMA SettledByReturn ==
    ASSUME TypeInv, CallsInv, NEW c \in Caller, NEW answer \in Answer,
           Gives(c, answer), recorded' = recorded, Busy(c)
    PROVE  CallsInv' /\ Settled(c, answer.id)
<1>n. PICK n \in Nat, m \in Nat : n = Len(recorded[c]) /\ m = Len(returned[c])
  BY SequencesTyped
<1>1. ~ Busy(c)'
  BY NoneTyped DEF Busy, At, Gives
<1>0. /\ m \in Nat /\ n = m + 1 /\ recorded[c][n] = call[c].queue
      /\ \A i \in 1..n : recorded[c][i] = TheCall(c, i).queue
  <2>1. m \in Nat
    BY <1>n, SequencesTyped
  <2>2. n = m + 1 /\ recorded[c][n] = call[c].queue
    BY <1>n, CallForms
  <2>3. \A i \in 1..n : recorded[c][i] = TheCall(c, i).queue
    BY <1>n DEF CallsInv
  <2>. QED
    BY <2>1, <2>2, <2>3
<1>2. m \in Nat /\ n = m + 1 /\ DOMAIN returned'[c] = 1..n /\ Len(returned'[c]) = n
  <2>1. returned'[c] \in Seq(Reply) /\ Len(returned'[c]) = m + 1
    BY <1>n DEF Gives
  <2>. QED
    BY <1>n, <1>0, <2>1
<1>3. TheCall(c, n)' = [queue |-> call[c].queue, answer |-> answer]
  <2>1. n \in 1..n /\ returned'[c][n] = [queue |-> call[c].queue, answer |-> answer]
    BY <1>2 DEF Gives
  <2>. QED
    BY <1>2, <2>1 DEF TheCall
<1>4. \A i \in 1..n : i # n => TheCall(c, i)' = TheCall(c, i)
  <2>. TAKE i \in 1..n
  <2>. HAVE i # n
  <2>1. i \in 1..m /\ i \in DOMAIN returned'[c]
    BY <1>2
  <2>2. TheCall(c, i)' = returned'[c][i]
    BY <2>1 DEF TheCall
  <2>. QED
    BY <1>n, <2>1, <2>2, CallForms DEF Gives
<1>5. ASSUME NEW d \in Caller, d # c
      PROVE  /\ Busy(d)' <=> Busy(d)
             /\ returned'[d] = returned[d]
             /\ \A i \in 1..Len(recorded[d]) : TheCall(d, i)' = TheCall(d, i)
  BY <1>5, OthersKeep DEF Gives
<1>6. \A i \in 1..n : recorded[c][i] = TheCall(c, i)'.queue
  <2>. TAKE i \in 1..n
  <2>1. TheCall(c, n)'.queue = recorded[c][n]
    BY <1>0, <1>3
  <2>2. i # n => TheCall(c, i)'.queue = TheCall(c, i).queue
    BY <1>4
  <2>. QED
    BY <1>0, <2>1, <2>2
<1>7. CallsInv'
  <2>1. \A d \in Caller : Len(recorded'[d]) = Len(returned'[d]) + IF Busy(d)' THEN 1 ELSE 0
    <3>. TAKE d \in Caller
    <3>1. CASE d = c
      <4>1. (IF Busy(d)' THEN 1 ELSE 0) = 0
        BY <1>1, <3>1
      <4>2. Len(recorded'[d]) = n
        BY <1>n, <3>1, Zenon
      <4>3. Len(returned'[d]) = n /\ n = n + 0
        BY <1>2, <3>1
      <4>. QED
        BY <4>1, <4>2, <4>3, Zenon
    <3>2. CASE d # c
      <4>1. (IF Busy(d)' THEN 1 ELSE 0) = (IF Busy(d) THEN 1 ELSE 0)
        BY <1>5, <3>2
      <4>2. Len(recorded[d]) = Len(returned[d]) + (IF Busy(d) THEN 1 ELSE 0)
        BY DEF CallsInv
      <4>. QED
        BY <1>5, <3>2, <4>1, <4>2, Zenon
    <3>. QED
      BY <3>1, <3>2
  <2>2. \A d \in Caller : \A i \in 1..Len(recorded'[d]) : recorded'[d][i] = TheCall(d, i)'.queue
    BY <1>n, <1>5, <1>6 DEF CallsInv
  <2>. QED
    BY <2>1, <2>2 DEF CallsInv
<1>. QED
  BY <1>n, <1>3, <1>4, <1>5, <1>7 DEF Settled, AnswerId

\* A step that gives no call another answer and touches no queue.
LEMMA QueuesUntouched ==
    ASSUME \A q \in Queue : QueueInv(q), UNCHANGED <<responses, seeded, recorded>>,
           \A c \in Caller : \A i \in 1..Len(recorded[c]) : AnswerId(c, i)' = AnswerId(c, i)
    PROVE  \A q \in Queue : QueueInv(q)'
<1>. TAKE q \in Queue
<1>1. Popped(q)' = Popped(q) /\ QueueInv(q)
  BY DEF Popped
<1>2. \A c \in Caller : CallsOf(c, q)' = CallsOf(c, q)
  BY DEF CallsOf
<1>3. \A c \in Caller : \A i \in CallsOf(c, q) : AnswerId(c, i)' = AnswerId(c, i)
  BY DEF CallsOf
<1>4. /\ \A i \in 1..Len(responses'[q]) : responses'[q][i].id = Popped(q)' + i
      /\ Popped(q)' \in Nat
  BY <1>1 DEF QueueInv
<1>5. \A c \in Caller : \A i \in CallsOf(c, q)' : AnswerId(c, i)' \in 0..Popped(q)'
  BY <1>1, <1>2, <1>3 DEF QueueInv
<1>6. \A n \in 1..Popped(q)' : \E c \in Caller : \E i \in CallsOf(c, q)' : AnswerId(c, i)' = n
  BY <1>1, <1>2, <1>3 DEF QueueInv
<1>7. \A c, d \in Caller : \A i \in CallsOf(c, q)', j \in CallsOf(d, q)' :
         AnswerId(c, i)' = AnswerId(d, j)' => AnswerId(c, i)' = 0 \/ (c = d /\ i = j)
  BY <1>1, <1>2, <1>3 DEF QueueInv
<1>. QED
  BY <1>4, <1>5, <1>6, <1>7 DEF QueueInv

\* A call that keeps its answer, moving or returning, leaves every queue as it was.
LEMMA QueuesSettled ==
    ASSUME TypeInv, AnswersInv, NEW c \in Caller, Busy(c), Settled(c, call[c].answer.id),
           UNCHANGED <<responses, seeded>>
    PROVE  \A q \in Queue : QueueInv(q)'
<1>1. AnswerId(c, Len(recorded[c])) = call[c].answer.id
  <2>1. TheCall(c, Len(recorded[c])) = [queue |-> call[c].queue, answer |-> call[c].answer]
    BY CallForms DEF AnswersInv
  <2>. QED
    BY <2>1 DEF AnswerId
<1>2. \A d \in Caller : \A i \in 1..Len(recorded[d]) : AnswerId(d, i)' = AnswerId(d, i)
  BY <1>1 DEF Settled
<1>. QED
  BY <1>2, QueuesUntouched DEF Settled, AnswersInv

\* The first of q's waiting answers goes to the call that c is in, which had none.
LEMMA QueueByTaking ==
    ASSUME TypeInv, AnswersInv, NEW c \in Caller, NEW p \in Queue, Busy(c),
           p = call[c].queue, call[c].answer.id = 0, responses[p] # << >>,
           responses' = [responses EXCEPT ![p] = Tail(responses[p])], seeded' = seeded,
           Settled(c, Head(responses[p]).id)
    PROVE  \A q \in Queue : QueueInv(q)'
<1>1. PICK n \in Nat : n = Len(recorded[c])
  BY SequencesTyped
<1>2. n \in 1..n /\ recorded[c][n] = p /\ AnswerId(c, n) = 0
  <2>1. n = Len(returned[c]) + 1 /\ recorded[c][n] = p
        /\ TheCall(c, n) = [queue |-> call[c].queue, answer |-> call[c].answer]
    BY <1>1, CallForms DEF AnswersInv
  <2>2. Len(returned[c]) \in Nat
    BY SequencesTyped
  <2>. QED
    BY <1>1, <2>1, <2>2 DEF AnswerId
<1>3. responses[p] \in Seq(Answer) /\ Tail(responses[p]) \in Seq(Answer)
      /\ Len(responses[p]) \in Nat \ {0} /\ Len(Tail(responses[p])) = Len(responses[p]) - 1
      /\ Head(responses[p]) = responses[p][1]
      /\ \A i \in 1..Len(Tail(responses[p])) : Tail(responses[p])[i] = responses[p][i + 1]
  BY HeadTailProperties, LenProperties, EmptySeq DEF TypeInv
<1>4. responses'[p] = Tail(responses[p]) /\ \A q \in Queue : q # p => responses'[q] = responses[q]
  BY DEF TypeInv
<1>5. QueueInv(p) /\ Popped(p) \in Nat /\ seeded[p] \in Nat
      /\ Head(responses[p]).id = Popped(p) + 1
  <2>1. QueueInv(p)
    BY DEF AnswersInv
  <2>2. Popped(p) \in Nat /\ \A i \in 1..Len(responses[p]) : responses[p][i].id = Popped(p) + i
    BY <2>1 DEF QueueInv
  <2>3. 1 \in 1..Len(responses[p])
    BY <1>3
  <2>4. seeded[p] \in Nat
    BY MocksAssumption DEF TypeInv
  <2>. QED
    BY <1>3, <2>1, <2>2, <2>3, <2>4
<1>6. Popped(p)' = Popped(p) + 1
  <2>1. PICK k \in Nat, s \in Nat : k + 1 = Len(responses[p]) /\ s = seeded[p]
    <3>1. Len(responses[p]) - 1 \in Nat /\ (Len(responses[p]) - 1) + 1 = Len(responses[p])
      BY <1>3
    <3>. QED
      BY <1>5, <3>1
  <2>2. Len(responses'[p]) = k
    <3>1. Len(responses[p]) - 1 = k
      BY <2>1
    <3>. QED
      BY <1>3, <1>4, <3>1, Zenon
  <2>3. Popped(p) = s - (k + 1) /\ Popped(p)' = s - k
    BY <2>1, <2>2, Zenon DEF Popped
  <2>4. s - k = (s - (k + 1)) + 1
    OBVIOUS
  <2>. QED
    BY <2>3, <2>4, Zenon
<1>7. \A d \in Caller, q \in Queue : CallsOf(d, q)' = CallsOf(d, q)
  BY DEF CallsOf, Settled
<1>8. AnswerId(c, n)' = Popped(p) + 1
  BY <1>1, <1>2, <1>5 DEF Settled
<1>9. \A d \in Caller : \A i \in 1..Len(recorded[d]) :
         d # c \/ i # n => AnswerId(d, i)' = AnswerId(d, i)
  BY <1>1 DEF Settled
<1>10. QueueInv(p)'
  <2>0. n \in CallsOf(c, p)
    BY <1>1, <1>2 DEF CallsOf
  <2>1. \A i \in 1..Len(responses'[p]) : responses'[p][i].id = Popped(p)' + i
    <3>. TAKE i \in 1..Len(responses'[p])
    <3>1. i \in 1..Len(Tail(responses[p]))
      BY <1>4
    <3>2. \A k \in Nat : i \in 1..(k - 1) => i + 1 \in 1..k
      BY <3>1
    <3>3. Len(responses[p]) \in Nat
      BY <1>3
    <3>4. i \in 1..(Len(responses[p]) - 1)
      BY <1>3, <3>1, Zenon
    <3>5. responses'[p][i] = responses[p][i + 1]
      BY <1>3, <1>4, <3>1, Zenon
    <3>6. i + 1 \in 1..Len(responses[p]) /\ responses'[p][i] = responses[p][i + 1]
      BY <3>2, <3>3, <3>4, <3>5, Zenon
    <3>7. responses[p][i + 1].id = Popped(p) + (i + 1)
      BY <1>5, <3>6 DEF QueueInv
    <3>. QED
      BY <1>4, <1>5, <1>6, <3>6, <3>7
  <2>2. ASSUME NEW d \in Caller, NEW i \in CallsOf(d, p)
        PROVE  \/ d = c /\ i = n /\ AnswerId(d, i)' = Popped(p) + 1
               \/ /\ ~ (d = c /\ i = n) /\ AnswerId(d, i)' = AnswerId(d, i)
                  /\ AnswerId(d, i) \in 0..Popped(p)
    BY <1>5, <1>8, <1>9 DEF QueueInv, CallsOf
  <2>3. \A d \in Caller : \A i \in CallsOf(d, p) : AnswerId(d, i)' \in 0..Popped(p)'
    BY <1>5, <1>6, <2>2
  <2>4. \A k \in 1..Popped(p)' : \E d \in Caller : \E i \in CallsOf(d, p) : AnswerId(d, i)' = k
    <3>. TAKE k \in 1..Popped(p)'
    <3>1. CASE k = Popped(p) + 1
      BY <1>8, <2>0, <3>1
    <3>2. CASE k # Popped(p) + 1
      <4>1. k \in 1..Popped(p)
        BY <1>5, <1>6, <3>2
      <4>0. PICK d \in Caller : \E i \in CallsOf(d, p) : AnswerId(d, i) = k
        BY <1>5, <4>1 DEF QueueInv
      <4>2. PICK i \in CallsOf(d, p) : AnswerId(d, i) = k
        BY <4>0
      <4>3. ~ (d = c /\ i = n)
        BY <1>2, <4>1, <4>2
      <4>. QED
        BY <2>2, <4>2, <4>3
    <3>. QED
      BY <3>1, <3>2
  <2>5. \A d, e \in Caller : \A i \in CallsOf(d, p), j \in CallsOf(e, p) :
           AnswerId(d, i)' = AnswerId(e, j)' => AnswerId(d, i)' = 0 \/ (d = e /\ i = j)
    <3>. TAKE d, e \in Caller
    <3>. TAKE i \in CallsOf(d, p), j \in CallsOf(e, p)
    <3>1. AnswerId(d, i) = AnswerId(e, j) => AnswerId(d, i) = 0 \/ (d = e /\ i = j)
      BY <1>5 DEF QueueInv
    <3>. QED
      BY <1>5, <2>2, <3>1
  <2>6. Popped(p)' \in Nat
    BY <1>5, <1>6
  <2>. QED
    BY <1>7, <2>1, <2>3, <2>4, <2>5, <2>6 DEF QueueInv
<1>11. ASSUME NEW q \in Queue, q # p PROVE QueueInv(q)'
  <2>1. QueueInv(q) /\ Popped(q)' = Popped(q) /\ responses'[q] = responses[q]
    BY <1>4, <1>11 DEF AnswersInv, Popped
  <2>2. \A d \in Caller : \A i \in CallsOf(d, q) : AnswerId(d, i)' = AnswerId(d, i)
    BY <1>2, <1>9, <1>11 DEF CallsOf
  <2>3. /\ \A i \in 1..Len(responses'[q]) : responses'[q][i].id = Popped(q)' + i
        /\ Popped(q)' \in Nat
    BY <2>1 DEF QueueInv
  <2>4. \A d \in Caller : \A i \in CallsOf(d, q)' : AnswerId(d, i)' \in 0..Popped(q)'
    BY <1>7, <2>1, <2>2 DEF QueueInv
  <2>5. \A k \in 1..Popped(q)' : \E d \in Caller : \E i \in CallsOf(d, q)' : AnswerId(d, i)' = k
    BY <1>7, <2>1, <2>2 DEF QueueInv
  <2>6. \A d, e \in Caller : \A i \in CallsOf(d, q)', j \in CallsOf(e, q)' :
           AnswerId(d, i)' = AnswerId(e, j)' => AnswerId(d, i)' = 0 \/ (d = e /\ i = j)
    BY <1>7, <2>1, <2>2 DEF QueueInv
  <2>. QED
    BY <2>3, <2>4, <2>5, <2>6 DEF QueueInv
<1>. QED
  BY <1>10, <1>11

\* An answer that is enqueued is the last of those that wait.
LEMMA QueueByEnqueue ==
    ASSUME TypeInv, AnswersInv, NEW p \in Seedable, NEW ok \in BOOLEAN, Enqueue(p, ok)
    PROVE  AnswersInv'
<1>. DEFINE a == [id |-> seeded[p] + 1, ok |-> ok]
<1>1. CallsInv' /\ \A c \in Caller, i \in Nat : AnswerId(c, i)' = AnswerId(c, i)
  BY DEF AnswersInv, CallsInv, AnswerId, TheCall, Busy, At, Enqueue
<1>2. p \in Queue /\ responses[p] \in Seq(Answer) /\ Len(responses[p]) \in Nat
      /\ seeded[p] \in Nat /\ seeded[p] + 1 \in 0..MaxSeeded
  <2>1. p \in Queue /\ seeded \in [Queue -> 0..MaxSeeded] /\ MaxSeeded \in Nat
    BY QueueFacts, MocksAssumption DEF TypeInv
  <2>2. seeded[p] + 1 \in 0..MaxSeeded
    BY <2>1, SeededBelowSum DEF Enqueue
  <2>. QED
    BY <2>1, <2>2, LenProperties DEF TypeInv
<1>3. a \in Answer /\ a.id = seeded[p] + 1
  BY <1>2 DEF Answer
<1>4. /\ responses' = [responses EXCEPT ![p] = Append(responses[p], a)]
      /\ seeded' = [seeded EXCEPT ![p] = seeded[p] + 1] /\ recorded' = recorded
  BY DEF Enqueue
<1>. HIDE DEF a
<1>5. Len(Append(responses[p], a)) = Len(responses[p]) + 1
      /\ Append(responses[p], a)[Len(responses[p]) + 1] = a
      /\ \A i \in 1..Len(responses[p]) : Append(responses[p], a)[i] = responses[p][i]
  BY <1>2, <1>3, AppendProperties
<1>6. /\ responses'[p] = Append(responses[p], a) /\ seeded'[p] = seeded[p] + 1
      /\ \A q \in Queue : q # p => responses'[q] = responses[q] /\ seeded'[q] = seeded[q]
  BY <1>2, <1>4 DEF TypeInv
<1>7. \A q \in Queue : Popped(q)' = Popped(q)
  <2>. TAKE q \in Queue
  <2>1. CASE q = p
    BY <1>2, <1>5, <1>6, <2>1 DEF Popped
  <2>2. CASE q # p
    BY <1>6, <2>2 DEF Popped
  <2>. QED
    BY <2>1, <2>2
<1>8. ASSUME NEW q \in Queue PROVE QueueInv(q)'
  <2>1. QueueInv(q) /\ Popped(q)' = Popped(q) /\ \A c \in Caller : CallsOf(c, q)' = CallsOf(c, q)
    BY <1>4, <1>7 DEF AnswersInv, CallsOf
  <2>2. \A c \in Caller : \A i \in CallsOf(c, q) : AnswerId(c, i)' = AnswerId(c, i)
    BY <1>1 DEF CallsOf
  <2>3. \A i \in 1..Len(responses'[q]) : responses'[q][i].id = Popped(q)' + i
    <3>1. CASE q = p
      <4>1. Popped(p) + (Len(responses[p]) + 1) = seeded[p] + 1
        BY <1>2 DEF Popped
      <4>2. \A i \in 1..Len(responses[p]) : responses[p][i].id = Popped(p) + i
        BY <2>1, <3>1 DEF QueueInv
      <4>3. \A i \in 1..(Len(responses[p]) + 1) :
               Append(responses[p], a)[i].id = Popped(p) + i
        <5>. TAKE i \in 1..(Len(responses[p]) + 1)
        <5>1. CASE i = Len(responses[p]) + 1
          BY <1>3, <1>5, <4>1, <5>1
        <5>2. CASE i # Len(responses[p]) + 1
          <6>1. i \in 1..Len(responses[p])
            BY <1>2, <5>2
          <6>. QED
            BY <1>5, <4>2, <6>1
        <5>. QED
          BY <5>1, <5>2
      <4>4. Len(responses'[q]) = Len(responses[p]) + 1 /\ Popped(q)' = Popped(p)
            /\ responses'[q] = Append(responses[p], a)
        BY <1>5, <1>6, <2>1, <3>1
      <4>. QED
        BY <4>3, <4>4, Zenon
    <3>2. CASE q # p
      BY <1>6, <2>1, <3>2 DEF QueueInv
    <3>. QED
      BY <3>1, <3>2
  <2>4. /\ Popped(q)' \in Nat
        /\ \A d \in Caller : \A i \in CallsOf(d, q)' : AnswerId(d, i)' \in 0..Popped(q)'
    BY <2>1, <2>2 DEF QueueInv
  <2>5. \A k \in 1..Popped(q)' : \E d \in Caller : \E i \in CallsOf(d, q)' : AnswerId(d, i)' = k
    BY <2>1, <2>2 DEF QueueInv
  <2>6. \A d, e \in Caller : \A i \in CallsOf(d, q)', j \in CallsOf(e, q)' :
           AnswerId(d, i)' = AnswerId(e, j)' => AnswerId(d, i)' = 0 \/ (d = e /\ i = j)
    BY <2>1, <2>2 DEF QueueInv
  <2>. QED
    BY <2>3, <2>4, <2>5, <2>6 DEF QueueInv
<1>. QED
  BY <1>1, <1>8 DEF AnswersInv

\* A step outside the calls that are recorded.
LEMMA AnswersOutside ==
    ASSUME TypeInv, AnswersInv, UNCHANGED <<responses, seeded, recorded, returned>>,
           \A d \in Caller : call'[d] = call[d] \/ (~ Busy(d) /\ ~ Busy(d)')
    PROVE  AnswersInv'
<1>1. ASSUME NEW d \in Caller
      PROVE  /\ Busy(d)' <=> Busy(d)
             /\ \A i \in 1..Len(recorded[d]) : TheCall(d, i)' = TheCall(d, i)
  <2>1. CASE call'[d] = call[d]
    BY <2>1, OthersKeep
  <2>2. CASE ~ Busy(d) /\ ~ Busy(d)'
    <3>1. Len(recorded[d]) = Len(returned[d]) /\ DOMAIN returned[d] = 1..Len(returned[d])
      BY <2>2, CallForms, SequencesTyped DEF AnswersInv
    <3>2. \A i \in 1..Len(recorded[d]) : i \in DOMAIN returned[d]
      BY <3>1
    <3>. QED
      BY <2>2, <3>2 DEF TheCall
  <2>. QED
    BY <2>1, <2>2
<1>2. CallsInv'
  <2>1. \A d \in Caller : Len(recorded'[d]) = Len(returned'[d]) + IF Busy(d)' THEN 1 ELSE 0
    <3>. TAKE d \in Caller
    <3>1. (IF Busy(d)' THEN 1 ELSE 0) = (IF Busy(d) THEN 1 ELSE 0)
      BY <1>1
    <3>2. Len(recorded[d]) = Len(returned[d]) + (IF Busy(d) THEN 1 ELSE 0)
      BY DEF AnswersInv, CallsInv
    <3>. QED
      BY <3>1, <3>2, Zenon
  <2>2. \A d \in Caller : \A i \in 1..Len(recorded'[d]) : recorded'[d][i] = TheCall(d, i)'.queue
    BY <1>1 DEF AnswersInv, CallsInv
  <2>. QED
    BY <2>1, <2>2 DEF CallsInv
<1>3. \A c \in Caller : \A i \in 1..Len(recorded[c]) : AnswerId(c, i)' = AnswerId(c, i)
  BY <1>1 DEF AnswerId
<1>. QED
  BY <1>2, <1>3, QueuesUntouched DEF AnswersInv

\* A call that is recorded has no answer yet.
LEMMA AnswersByRecord ==
    ASSUME TypeInv, AnswersInv, NEW c \in Caller, NEW p \in Queue, Record(c, p)
    PROVE  AnswersInv'
<1>1. Begins(c, p) /\ ~ Busy(c) /\ UNCHANGED <<responses, seeded, returned>>
  BY RecordBegins DEF Record, Busy
<1>2. PICK n \in Nat : /\ n = Len(recorded[c]) /\ n = Len(returned[c])
                       /\ DOMAIN returned[c] = 1..n
  BY <1>1, CallForms, SequencesTyped DEF AnswersInv
<1>3. /\ Len(recorded'[c]) = n + 1 /\ recorded'[c][n + 1] = p
      /\ \A i \in 1..n : recorded'[c][i] = recorded[c][i]
      /\ call'[c].step = "recorded" /\ call'[c].queue = p /\ call'[c].answer = None
      /\ \A d \in Caller : d # c => call'[d] = call[d] /\ recorded'[d] = recorded[d]
  BY <1>1, <1>2 DEF Begins
<1>4. TheCall(c, n + 1)' = [queue |-> p, answer |-> None]
  <2>1. n + 1 \notin DOMAIN returned'[c]
    BY <1>1, <1>2
  <2>. QED
    BY <1>3, <2>1 DEF TheCall
<1>5. \A i \in 1..n : TheCall(c, i)' = TheCall(c, i)
  BY <1>1, <1>2 DEF TheCall
<1>6. \A d \in Caller : d # c => (\A i \in 1..Len(recorded[d]) : TheCall(d, i)' = TheCall(d, i))
                                 /\ (Busy(d)' <=> Busy(d))
  BY <1>1, <1>3, OthersKeep
<1>7. CallsInv'
  <2>1. \A d \in Caller : Len(recorded'[d]) = Len(returned'[d]) + IF Busy(d)' THEN 1 ELSE 0
    <3>. TAKE d \in Caller
    <3>1. CASE d = c
      <4>1. (IF Busy(d)' THEN 1 ELSE 0) = 1
        BY <1>3, <3>1 DEF Busy, At
      <4>2. Len(returned'[d]) = n /\ Len(recorded'[d]) = n + 1
        BY <1>1, <1>2, <1>3, <3>1
      <4>. QED
        BY <4>1, <4>2, Zenon
    <3>2. CASE d # c
      <4>1. (IF Busy(d)' THEN 1 ELSE 0) = (IF Busy(d) THEN 1 ELSE 0)
        BY <1>6, <3>2
      <4>2. Len(recorded[d]) = Len(returned[d]) + (IF Busy(d) THEN 1 ELSE 0)
        BY DEF AnswersInv, CallsInv
      <4>. QED
        BY <1>1, <1>3, <3>2, <4>1, <4>2, Zenon
    <3>. QED
      BY <3>1, <3>2
  <2>2. \A d \in Caller : \A i \in 1..Len(recorded'[d]) : recorded'[d][i] = TheCall(d, i)'.queue
    <3>. TAKE d \in Caller
    <3>0. \A i \in 1..Len(recorded[d]) : recorded[d][i] = TheCall(d, i).queue
      BY DEF AnswersInv, CallsInv
    <3>1. CASE d = c
      <4>1. TheCall(c, n + 1)'.queue = p
        BY <1>4
      <4>2. \A i \in 1..(n + 1) : i \in 1..n \/ i = n + 1
        OBVIOUS
      <4>3. \A i \in 1..(n + 1) : recorded'[c][i] = TheCall(c, i)'.queue
        BY <1>2, <1>3, <1>5, <3>0, <3>1, <4>1, <4>2
      <4>. QED
        BY <1>3, <3>1, <4>3
    <3>2. CASE d # c
      BY <1>3, <1>6, <3>0, <3>2
    <3>. QED
      BY <3>1, <3>2
  <2>. QED
    BY <2>1, <2>2 DEF CallsInv
<1>8. ASSUME NEW q \in Queue PROVE QueueInv(q)'
  <2>1. QueueInv(q) /\ Popped(q)' = Popped(q)
    BY <1>1 DEF AnswersInv, Popped
  <2>2. ASSUME NEW d \in Caller, NEW i \in CallsOf(d, q)'
        PROVE  \/ d = c /\ i = n + 1 /\ AnswerId(d, i)' = 0
               \/ i \in CallsOf(d, q) /\ AnswerId(d, i)' = AnswerId(d, i)
    <3>1. CASE d = c
      <4>1. i \in 1..(n + 1) /\ recorded'[c][i] = q
        BY <1>3, <2>2, <3>1 DEF CallsOf
      <4>2. CASE i = n + 1
        BY <1>4, <3>1, <4>2, NoneTyped DEF AnswerId
      <4>3. CASE i # n + 1
        <5>1. i \in 1..n
          BY <4>1, <4>3
        <5>. QED
          BY <1>2, <1>3, <1>5, <3>1, <4>1, <5>1 DEF AnswerId, CallsOf
      <4>. QED
        BY <4>2, <4>3
    <3>2. CASE d # c
      BY <1>3, <1>6, <2>2, <3>2 DEF AnswerId, CallsOf
    <3>. QED
      BY <3>1, <3>2
  <2>3. \A d \in Caller : \A i \in CallsOf(d, q) :
           i \in CallsOf(d, q)' /\ AnswerId(d, i)' = AnswerId(d, i)
    <3>. TAKE d \in Caller
    <3>. TAKE i \in CallsOf(d, q)
    <3>1. CASE d = c
      <4>0. CallsOf(c, q) = {j \in 1..n : recorded[c][j] = q}
        BY <1>2 DEF CallsOf
      <4>1. i \in 1..n /\ i \in 1..(n + 1) /\ recorded[c][i] = q
        BY <3>1, <4>0
      <4>. QED
        BY <1>3, <1>5, <3>1, <4>1 DEF AnswerId, CallsOf
    <3>2. CASE d # c
      BY <1>3, <1>6, <3>2 DEF AnswerId, CallsOf
    <3>. QED
      BY <3>1, <3>2
  <2>4. /\ Popped(q)' \in Nat
        /\ \A i \in 1..Len(responses'[q]) : responses'[q][i].id = Popped(q)' + i
    BY <1>1, <2>1 DEF QueueInv
  <2>5. \A d \in Caller : \A i \in CallsOf(d, q)' : AnswerId(d, i)' \in 0..Popped(q)'
    BY <2>1, <2>2 DEF QueueInv
  <2>6. \A k \in 1..Popped(q)' : \E d \in Caller : \E i \in CallsOf(d, q)' : AnswerId(d, i)' = k
    BY <2>1, <2>3 DEF QueueInv
  <2>7. \A d, e \in Caller : \A i \in CallsOf(d, q)', j \in CallsOf(e, q)' :
           AnswerId(d, i)' = AnswerId(e, j)' => AnswerId(d, i)' = 0 \/ (d = e /\ i = j)
    <3>. TAKE d, e \in Caller
    <3>. TAKE i \in CallsOf(d, q)', j \in CallsOf(e, q)'
    <3>. HAVE AnswerId(d, i)' = AnswerId(e, j)'
    <3>1. SUFFICES ASSUME AnswerId(d, i)' # 0 PROVE d = e /\ i = j
      OBVIOUS
    <3>2. i \in CallsOf(d, q) /\ AnswerId(d, i)' = AnswerId(d, i)
      BY <2>2, <3>1
    <3>3. j \in CallsOf(e, q) /\ AnswerId(e, j)' = AnswerId(e, j)
      BY <2>2, <3>1
    <3>4. \A i2 \in CallsOf(d, q), j2 \in CallsOf(e, q) :
             AnswerId(d, i2) = AnswerId(e, j2) => AnswerId(d, i2) = 0 \/ (d = e /\ i2 = j2)
      BY <2>1 DEF QueueInv
    <3>5. AnswerId(d, i) = AnswerId(e, j) /\ AnswerId(d, i) # 0
      BY <3>1, <3>2, <3>3
    <3>. QED
      BY <3>2, <3>3, <3>4, <3>5
  <2>. QED
    BY <2>4, <2>5, <2>6, <2>7 DEF QueueInv
<1>. QED
  BY <1>7, <1>8 DEF AnswersInv

\* pop_front: the first answer that waits goes to the call that pops, and to no other.
LEMMA AnswersByPop ==
    ASSUME TypeInv, AnswersInv, NEW c \in Caller, PopFront(c)
    PROVE  AnswersInv'
<1>. DEFINE q == call[c].queue
            canned == Head(responses[q])
<1>1. /\ Busy(c) /\ call[c].answer = None /\ q \in Queue
      /\ recorded' = recorded /\ seeded' = seeded /\ CallsInv
  BY SequencesTyped DEF PopFront, Busy, At, TypeInv, AnswersInv
<1>2. CASE /\ responses[q] # << >> /\ canned \in Answer
           /\ responses' = [responses EXCEPT ![q] = Tail(responses[q])]
           /\ \/ Moves(c, "usage", canned) /\ returned' = returned
              \/ Moves(c, "done", canned) /\ returned' = returned
              \/ Gives(c, canned)
  <2>1. CallsInv' /\ Settled(c, canned.id)
    BY <1>1, <1>2, SettledByMove, SettledByReturn DEF Steps
  <2>2. \A p \in Queue : QueueInv(p)'
    BY <1>1, <1>2, <2>1, NoneTyped, QueueByTaking
  <2>. QED
    BY <2>1, <2>2 DEF AnswersInv
<1>3. CASE /\ responses' = responses
           /\ \/ Moves(c, "lookup", None) /\ returned' = returned
              \/ Gives(c, None)
  <2>1. CallsInv' /\ Settled(c, None.id)
    BY <1>1, <1>3, NoneTyped, SettledByMove, SettledByReturn DEF Steps
  <2>. QED
    BY <1>1, <1>3, <2>1, QueuesSettled DEF AnswersInv
<1>. QED
  BY <1>2, <1>3, PopCases

\* The sections after the first keep the answer that the call has.
LEMMA AnswersByCall ==
    ASSUME TypeInv, AnswersInv, NEW c \in Caller,
           LookUp(c) \/ CannedToolCall(c) \/ AddUsage(c) \/ Return(c)
    PROVE  AnswersInv'
<1>1. /\ Busy(c) /\ call[c].answer \in Answer /\ CallsInv
      /\ UNCHANGED <<responses, seeded, recorded>>
  BY SequencesTyped
  DEF LookUp, CannedToolCall, AddUsage, Return, Busy, At, AnswersInv
<1>2. CallsInv' /\ Settled(c, call[c].answer.id)
  <2>1. CASE LookUp(c)
    BY <1>1, <2>1, LaterCases, NoneTyped, SettledByMove DEF Steps
  <2>2. CASE CannedToolCall(c)
    <3>1. [id |-> 0, ok |-> TRUE] \in Answer /\ call[c].answer.id = 0
      BY <2>2, LaterCases, NoneTyped, MocksAssumption DEF Answer
    <3>. QED
      BY <1>1, <2>2, <3>1, LaterCases, SettledByMove DEF Steps
  <2>3. CASE AddUsage(c) \/ Return(c)
    BY <1>1, <2>3, LaterCases, SettledByReturn
  <2>. QED
    BY <2>1, <2>2, <2>3
<1>. QED
  BY <1>1, <1>2, QueuesSettled DEF AnswersInv

\* session and clone neither call nor answer anything.
LEMMA AnswersBySession ==
    ASSUME TypeInv, AnswersInv, NEW c \in Caller, OpenSession(c) \/ CloneTemplate(c)
    PROVE  AnswersInv'
<1>1. /\ UNCHANGED <<responses, seeded, recorded, returned>> /\ ~ Busy(c)
      /\ Moves(c, "opening", None) \/ Moves(c, "idle", None)
  BY LaterCases DEF OpenSession, CloneTemplate, Busy, At
<1>2. \A d \in Caller : call'[d] = call[d] \/ (~ Busy(d) /\ ~ Busy(d)')
  BY <1>1 DEF Moves, Busy, At
<1>. QED
  BY <1>1, <1>2, AnswersOutside

\* However sections interleave, each step keeps AnswersInv.
LEMMA AnswersByStep ==
    ASSUME TypeInv, AnswersInv, [Next]_vars
    PROVE  AnswersInv'
<1>1. ASSUME UNCHANGED <<responses, seeded, recorded, call, returned>> PROVE AnswersInv'
  BY <1>1, AnswersOutside
<1>2. CASE SetSessionTemplate
  BY <1>1, <1>2 DEF SetSessionTemplate
<1>3. CASE \E n \in ToolName : RegisterNative(n)
  BY <1>1, <1>3 DEF RegisterNative
<1>4. CASE \E m \in Mount : MountMcp(m)
  BY <1>1, <1>4 DEF MountMcp
<1>5. CASE UNCHANGED vars
  BY <1>1, <1>5 DEF vars
<1>. QED
  BY <1>2, <1>3, <1>4, <1>5, QueueByEnqueue, AnswersByRecord, AnswersByPop, AnswersByCall,
     AnswersBySession
  DEF Next

\* At the start no call is recorded and no answer waits.
LEMMA AnswersInit ==
    ASSUME Init
    PROVE  AnswersInv
<1>1. CallsInv
  BY DEF Init, CallsInv, Busy, At, Idle
<1>2. ASSUME NEW q \in Queue PROVE QueueInv(q)
  <2>1. /\ Len(responses[q]) = 0 /\ seeded[q] = 0 /\ Popped(q) = 0
        /\ \A c \in Caller : CallsOf(c, q) = {}
    BY DEF Init, Popped, CallsOf
  <2>. QED
    BY <2>1 DEF QueueInv
<1>. QED
  BY <1>1, <1>2 DEF AnswersInv

\* What the queues hold and what the calls took are, together, all that was enqueued.
LEMMA AnswersImply ==
    ASSUME TypeInv, AnswersInv
    PROVE  AnswersMatchCalls
<1>1. ASSUME NEW c \in Caller
      PROVE  /\ Len(recorded[c]) = Len(returned[c]) + IF Busy(c) THEN 1 ELSE 0
             /\ \A i \in DOMAIN recorded[c] : recorded[c][i] = TheCall(c, i).queue
  BY SequencesTyped DEF AnswersInv, CallsInv
<1>2. ASSUME NEW q \in Queue
      PROVE  LET waiting == {responses[q][i].id : i \in DOMAIN responses[q]}
                 calls(c) == {i \in DOMAIN recorded[c] : recorded[c][i] = q}
                 taken == UNION {{TheCall(c, i).answer.id : i \in calls(c)} : c \in Caller}
             IN  /\ (taken \ {0}) \cup waiting = 1..seeded[q]
                 /\ \A i \in taken, j \in waiting : i < j
                 /\ \A c, d \in Caller : \A i \in calls(c), j \in calls(d) :
                       TheCall(c, i).answer.id = TheCall(d, j).answer.id =>
                           TheCall(c, i).answer.id = 0 \/ (c = d /\ i = j)
  <2>. DEFINE waiting == {responses[q][i].id : i \in DOMAIN responses[q]}
              calls(c) == {i \in DOMAIN recorded[c] : recorded[c][i] = q}
              taken == UNION {{TheCall(c, i).answer.id : i \in calls(c)} : c \in Caller}
  <2>1. \A c \in Caller : calls(c) = CallsOf(c, q)
    BY SequencesTyped DEF CallsOf
  <2>2. QueueInv(q)
    BY DEF AnswersInv
  <2>3. PICK k \in Nat, m \in Nat : Len(responses[q]) = k /\ Popped(q) = m
    BY <2>2, LenProperties DEF QueueInv, TypeInv
  <2>4. DOMAIN responses[q] = 1..k /\ seeded[q] = m + k
    <3>1. responses[q] \in Seq(Answer) /\ seeded[q] \in Nat
      BY MocksAssumption DEF TypeInv
    <3>2. \A s \in Nat : s - k = m => s = m + k
      OBVIOUS
    <3>. QED
      BY <2>3, <3>1, <3>2, LenProperties DEF Popped
  <2>5. \A i \in 1..k : responses[q][i].id = m + i
    BY <2>2, <2>3 DEF QueueInv
  <2>6. waiting = (m + 1)..(m + k)
    <3>1. \A j \in (m + 1)..(m + k) : j - m \in 1..k /\ m + (j - m) = j
      OBVIOUS
    <3>2. \A i \in 1..k : m + i \in (m + 1)..(m + k)
      OBVIOUS
    <3>3. waiting = {responses[q][i].id : i \in 1..k}
      BY <2>4
    <3>. HIDE DEF waiting
    <3>4. \A j \in waiting : j \in (m + 1)..(m + k)
      BY <2>5, <3>2, <3>3
    <3>5. \A j \in (m + 1)..(m + k) : j \in waiting
      BY <2>5, <3>1, <3>3
    <3>. QED
      BY <3>4, <3>5
  <2>7. \A i \in taken : i \in 0..m
    <3>1. \A c \in Caller : \A i \in CallsOf(c, q) : TheCall(c, i).answer.id \in 0..m
      BY <2>2, <2>3 DEF QueueInv, AnswerId
    <3>. QED
      BY <2>1, <3>1
  <2>8. \A i \in 1..m : i \in taken
    <3>1. \A n \in 1..m : \E c \in Caller : \E i \in CallsOf(c, q) : TheCall(c, i).answer.id = n
      BY <2>2, <2>3 DEF QueueInv, AnswerId
    <3>. QED
      BY <2>1, <3>1
  <2>9. \A c, d \in Caller : \A i \in calls(c), j \in calls(d) :
           TheCall(c, i).answer.id = TheCall(d, j).answer.id =>
               TheCall(c, i).answer.id = 0 \/ (c = d /\ i = j)
    BY <2>1, <2>2 DEF QueueInv, AnswerId
  <2>. HIDE DEF waiting, taken
  <2>10. (taken \ {0}) \cup waiting = 1..seeded[q]
    BY <2>4, <2>6, <2>7, <2>8
  <2>11. \A i \in taken, j \in waiting : i < j
    BY <2>6, <2>7
  <2>. QED
    BY <2>9, <2>10, <2>11 DEF waiting, taken
<1>. QED
  BY <1>1, <1>2 DEF AnswersMatchCalls

\* pop_front under its own mutex, after the call was recorded under another: however
\* the sections of concurrent calls interleave, each recorded call has returned or is
\* running, and each canned answer went, in the order of its queue, to one call only.
THEOREM EachAnswerGoesToOneCall == Spec => []AnswersMatchCalls
BY TypeInit, TypeByStep, AnswersInit, AnswersByStep, AnswersImply, PTL DEF Spec

-----------------------------------------------------------------------------
(* The mock implements the real host                                       *)

\* The host's variables that the refinement computes.
NativeMap == [n \in ToolName |-> IF n \in native THEN "local" ELSE "absent"]
CannedMap == [n \in ToolName |-> [i \in DOMAIN responses[n] |->
                 IF responses[n][i].ok THEN "ok" ELSE "error"]]
SeededSum == SumFunctionOnSet(seeded, ToolName)
MountMap == [m \in Mount |-> IF m \in mounted THEN "done" ELSE "idle"]
InvokedMap == [c \in Caller |-> Invoked(c)]
InvocationMap == [c \in Caller |-> InvocationOf(c)]

RegistryMap == <<NativeMap, MountMap, mounted>>
AnswersMap  == <<CannedMap, SeededSum>>

\* The real host's variables are these four images and constants.
LEMMA HostStutters ==
    ASSUME UNCHANGED <<RegistryMap, AnswersMap, InvokedMap, InvocationMap>>
    PROVE  UNCHANGED Real!host
BY DEF Real!host, RegistryMap, AnswersMap, NativeMap, MountMap, CannedMap, SeededSum,
       InvokedMap, InvocationMap

\* Its tools and mounts are images of the mock's tools,
LEMMA RegistryKept ==
    ASSUME UNCHANGED tools
    PROVE  UNCHANGED RegistryMap
BY DEF tools, RegistryMap, NativeMap, MountMap

\* its canned answers of the mock's queues,
LEMMA AnswersKept ==
    ASSUME UNCHANGED <<responses, seeded>>
    PROVE  UNCHANGED AnswersMap
BY DEF AnswersMap, CannedMap, SeededSum

\* its log of the mock's record of calls,
LEMMA InvokedKept ==
    ASSUME UNCHANGED recorded
    PROVE  UNCHANGED InvokedMap
BY DEF InvokedMap, Invoked

\* and its invocations of the calls in progress.
LEMMA InvocationKept ==
    ASSUME UNCHANGED call
    PROVE  UNCHANGED InvocationMap
BY DEF InvocationMap, InvocationOf, At, Busy

\* The answers of a queue as the host keeps them.
AsCanned(s) == [i \in DOMAIN s |-> IF s[i].ok THEN "ok" ELSE "error"]

\* The image of one tool's queue, before and after a step.
LEMMA CannedIs ==
    ASSUME NEW n \in ToolName
    PROVE  CannedMap[n] = AsCanned(responses[n]) /\ CannedMap'[n] = AsCanned(responses'[n])
BY DEF CannedMap, AsCanned

\* To append to a queue is to append to its image.
LEMMA CannedAppend ==
    ASSUME NEW s \in Seq(Answer), NEW a \in Answer
    PROVE  AsCanned(Append(s, a)) = Append(AsCanned(s), IF a.ok THEN "ok" ELSE "error")
<1>. DEFINE p == [x \in Answer |-> IF x.ok THEN "ok" ELSE "error"]
            T == {"ok", "error"}
<1>1. Maps(p, Answer, T)
  BY DEF Maps
<1>2. \A z \in Seq(Answer) : AsCanned(z) = Mapped(p, z)
  <2>. TAKE z \in Seq(Answer)
  <2>1. \A i \in DOMAIN z : p[z[i]] = IF z[i].ok THEN "ok" ELSE "error"
    BY LenProperties, ElementOfSeq
  <2>. HIDE DEF p
  <2>. QED
    BY <2>1 DEF AsCanned, Mapped
<1>3. p[a] = IF a.ok THEN "ok" ELSE "error"
  OBVIOUS
<1>. HIDE DEF p, T
<1>4. Mapped(p, Append(s, a)) = Append(Mapped(p, s), p[a])
  BY <1>1, MapAppend
<1>5. Append(s, a) \in Seq(Answer)
  BY AppendProperties
<1>. QED
  BY <1>2, <1>3, <1>4, <1>5

\* To pop a queue is to pop its image.
LEMMA CannedTail ==
    ASSUME NEW s \in Seq(Answer)
    PROVE  /\ AsCanned(s) = << >> <=> s = << >>
           /\ s # << >> => /\ Head(AsCanned(s)) = IF Head(s).ok THEN "ok" ELSE "error"
                           /\ AsCanned(Tail(s)) = Tail(AsCanned(s))
<1>1. PICK n \in Nat : n = Len(s) /\ DOMAIN s = 1..n
  BY LenProperties
<1>2. AsCanned(s) = [i \in 1..n |-> IF s[i].ok THEN "ok" ELSE "error"]
  BY <1>1 DEF AsCanned
<1>3. AsCanned(s) \in Seq({"ok", "error"}) /\ Len(AsCanned(s)) = n
  BY <1>2
<1>4. AsCanned(s) = << >> <=> n = 0
  BY <1>3, EmptySeq
<1>5. s = << >> <=> n = 0
  BY <1>1, EmptySeq
<1>6. ASSUME s # << >>
      PROVE  /\ Head(AsCanned(s)) = IF Head(s).ok THEN "ok" ELSE "error"
             /\ AsCanned(Tail(s)) = Tail(AsCanned(s))
  <2>1. 1 \in 1..n /\ n - 1 \in Nat
    BY <1>1, <1>5, <1>6
  <2>2. Head(AsCanned(s)) = AsCanned(s)[1] /\ Head(s) = s[1]
    BY <1>3, <1>4, <1>5, <1>6, HeadTailProperties
  <2>3. /\ Tail(s) \in Seq(Answer) /\ Len(Tail(s)) = n - 1
        /\ \A i \in 1..(n - 1) : Tail(s)[i] = s[i + 1]
    <3>1. Tail(s) \in Seq(Answer) /\ Len(Tail(s)) = Len(s) - 1
          /\ \A i \in 1..Len(Tail(s)) : Tail(s)[i] = s[i + 1]
      BY <1>6, HeadTailProperties
    <3>. QED
      BY <1>1, <3>1
  <2>4. /\ Tail(AsCanned(s)) \in Seq({"ok", "error"}) /\ Len(Tail(AsCanned(s))) = n - 1
        /\ \A i \in 1..(n - 1) : Tail(AsCanned(s))[i] = AsCanned(s)[i + 1]
    <3>1. /\ Tail(AsCanned(s)) \in Seq({"ok", "error"})
          /\ Len(Tail(AsCanned(s))) = Len(AsCanned(s)) - 1
          /\ \A i \in 1..Len(Tail(AsCanned(s))) : Tail(AsCanned(s))[i] = AsCanned(s)[i + 1]
      BY <1>3, <1>4, <1>5, <1>6, HeadTailProperties
    <3>. QED
      BY <1>3, <3>1
  <2>5. AsCanned(Tail(s)) = [i \in 1..(n - 1) |-> IF Tail(s)[i].ok THEN "ok" ELSE "error"]
    <3>1. DOMAIN Tail(s) = 1..(n - 1)
      BY <2>3, LenProperties
    <3>. QED
      BY <3>1 DEF AsCanned
  <2>6. AsCanned(Tail(s)) \in Seq({"ok", "error"}) /\ Len(AsCanned(Tail(s))) = n - 1
    BY <2>1, <2>5
  <2>7. \A i \in 1..(n - 1) : i + 1 \in 1..n
    BY <2>1
  <2>8. \A i \in 1..(n - 1) : AsCanned(Tail(s))[i] = Tail(AsCanned(s))[i]
    BY <1>2, <2>3, <2>4, <2>5, <2>7
  <2>9. AsCanned(Tail(s)) = Tail(AsCanned(s))
    BY <2>4, <2>6, <2>8, SeqEqual
  <2>. QED
    BY <1>2, <2>1, <2>2, <2>9
<1>. QED
  BY <1>4, <1>5, <1>6

\* Recording a call of a tool adds it to what the host logged.
LEMMA InvokedByRecord ==
    ASSUME TypeInv, NEW c \in Caller, NEW q \in Queue, Begins(c, q)
    PROVE  InvokedMap' = IF q \in ToolName
                         THEN [InvokedMap EXCEPT ![c] = Append(InvokedMap[c], q)]
                         ELSE InvokedMap
<1>. DEFINE part(x) == IF x \in ToolName THEN <<x>> ELSE << >>
            p == [x \in Queue |-> part(x)]
<1>1. Maps(p, Queue, Seq(ToolName)) /\ p[q] = part(q)
  BY DEF Maps
<1>2. ASSUME NEW z \in Seq(Queue)
      PROVE  [i \in DOMAIN z |-> part(z[i])] = Mapped(p, z)
  <2>1. \A i \in DOMAIN z : p[z[i]] = part(z[i])
    BY LenProperties, ElementOfSeq
  <2>. QED
    BY <2>1 DEF Mapped
<1>3. recorded[c] \in Seq(Queue) /\ recorded'[c] \in Seq(Queue)
      /\ recorded'[c] = Append(recorded[c], q)
  BY DEF Begins, TypeInv
<1>4. Invoked(c) = FlattenSeq(Mapped(p, recorded[c]))
  <2>1. Invoked(c) = FlattenSeq([i \in DOMAIN recorded[c] |-> part(recorded[c][i])])
    BY DEF Invoked
  <2>. HIDE DEF p, part
  <2>. QED
    BY <1>2, <1>3, <2>1
<1>5. Invoked(c)' = FlattenSeq(Mapped(p, recorded'[c]))
  <2>1. Invoked(c)' = FlattenSeq([i \in DOMAIN recorded'[c] |-> part(recorded'[c][i])])
    BY DEF Invoked
  <2>. HIDE DEF p, part
  <2>. QED
    BY <1>2, <1>3, <2>1
<1>6. \A d \in Caller : d # c => Invoked(d)' = Invoked(d)
  BY DEF Begins, Invoked
<1>. HIDE DEF p
<1>7. Mapped(p, recorded[c]) \in Seq(Seq(ToolName))
      /\ Mapped(p, recorded'[c]) = Append(Mapped(p, recorded[c]), p[q])
  BY <1>1, <1>3, MapAppend
<1>8. part(q) \in Seq(ToolName)
  OBVIOUS
<1>9. Invoked(c) \in Seq(ToolName) /\ Invoked(c)' = Invoked(c) \o part(q)
  BY <1>1, <1>4, <1>5, <1>7, <1>8, FlattenAppend
<1>10. Invoked(c)' = IF q \in ToolName THEN Append(Invoked(c), q) ELSE Invoked(c)
  <2>1. CASE q \in ToolName
    BY <1>9, <2>1
  <2>2. CASE q \notin ToolName
    BY <1>9, <2>2
  <2>. QED
    BY <2>1, <2>2
<1>. HIDE DEF part
<1>. QED
  BY <1>6, <1>10 DEF InvokedMap

\* What the host's state says of a caller is what its call is at.
NotInvoking == [step |-> "none", name |-> "", result |-> "unknown"]
Seen(a) == IF a = None THEN "unknown" ELSE IF a.ok THEN "ok" ELSE "error"
Shown(k) ==
    IF k.queue \notin ToolName \/ k.step \in {"idle", "opening"} THEN NotInvoking
    ELSE [step |-> IF k.step = "recorded" THEN "logged"
                   ELSE IF k.step = "done" THEN "answered" ELSE k.step,
          name |-> k.queue, result |-> Seen(k.answer)]

\* The image of one call, before and after a step.
LEMMA InvocationIs ==
    ASSUME NEW c \in Caller
    PROVE  InvocationOf(c) = Shown(call[c]) /\ InvocationOf(c)' = Shown(call'[c])
<1>. DEFINE Step(k) == CASE k.step = "recorded" -> "logged" [] k.step = "done" -> "answered"
                         [] OTHER -> k.step
            Outcome(k) == CASE k.answer = None -> "unknown" [] k.answer.ok -> "ok"
                            [] OTHER -> "error"
<1>1. ASSUME NEW k
      PROVE  /\ Step(k) = IF k.step = "recorded" THEN "logged"
                          ELSE IF k.step = "done" THEN "answered" ELSE k.step
             /\ Outcome(k) = Seen(k.answer)
  BY NoneTyped DEF Seen
<1>2. InvocationOf(c) = IF call[c].queue \notin ToolName \/ ~ Busy(c) THEN NotInvoking
                        ELSE [step |-> Step(call[c]), name |-> call[c].queue,
                              result |-> Outcome(call[c])]
  BY DEF InvocationOf, NotInvoking, At
<1>3. InvocationOf(c)' = IF call'[c].queue \notin ToolName \/ ~ Busy(c)' THEN NotInvoking
                         ELSE [step |-> Step(call'[c]), name |-> call'[c].queue,
                               result |-> Outcome(call'[c])]
  BY DEF InvocationOf, NotInvoking, At
<1>. HIDE DEF Step, Outcome
<1>. QED
  BY <1>1, <1>2, <1>3 DEF Shown, Busy, At

\* A step of one caller's call changes that caller's invocation only.
LEMMA InvocationChanges ==
    ASSUME NEW c \in Caller, NEW k, Shown(call'[c]) = k,
           \A d \in Caller : d # c => call'[d] = call[d]
    PROVE  InvocationMap' = [InvocationMap EXCEPT ![c] = k] /\ InvocationMap[c] = Shown(call[c])
<1>1. \A d \in Caller : InvocationOf(d)' = IF d = c THEN k ELSE InvocationOf(d)
  BY InvocationIs
<1>2. InvocationMap' = [d \in Caller |-> IF d = c THEN k ELSE InvocationOf(d)]
  BY <1>1 DEF InvocationMap
<1>. QED
  BY <1>2, InvocationIs DEF InvocationMap

\* One field of an invocation changed, or two.
WithStep(k, t) == [k EXCEPT !.step = t]
WithResult(k, t, u) == [k EXCEPT !.step = t, !.result = u]
Logged(n) == [NotInvoking EXCEPT !.step = "logged", !.name = n]

\* The host's updates of an invocation, field by field.
LEMMA InvocationFields ==
    ASSUME NEW s, NEW n, NEW r, NEW t, NEW u,
           NEW k, k = [step |-> s, name |-> n, result |-> r]
    PROVE  /\ WithStep(k, t) = [step |-> t, name |-> n, result |-> r]
           /\ WithResult(k, t, u) = [step |-> t, name |-> n, result |-> u]
<1>. DEFINE R == [step : {s, t}, name : {n, u}, result : {r, u}]
<1>1. k \in R /\ k.step = s /\ k.name = n /\ k.result = r
  OBVIOUS
<1>2. /\ WithStep(k, t) \in R /\ WithStep(k, t).step = t /\ WithStep(k, t).name = n
      /\ WithStep(k, t).result = r
  BY <1>1 DEF WithStep
<1>3. /\ WithResult(k, t, u) \in R /\ WithResult(k, t, u).step = t
      /\ WithResult(k, t, u).name = n /\ WithResult(k, t, u).result = u
  BY <1>1 DEF WithResult
<1>. QED
  BY <1>2, <1>3

\* An invocation that was just logged.
LEMMA LoggedFields ==
    ASSUME NEW n
    PROVE  Logged(n) = [step |-> "logged", name |-> n, result |-> "unknown"]
<1>. DEFINE R == [step : {"none", "logged"}, name : {"", n}, result : {"unknown"}]
<1>1. NotInvoking \in R /\ NotInvoking.result = "unknown"
  BY DEF NotInvoking
<1>2. Logged(n) \in R /\ Logged(n).step = "logged" /\ Logged(n).name = n
      /\ Logged(n).result = "unknown"
  BY <1>1 DEF Logged
<1>. QED
  BY <1>2

\* A step of the real host.
RealStep == Real!HostNext \/ \E c \in Caller : Real!InvokeNext(c)

\* enqueue: for a tool it is the host's, for a method or a session it is not seen.
LEMMA HostEnqueue ==
    ASSUME TypeInv, NEW q \in Seedable, NEW ok \in BOOLEAN, Enqueue(q, ok)
    PROVE  RealStep \/ UNCHANGED Real!host
<1>. DEFINE a == [id |-> seeded[q] + 1, ok |-> ok]
            result == IF ok THEN "ok" ELSE "error"
<1>1. UNCHANGED RegistryMap /\ UNCHANGED InvokedMap /\ UNCHANGED InvocationMap
  BY RegistryKept, InvokedKept, InvocationKept DEF Enqueue
<1>2. /\ q \in Queue /\ seeded \in [Queue -> Nat] /\ responses \in [Queue -> Seq(Answer)]
      /\ responses[q] \in Seq(Answer) /\ seeded' \in [Queue -> Nat]
      /\ seeded' = [seeded EXCEPT ![q] = seeded[q] + 1]
      /\ responses' = [responses EXCEPT ![q] = Append(responses[q], a)]
  BY QueueFacts, MocksAssumption DEF Enqueue, TypeInv
<1>3. a \in Answer /\ a.ok = ok
  <2>1. seeded[q] + 1 \in 0..MaxSeeded
    BY <1>2, SeededBelowSum, MocksAssumption DEF Enqueue
  <2>. QED
    BY <2>1 DEF Answer
<1>. HIDE DEF a
<1>4. CASE q \in ToolName
  <2>1. CannedMap' = [CannedMap EXCEPT ![q] = Append(CannedMap[q], result)]
    <3>1. \A n \in ToolName : responses'[n] = IF n = q THEN Append(responses[q], a)
                                              ELSE responses[n]
      BY <1>2, QueueFacts
    <3>2. AsCanned(responses'[q]) = Append(AsCanned(responses[q]), result)
      BY <1>2, <1>3, <1>4, <3>1, CannedAppend
    <3>3. \A n \in ToolName : CannedMap'[n] = IF n = q THEN Append(CannedMap[q], result)
                                              ELSE CannedMap[n]
      BY <1>4, <3>1, <3>2, CannedIs
    <3>4. /\ CannedMap = [n \in ToolName |-> CannedMap[n]]
          /\ CannedMap' = [n \in ToolName |-> CannedMap'[n]]
      BY DEF CannedMap
    <3>. QED
      BY <1>4, <3>3, <3>4
  <2>2. /\ SeededSum' = SeededSum + 1 /\ SeededSum < MaxSeeded
    <3>. DEFINE rest == ToolName \ {q}
    <3>1. /\ SumFunctionOnSet(seeded, ToolName) = seeded[q] + SumFunctionOnSet(seeded, rest)
          /\ SumFunctionOnSet(seeded', ToolName) = seeded'[q] + SumFunctionOnSet(seeded', rest)
      BY <1>2, <1>4, ToolSum
    <3>2. IsFiniteSet(rest) /\ rest \in SUBSET Queue /\ \A n \in rest : seeded'[n] = seeded[n]
      BY <1>2, QueueFacts, FS_Subset
    <3>3. SumFunctionOnSet(seeded', rest) = SumFunctionOnSet(seeded, rest)
      BY <3>2, SumAgree
    <3>4. SumFunctionOnSet(seeded, rest) \in Nat
      BY <1>2, <3>2, SumRemove
    <3>5. SumFunctionOnSet(seeded, ToolName) <= SumFunctionOnSet(seeded, Queue)
      BY <1>2, SeededParts
    <3>6. seeded[q] \in Nat /\ seeded'[q] = seeded[q] + 1
      BY <1>2
    <3>7. SumFunctionOnSet(seeded, Queue) \in Nat /\ SumFunctionOnSet(seeded, Queue) < MaxSeeded
      BY <1>2, SeededBelowSum DEF Enqueue
    <3>8. SumFunctionOnSet(seeded', ToolName) = SumFunctionOnSet(seeded, ToolName) + 1
      BY <3>1, <3>3, <3>4, <3>6
    <3>9. SumFunctionOnSet(seeded, ToolName) < MaxSeeded
      <4>1. SumFunctionOnSet(seeded, ToolName) \in Nat
        BY <3>1, <3>4, <3>6
      <4>. QED
        BY <3>5, <3>7, <4>1, MocksAssumption
    <3>. QED
      BY <3>8, <3>9 DEF SeededSum
  <2>3. Real!Enqueue(q, result)
    BY <1>1, <2>1, <2>2
    DEF Real!Enqueue, RegistryMap, NativeMap, MountMap, CannedMap, SeededSum, InvokedMap,
        InvocationMap
  <2>. QED
    BY <1>4, <2>3 DEF RealStep, Real!HostNext
<1>5. CASE q \notin ToolName
  <2>1. \A n \in ToolName : responses'[n] = responses[n] /\ seeded'[n] = seeded[n]
    BY <1>2, <1>5, QueueFacts
  <2>2. CannedMap' = CannedMap
    BY <2>1 DEF CannedMap
  <2>3. SeededSum' = SeededSum
    BY <2>1, QueueFacts, SumAgree DEF SeededSum
  <2>. QED
    BY <1>1, <2>2, <2>3, HostStutters DEF AnswersMap
<1>. QED
  BY <1>4, <1>5

\* register_native is the host's.
LEMMA HostRegisters ==
    ASSUME NEW n \in ToolName, RegisterNative(n)
    PROVE  RealStep
<1>1. UNCHANGED AnswersMap /\ UNCHANGED InvokedMap /\ UNCHANGED InvocationMap
      /\ UNCHANGED MountMap /\ mounted' = mounted
  BY AnswersKept, InvokedKept, InvocationKept DEF RegisterNative, MountMap
<1>2. NativeMap' = [NativeMap EXCEPT ![n] = "local"]
  BY DEF RegisterNative, NativeMap
<1>3. Real!RegisterNative(n)
  BY <1>1, <1>2
  DEF Real!RegisterNative, AnswersMap, NativeMap, MountMap, CannedMap, SeededSum, InvokedMap,
      InvocationMap
<1>. QED
  BY <1>3 DEF RealStep, Real!HostNext

\* A server that is mounted already is mounted again without a trace.
LEMMA HostMounts ==
    ASSUME TypeInv, NEW m \in Mount, MountMcp(m)
    PROVE  RealStep \/ UNCHANGED Real!host
<1>1. UNCHANGED AnswersMap /\ UNCHANGED InvokedMap /\ UNCHANGED InvocationMap
      /\ UNCHANGED NativeMap
  BY AnswersKept, InvokedKept, InvocationKept DEF MountMcp, NativeMap
<1>2. CASE m \notin mounted
  <2>1. /\ MountMap[m] = "idle" /\ MountMap' = [MountMap EXCEPT ![m] = "done"]
        /\ mounted' = mounted \cup {m} /\ [k \in Mount |-> "sse"][m] # "stdio"
    BY <1>2 DEF MountMcp, MountMap
  <2>2. Real!MountStart(m)
    BY <1>1, <2>1
    DEF Real!MountStart, Real!MountGoto, AnswersMap, NativeMap, MountMap, CannedMap, SeededSum,
        InvokedMap, InvocationMap
  <2>. QED
    BY <2>2 DEF RealStep, Real!HostNext
<1>3. CASE m \in mounted
  <2>1. mounted' = mounted
    BY <1>3 DEF MountMcp
  <2>2. MountMap' = MountMap
    BY <2>1 DEF MountMap
  <2>. QED
    BY <1>1, <2>1, <2>2, HostStutters DEF RegistryMap
<1>. QED
  BY <1>2, <1>3

\* A tool's call that is recorded is an invocation that is logged; others are not seen.
LEMMA HostLogs ==
    ASSUME TypeInv, NEW c \in Caller, NEW q \in Queue, Record(c, q)
    PROVE  RealStep \/ UNCHANGED Real!host
<1>1. UNCHANGED RegistryMap /\ UNCHANGED AnswersMap
  BY RegistryKept, AnswersKept DEF Record
<1>2. Begins(c, q) /\ call[c].step = "idle"
  BY RecordBegins DEF Record, At
<1>3. /\ call'[c].step = "recorded" /\ call'[c].queue = q /\ call'[c].answer = None
      /\ \A d \in Caller : d # c => call'[d] = call[d]
  BY <1>2 DEF Begins
<1>4. Shown(call[c]) = NotInvoking
  BY <1>2 DEF Shown
<1>5. CASE q \in ToolName
  <2>1. Shown(call'[c]) = [step |-> "logged", name |-> q, result |-> "unknown"]
    BY <1>3, <1>5 DEF Shown, Seen
  <2>2. /\ InvocationMap[c] = NotInvoking
        /\ InvocationMap' = [InvocationMap EXCEPT
               ![c] = [step |-> "logged", name |-> q, result |-> "unknown"]]
    BY <1>3, <1>4, <2>1, InvocationChanges
  <2>3. [NotInvoking EXCEPT !.step = "logged", !.name = q]
          = [step |-> "logged", name |-> q, result |-> "unknown"]
    BY LoggedFields, Zenon DEF Logged
  <2>4. InvokedMap' = [InvokedMap EXCEPT ![c] = Append(InvokedMap[c], q)]
    BY <1>2, <1>5, InvokedByRecord
  <2>5. Real!NoInvocation = NotInvoking
    BY DEF Real!NoInvocation, NotInvoking
  <2>6. InvocationMap[c].step = "none"
    <3>1. NotInvoking.step = "none"
      BY DEF NotInvoking
    <3>. QED
      BY <2>2, <3>1, Zenon
  <2>7. Real!LogInvocation(c, q)
    BY <1>1, <2>2, <2>3, <2>4, <2>5, <2>6
    DEF Real!LogInvocation, Real!InInvoke, RegistryMap, AnswersMap, NativeMap, MountMap,
        CannedMap, SeededSum, InvokedMap, InvocationMap
  <2>. QED
    BY <1>5, <2>7 DEF RealStep, Real!InvokeNext
<1>6. CASE q \notin ToolName
  <2>1. Shown(call'[c]) = NotInvoking
    BY <1>3, <1>6 DEF Shown
  <2>2. /\ InvocationMap[c] = NotInvoking
        /\ InvocationMap' = [InvocationMap EXCEPT ![c] = NotInvoking]
    BY <1>3, <1>4, <2>1, InvocationChanges
  <2>3. InvocationMap' = InvocationMap
    BY <2>2 DEF InvocationMap
  <2>4. InvokedMap' = InvokedMap
    BY <1>2, <1>6, InvokedByRecord
  <2>. QED
    BY <1>1, <2>3, <2>4, HostStutters
<1>. QED
  BY <1>5, <1>6

\* pop_front of a tool's queue is the host's canned answer, or the lack of one.
LEMMA HostAnswers ==
    ASSUME TypeInv, AnswersInv, NEW c \in Caller, PopFront(c)
    PROVE  RealStep \/ UNCHANGED Real!host
<1>. DEFINE q == call[c].queue
            canned == Head(responses[q])
            before == [step |-> "logged", name |-> q, result |-> "unknown"]
<1>1. /\ UNCHANGED RegistryMap /\ UNCHANGED InvokedMap /\ SeededSum' = SeededSum
      /\ call[c].step = "recorded" /\ call[c].answer = None /\ q \in Queue
      /\ responses \in [Queue -> Seq(Answer)] /\ responses[q] \in Seq(Answer)
  BY RegistryKept, InvokedKept DEF PopFront, At, SeededSum, TypeInv, CallState
<1>2. q \in ToolName => Shown(call[c]) = before
  BY <1>1 DEF Shown, Seen
<1>3. InvocationMap[c] = Shown(call[c])
  BY InvocationIs DEF InvocationMap
<1>4. CASE q \notin ToolName
  <2>1. Shown(call[c]) = NotInvoking
    BY <1>4 DEF Shown
  <2>2. Shown(call'[c]) = NotInvoking /\ \A d \in Caller : d # c => call'[d] = call[d]
    BY <1>4, PopCases, NoneTyped, QueueFacts DEF Moves, Gives, Shown
  <2>3. InvocationMap' = [InvocationMap EXCEPT ![c] = NotInvoking]
    BY <2>2, InvocationChanges
  <2>4. InvocationMap' = InvocationMap
    BY <1>3, <2>1, <2>3 DEF InvocationMap
  <2>5. \A n \in ToolName : responses'[n] = responses[n]
    BY <1>1, <1>4, PopCases, QueueFacts
  <2>6. CannedMap' = CannedMap
    BY <2>5 DEF CannedMap
  <2>. QED
    BY <1>1, <2>4, <2>6, HostStutters DEF AnswersMap
<1>5. CASE q \in ToolName /\ responses[q] = << >>
  <2>1. Moves(c, "lookup", None) /\ responses' = responses
    BY <1>5, PopCases
  <2>2. Shown(call'[c]) = [step |-> "lookup", name |-> q, result |-> "unknown"]
        /\ \A d \in Caller : d # c => call'[d] = call[d]
    BY <1>5, <2>1 DEF Moves, Shown, Seen
  <2>3. WithStep(before, "lookup") = [step |-> "lookup", name |-> q, result |-> "unknown"]
    BY InvocationFields
  <2>4. InvocationMap' = [InvocationMap EXCEPT ![c] = WithStep(InvocationMap[c], "lookup")]
    BY <1>2, <1>3, <1>5, <2>2, <2>3, InvocationChanges
  <2>5. /\ InvocationMap[c].step = "logged" /\ InvocationMap[c].name = q
        /\ CannedMap' = CannedMap /\ CannedMap[q] = << >>
    <3>1. before.step = "logged" /\ before.name = q
      OBVIOUS
    <3>2. AsCanned(responses[q]) = << >>
      BY <1>1, <1>5, CannedTail
    <3>. QED
      BY <1>2, <1>3, <1>5, <2>1, <3>1, <3>2, CannedIs DEF CannedMap
  <2>6. Real!TakeCanned(c)
    BY <1>1, <2>4, <2>5
    DEF Real!TakeCanned, Real!InInvoke, RegistryMap, NativeMap, MountMap,
        CannedMap, SeededSum, InvokedMap, InvocationMap, WithStep
  <2>. QED
    BY <2>6 DEF RealStep, Real!InvokeNext
<1>6. CASE q \in ToolName /\ responses[q] # << >>
  <2>. DEFINE result == IF canned.ok THEN "ok" ELSE "error"
  <2>1. /\ Moves(c, "done", canned) /\ canned \in Answer
        /\ responses' = [responses EXCEPT ![q] = Tail(responses[q])]
    BY <1>6, PopCases, QueueFacts
  <2>2. canned # None
    <3>1. QueueInv(q)
      BY <1>1 DEF AnswersInv
    <3>2. PICK k \in Nat : k = Len(responses[q])
      BY <1>1, LenProperties
    <3>3. 1 \in 1..Len(responses[q])
      BY <1>1, <1>6, <3>2, EmptySeq
    <3>4. Popped(q) \in Nat /\ responses[q][1].id = Popped(q) + 1
      BY <3>1, <3>3 DEF QueueInv
    <3>5. canned = responses[q][1]
      BY <1>1, <1>6, HeadTailProperties
    <3>6. canned.id # 0
      BY <3>4, <3>5
    <3>. QED
      BY <3>6, NoneTyped
  <2>. HIDE DEF canned
  <2>3. Shown(call'[c]) = [step |-> "answered", name |-> q, result |-> result]
        /\ \A d \in Caller : d # c => call'[d] = call[d]
    BY <1>6, <2>1, <2>2 DEF Moves, Shown, Seen
  <2>4. WithResult(before, "answered", result)
          = [step |-> "answered", name |-> q, result |-> result]
    BY InvocationFields
  <2>5. InvocationMap' = [InvocationMap EXCEPT
            ![c] = WithResult(InvocationMap[c], "answered", result)]
    BY <1>2, <1>3, <1>6, <2>3, <2>4, InvocationChanges
  <2>6. /\ InvocationMap[c].step = "logged" /\ InvocationMap[c].name = q
        /\ CannedMap[q] # << >> /\ Head(CannedMap[q]) = result
    <3>1. before.step = "logged" /\ before.name = q
      OBVIOUS
    <3>2. AsCanned(responses[q]) # << >> /\ Head(AsCanned(responses[q])) = result
      BY <1>1, <1>6, CannedTail DEF canned
    <3>. QED
      BY <1>2, <1>3, <1>6, <3>1, <3>2, CannedIs
  <2>7. CannedMap' = [CannedMap EXCEPT ![q] = Tail(CannedMap[q])]
    <3>1. \A n \in ToolName : responses'[n] = IF n = q THEN Tail(responses[q]) ELSE responses[n]
      BY <1>1, <2>1, QueueFacts
    <3>2. AsCanned(responses'[q]) = Tail(AsCanned(responses[q]))
      BY <1>1, <1>6, <3>1, CannedTail
    <3>3. \A n \in ToolName : CannedMap'[n] = IF n = q THEN Tail(CannedMap[q]) ELSE CannedMap[n]
      BY <1>6, <3>1, <3>2, CannedIs
    <3>4. /\ CannedMap = [n \in ToolName |-> CannedMap[n]]
          /\ CannedMap' = [n \in ToolName |-> CannedMap'[n]]
      BY DEF CannedMap
    <3>. QED
      BY <1>6, <3>3, <3>4
  <2>8. /\ InvocationMap' = [InvocationMap EXCEPT ![c] =
               WithResult(InvocationMap[c], "answered", Head(CannedMap[InvocationMap[c].name]))]
        /\ CannedMap' = [CannedMap EXCEPT
               ![InvocationMap[c].name] = Tail(CannedMap[InvocationMap[c].name])]
    BY <2>5, <2>6, <2>7, Zenon
  <2>9. InvocationMap[c].step = "logged" /\ CannedMap[InvocationMap[c].name] # << >>
    BY <2>6
  <2>. HIDE DEF q, result
  <2>10. Real!TakeCanned(c)
    BY <1>1, <2>8, <2>9
    DEF Real!TakeCanned, Real!InInvoke, RegistryMap, NativeMap, MountMap,
        CannedMap, SeededSum, InvokedMap, InvocationMap, WithResult
  <2>. QED
    BY <2>10 DEF RealStep, Real!InvokeNext
<1>. QED
  BY <1>4, <1>5, <1>6

\* A registered tool is called, another is unknown, as in the host.
LEMMA HostLooksUp ==
    ASSUME TypeInv, NEW c \in Caller, LookUp(c)
    PROVE  RealStep
<1>. DEFINE q == call[c].queue
            before == [step |-> "lookup", name |-> q, result |-> "unknown"]
<1>1. /\ UNCHANGED RegistryMap /\ UNCHANGED AnswersMap /\ UNCHANGED InvokedMap
      /\ call[c].step = "lookup" /\ call[c].answer = None /\ q \in ToolName
      /\ Moves(c, IF q \in native THEN "calling" ELSE "done", None)
  BY LaterCases, RegistryKept, AnswersKept, InvokedKept
<1>2. InvocationMap[c] = before
  <2>1. Shown(call[c]) = before
    BY <1>1 DEF Shown, Seen
  <2>. QED
    BY <2>1, InvocationIs DEF InvocationMap
<1>3. InvocationMap[c].step = "lookup" /\ InvocationMap[c].name = q
  <2>1. before.step = "lookup" /\ before.name = q
    OBVIOUS
  <2>. QED
    BY <1>2, <2>1
<1>4. CASE q \in native
  <2>1. Shown(call'[c]) = [step |-> "calling", name |-> q, result |-> "unknown"]
        /\ \A d \in Caller : d # c => call'[d] = call[d]
    BY <1>1, <1>4 DEF Moves, Shown, Seen
  <2>2. WithStep(before, "calling") = [step |-> "calling", name |-> q, result |-> "unknown"]
    BY InvocationFields
  <2>3. InvocationMap' = [InvocationMap EXCEPT ![c] = WithStep(InvocationMap[c], "calling")]
    BY <1>2, <2>1, <2>2, InvocationChanges
  <2>4. NativeMap[InvocationMap[c].name] # "absent"
    BY <1>1, <1>3, <1>4 DEF NativeMap
  <2>5. Real!LookUp(c)
    BY <1>1, <1>3, <2>3, <2>4
    DEF Real!LookUp, Real!InInvoke, RegistryMap, AnswersMap, NativeMap, MountMap,
        CannedMap, SeededSum, InvokedMap, InvocationMap, WithStep
  <2>. QED
    BY <2>5 DEF RealStep, Real!InvokeNext
<1>5. CASE q \notin native
  <2>1. Shown(call'[c]) = [step |-> "answered", name |-> q, result |-> "unknown"]
        /\ \A d \in Caller : d # c => call'[d] = call[d]
    BY <1>1, <1>5 DEF Moves, Shown, Seen
  <2>2. WithResult(before, "answered", "unknown")
          = [step |-> "answered", name |-> q, result |-> "unknown"]
    BY InvocationFields
  <2>3. InvocationMap' = [InvocationMap EXCEPT
            ![c] = WithResult(InvocationMap[c], "answered", "unknown")]
    BY <1>2, <2>1, <2>2, InvocationChanges
  <2>4. NativeMap[InvocationMap[c].name] = "absent"
    BY <1>1, <1>3, <1>5 DEF NativeMap
  <2>5. Real!LookUp(c)
    BY <1>1, <1>3, <2>3, <2>4
    DEF Real!LookUp, Real!InInvoke, RegistryMap, AnswersMap, NativeMap, MountMap,
        CannedMap, SeededSum, InvokedMap, InvocationMap, WithResult
  <2>. QED
    BY <2>5 DEF RealStep, Real!InvokeNext
<1>. QED
  BY <1>4, <1>5

\* A registered tool of the mock answers, and its answer is "ok".
LEMMA HostCalls ==
    ASSUME TypeInv, NEW c \in Caller, CannedToolCall(c)
    PROVE  RealStep
<1>. DEFINE q == call[c].queue
            before == [step |-> "calling", name |-> q, result |-> "unknown"]
<1>1. /\ UNCHANGED RegistryMap /\ UNCHANGED AnswersMap /\ UNCHANGED InvokedMap
      /\ call[c].step = "calling" /\ call[c].answer = None /\ q \in ToolName
      /\ Moves(c, "done", [id |-> 0, ok |-> TRUE])
  BY LaterCases, RegistryKept, AnswersKept, InvokedKept
<1>2. InvocationMap[c] = before
  <2>1. Shown(call[c]) = before
    BY <1>1 DEF Shown, Seen
  <2>. QED
    BY <2>1, InvocationIs DEF InvocationMap
<1>3. InvocationMap[c].step = "calling"
  <2>1. before.step = "calling"
    OBVIOUS
  <2>. QED
    BY <1>2, <2>1
<1>4. Shown(call'[c]) = [step |-> "answered", name |-> q, result |-> "ok"]
      /\ \A d \in Caller : d # c => call'[d] = call[d]
  BY <1>1, NoneTyped DEF Moves, Shown, Seen
<1>5. WithResult(before, "answered", "ok")
        = [step |-> "answered", name |-> q, result |-> "ok"]
  BY InvocationFields
<1>6. InvocationMap' = [InvocationMap EXCEPT
          ![c] = WithResult(InvocationMap[c], "answered", "ok")]
  BY <1>2, <1>4, <1>5, InvocationChanges
<1>7. Real!ToolReturns(c)
  BY <1>1, <1>3, <1>6
  DEF Real!ToolReturns, Real!InInvoke, RegistryMap, AnswersMap, NativeMap, MountMap,
      CannedMap, SeededSum, InvokedMap, InvocationMap, WithResult
<1>. QED
  BY <1>7 DEF RealStep, Real!InvokeNext

\* A tool's call that returns is an invocation whose result is delivered.
LEMMA HostReturns ==
    ASSUME TypeInv, NEW c \in Caller, Return(c)
    PROVE  RealStep
<1>1. /\ UNCHANGED RegistryMap /\ UNCHANGED AnswersMap /\ UNCHANGED InvokedMap
      /\ call'[c] = Idle /\ \A d \in Caller : d # c => call'[d] = call[d]
  BY LaterCases, RegistryKept, AnswersKept, InvokedKept DEF Gives
<1>2. InvocationMap' = [InvocationMap EXCEPT ![c] = NotInvoking]
  BY <1>1, NoneTyped, InvocationChanges DEF Shown
<1>3. Real!EndInvoke(c)
  BY <1>1, <1>2
  DEF Real!EndInvoke, Real!NoInvocation, NotInvoking, RegistryMap, AnswersMap, NativeMap,
      MountMap, CannedMap, SeededSum, InvokedMap, InvocationMap
<1>. QED
  BY <1>3 DEF RealStep, Real!InvokeNext

\* What a host does not see: sessions and their usage.
LEMMA HostIgnores ==
    ASSUME TypeInv, NEW c \in Caller, OpenSession(c) \/ CloneTemplate(c) \/ AddUsage(c)
    PROVE  UNCHANGED Real!host
<1>1. /\ UNCHANGED RegistryMap /\ UNCHANGED AnswersMap /\ UNCHANGED InvokedMap
  BY RegistryKept, AnswersKept, InvokedKept DEF OpenSession, CloneTemplate, AddUsage
<1>2. /\ call[c].queue \notin ToolName \/ call[c].step \in {"idle", "opening"}
      /\ call'[c].queue \notin ToolName \/ call'[c].step \in {"idle", "opening"}
      /\ \A d \in Caller : d # c => call'[d] = call[d]
  BY LaterCases, QueueFacts, NoneTyped DEF Moves, Gives
<1>3. Shown(call[c]) = NotInvoking /\ Shown(call'[c]) = NotInvoking
  BY <1>2 DEF Shown
<1>4. InvocationMap' = [InvocationMap EXCEPT ![c] = NotInvoking] /\ InvocationMap[c] = NotInvoking
  BY <1>2, <1>3, InvocationChanges
<1>5. InvocationMap' = InvocationMap
  BY <1>4 DEF InvocationMap
<1>. QED
  BY <1>1, <1>5, HostStutters

\* Every step of the mocks is a step of the host or not seen by it.
LEMMA HostByStep ==
    ASSUME TypeInv, AnswersInv, [Next]_vars
    PROVE  RealStep \/ UNCHANGED Real!host
<1>1. CASE SetSessionTemplate
  BY <1>1, RegistryKept, AnswersKept, InvokedKept, InvocationKept, HostStutters
  DEF SetSessionTemplate
<1>2. CASE UNCHANGED vars
  BY <1>2, RegistryKept, AnswersKept, InvokedKept, InvocationKept, HostStutters DEF vars
<1>. QED
  BY <1>1, <1>2, HostEnqueue, HostRegisters, HostMounts, HostLogs, HostAnswers, HostLooksUp,
     HostCalls, HostReturns, HostIgnores
  DEF Next

\* The mock host starts as a host without tools, mounts, answers and invocations.
LEMMA HostStarts ==
    ASSUME Init
    PROVE  Real!HostInit
<1>1. /\ NativeMap = [n \in ToolName |-> "absent"] /\ MountMap = [m \in Mount |-> "idle"]
      /\ mounted = {}
  BY DEF Init, NativeMap, MountMap
<1>2. CannedMap = [n \in ToolName |-> << >>]
  <2>1. ASSUME NEW n \in ToolName PROVE CannedMap[n] = << >>
    <3>1. responses[n] = << >> /\ << >> \in Seq(Answer)
      BY <2>1, QueueFacts DEF Init
    <3>. QED
      BY <3>1, CannedIs, CannedTail
  <2>2. CannedMap = [n \in ToolName |-> CannedMap[n]]
    BY DEF CannedMap
  <2>. QED
    BY <2>1, <2>2
<1>3. SeededSum = 0
  <2>. DEFINE zero == [q \in Queue |-> 0]
  <2>1. seeded = zero /\ zero \in [Queue -> Nat]
    BY DEF Init
  <2>2. SumFunctionOnSet(zero, ToolName) = 0
    BY QueueFacts, SumOfZeros
  <2>. QED
    BY <2>1, <2>2 DEF SeededSum
<1>4. InvokedMap = [c \in Caller |-> << >>]
  <2>1. ASSUME NEW c \in Caller PROVE Invoked(c) = << >>
    <3>1. recorded[c] = << >>
      BY DEF Init
    <3>2. [i \in DOMAIN << >> |-> IF << >>[i] \in ToolName THEN << << >>[i]>> ELSE << >>] = << >>
      OBVIOUS
    <3>3. FlattenSeq(<< >>) = << >>
      BY EmptySeq DEF FlattenSeq
    <3>. QED
      BY <3>1, <3>2, <3>3 DEF Invoked
  <2>. QED
    BY <2>1 DEF InvokedMap
<1>5. InvocationMap = [c \in Caller |-> NotInvoking]
  <2>1. \A c \in Caller : Shown(call[c]) = NotInvoking
    BY NoneTyped DEF Init, Shown
  <2>. QED
    BY <2>1, InvocationIs DEF InvocationMap
<1>. QED
  BY <1>1, <1>2, <1>3, <1>4, <1>5
  DEF Real!HostInit, Real!NoInvocation, NotInvoking, NativeMap, MountMap, CannedMap, SeededSum,
      InvokedMap, InvocationMap

\* MockToolHost implements AdkToolHost without MCP connections: each section of the
\* mock is a section of the real host or leaves the host as it is, so that a detector
\* tested against the mock sees nothing that the real host does not do.
THEOREM MockImplementsRealHost == Spec => MockImplementsHost
<1>1. Init => Real!HostInit
  BY HostStarts
<1>2. TypeInv /\ AnswersInv /\ [Next]_vars =>
         [Real!HostNext \/ \E c \in Caller : Real!InvokeNext(c)]_(Real!host)
  BY HostByStep DEF RealStep
<1>. QED
  BY <1>1, <1>2, TypeInit, TypeByStep, AnswersInit, AnswersByStep, PTL
  DEF Spec, MockImplementsHost, Real!HostSpec
=============================================================================
