--------------------------- MODULE DetectorProofs ---------------------------
(***************************************************************************)
(* What Detectors promises, for every set of requests, timeout and number    *)
(* of files: the types, one late request, the order of the returns, the      *)
(* schemas, and what an Ok of llm-toy means.                                 *)
(***************************************************************************)
EXTENDS Detectors, DataLemmas, TLAPS

-----------------------------------------------------------------------------
(* Types                                                                   *)

\* What the registry passes to the detector.
Params(id) == StripEnabled(request.section[id])
Item(id) == [id |-> id, params |-> Params(id)]
Items == {Item(id) : id \in Id}
Result == [id : Id, outcome : Outcome, findings : Seq(Finding)]

ToyBusy == step \in {"next", "read", "ask"}

TypeInv ==
    /\ request \in Requests
    /\ phase \in {"resolve", "loop", "done", "bailed"}
    /\ queue \in Seq(Items)
    /\ step \in Step
    /\ now \in 0..MaxTime /\ deadline \in 0..(MaxTime + Timeout)
    /\ cancelled \in BOOLEAN
    /\ files \in Seq(DOMAIN request.files)
    /\ found \in Seq(Finding)
    /\ returned \in Seq(Result)
    /\ answered \in [DOMAIN request.files -> 0..MaxReported]
    /\ tried \in SUBSET DOMAIN request.files
    /\ late \in Nat
    /\ step # "none" => phase = "loop" /\ queue # << >>
    /\ ToyBusy => Head(queue) = Item("llm-toy") /\ ToyAccepts(Params("llm-toy"))
    /\ step \in {"read", "ask"} => files # << >>

\* The registry knows two detectors.
LEMMA TwoFactories ==
    /\ DOMAIN Factories = 1..2
    /\ Factories[1] = "cargo-audit" /\ Factories[2] = "llm-toy"
    /\ Id = {"cargo-audit", "llm-toy"}
BY DEF Factories, Id, ToSet

\* The numbers that the parser accepts, and the defaults, are at least 1.
LEMMA NumbersArePositive ==
    ASSUME request \in Requests, ToyAccepts(Params("llm-toy"))
    PROVE  \A o \in ToyNumbers : WithDefaults(Params("llm-toy"))[o] \in Nat \ {0}
<1>. DEFINE p == Params("llm-toy")
            section == request.section["llm-toy"]
<1>1. ASSUME NEW o \in ToyNumbers, o \in DOMAIN p PROVE p[o] \in Nat \ {0}
  <2>1. o \in DOMAIN section /\ p[o] = section[o]
    BY <1>1 DEF Params, StripEnabled, Restrict
  <2>2. section[o] \in Int
    BY <1>1, <2>1, RequestsAssumption
  <2>3. p[o] >= 1
    BY <1>1 DEF ToyAccepts, ToyNumbers
  <2>. QED
    BY <2>1, <2>2, <2>3
<1>. HIDE DEF p
<1>2. TAKE o \in ToyNumbers
<1>3. WithDefaults(p)[o] = IF o \in DOMAIN p THEN p[o] ELSE Defaults[o]
  BY <1>2 DEF WithDefaults, ToyNumbers
<1>4. Defaults[o] \in Nat \ {0}
  BY <1>2, RequestsAssumption
<1>. QED
  BY <1>1, <1>2, <1>3, <1>4 DEF p

\* The smaller of two naturals.
LEMMA SmallerOf ==
    ASSUME NEW m \in Nat, NEW n \in Nat
    PROVE  Smaller(m, n) \in Nat /\ Smaller(m, n) <= m /\ Smaller(m, n) <= n
BY DEF Smaller

\* Of n issues a natural number is taken.
LEMMA TakenTyped ==
    ASSUME request \in Requests, Head(queue) = Item("llm-toy"),
           ToyAccepts(Params("llm-toy")), NEW n \in 0..MaxReported
    PROVE  /\ Taken(n) = Smaller(n, WithDefaults(Params("llm-toy"))["max_findings_per_file"])
           /\ Taken(n) \in Nat
<1>1. Head(queue).params = Params("llm-toy")
  BY DEF Item
<1>2. WithDefaults(Params("llm-toy"))["max_findings_per_file"] \in Nat
  BY NumbersArePositive DEF ToyNumbers, ToyOptions
<1>3. Taken(n) = Smaller(n, WithDefaults(Params("llm-toy"))["max_findings_per_file"])
  BY <1>1 DEF Taken, ToyParams
<1>. QED
  BY <1>2, <1>3, SmallerOf, RequestsAssumption

\* collect_files returns each of the first max_files matching files once: those
\* with fewer than max_files matching files before them.
LEMMA CollectFilesRanks ==
    ASSUME request \in Requests, ToyAccepts(Params("llm-toy"))
    PROVE  LET p == WithDefaults(Params("llm-toy"))
               s == CollectFiles(p)
           IN  /\ s \in Seq(DOMAIN request.files)
               /\ \A i, j \in DOMAIN s : s[i] = s[j] => i = j
               /\ {s[i] : i \in DOMAIN s}
                    = {f \in Matching(p) :
                          Cardinality({g \in Matching(p) : g < f}) < p["max_files"]}
<1>. DEFINE p == WithDefaults(Params("llm-toy"))
            M == Matching(p)
            n == Cardinality(M)
            limit == p["max_files"]
            k == Smaller(limit, n)
            a == Sorted(M)
            s == SubSeq(a, 1, k)
<1>1. M \in SUBSET Nat /\ M \in SUBSET DOMAIN request.files /\ IsFiniteSet(M)
  <2>1. DOMAIN request.files \in SUBSET Nat /\ IsFiniteSet(DOMAIN request.files)
    BY RequestsAssumption
  <2>2. M \in SUBSET DOMAIN request.files
    BY DEF Matching
  <2>. QED
    BY <2>1, <2>2, FS_Subset
<1>2. limit \in Nat \ {0}
  BY NumbersArePositive DEF ToyNumbers, ToyOptions
<1>3. CollectFiles(p) = s
  BY DEF CollectFiles
<1>. HIDE DEF p, M, limit
<1>4. n \in Nat
  BY <1>1, FS_CardinalityType
<1>5. k \in Nat /\ k <= n
  BY <1>2, <1>4, SmallerOf
<1>6. Ascends(a, M, n)
  <2>1. PICK t : Ascends(t, M, n)
    BY <1>1, AscendingExists
  <2>2. DOMAIN t = 1..n
    BY <2>1 DEF Ascends
  <2>3. \E u \in [1..n -> M] : \A i, j \in DOMAIN u : i < j => u[i] < u[j]
    BY <2>1, <2>2 DEF Ascends
  <2>4. a \in [1..n -> M] /\ \A i, j \in DOMAIN a : i < j => a[i] < a[j]
    BY <2>3 DEF Sorted
  <2>. QED
    BY <2>4 DEF Ascends
<1>7. /\ \A x \in M : \E i \in 1..n : a[i] = x
      /\ \A i, j \in 1..n : a[i] = a[j] => i = j
      /\ \A i \in 1..n : Cardinality({x \in M : x < a[i]}) = i - 1
  BY <1>1, <1>6, AscendingRanks
<1>8. \A i \in 1..n : a[i] \in M
  BY <1>6 DEF Ascends
<1>9. /\ s \in Seq(M) /\ Len(s) = k
      /\ \A i \in 1..k : s[i] = a[i]
  <2>. HIDE DEF a, k, n
  <2>1. \A i \in 1..k : a[i] \in M
    BY <1>4, <1>5, <1>8
  <2>2. /\ s \in Seq(M) /\ Len(s) = IF 1 <= k THEN k - 1 + 1 ELSE 0
        /\ \A i \in 1..(k - 1 + 1) : s[i] = a[1 + i - 1]
    BY <1>5, <2>1, SubSeqProperties
  <2>. QED
    BY <1>5, <2>2
<1>10. DOMAIN s = 1..k
  BY <1>9, LenProperties
<1>. HIDE DEF s, a
<1>11. \A i, j \in DOMAIN s : s[i] = s[j] => i = j
  BY <1>4, <1>5, <1>7, <1>9, <1>10
<1>12. \A i \in 1..n : i <= k <=> i - 1 < limit
  BY <1>2, <1>4 DEF Smaller
<1>13. {s[i] : i \in DOMAIN s} = {f \in M : Cardinality({g \in M : g < f}) < limit}
  <2>1. ASSUME NEW i \in DOMAIN s
        PROVE  s[i] \in M /\ Cardinality({g \in M : g < s[i]}) < limit
    <3>1. i \in 1..n /\ i <= k /\ s[i] = a[i]
      BY <1>4, <1>5, <1>9, <1>10, <2>1
    <3>2. Cardinality({g \in M : g < a[i]}) = i - 1
      BY <1>7, <3>1
    <3>. QED
      BY <1>8, <1>12, <3>1, <3>2
  <2>2. ASSUME NEW f \in M, Cardinality({g \in M : g < f}) < limit
        PROVE  \E i \in DOMAIN s : s[i] = f
    <3>1. PICK i \in 1..n : a[i] = f
      BY <1>7
    <3>2. Cardinality({g \in M : g < f}) = i - 1
      BY <1>7, <3>1
    <3>3. i \in 1..k
      BY <1>4, <1>12, <2>2, <3>1, <3>2
    <3>. QED
      BY <1>9, <1>10, <3>1, <3>3
  <2>. QED
    BY <2>1, <2>2
<1>14. s \in Seq(DOMAIN request.files)
  BY <1>1, <1>9
<1>. QED
  BY <1>3, <1>11, <1>13, <1>14 DEF p, M, limit

\* The head of the queue.
LEMMA HeadOfQueue ==
    ASSUME TypeInv, step # "none"
    PROVE  /\ Head(queue) \in Items /\ Head(queue).id \in Id
           /\ Head(queue).params = Params(Head(queue).id)
           /\ Head(queue) = queue[1] /\ Len(queue) >= 1
           /\ Tail(queue) \in Seq(Items) /\ Len(Tail(queue)) = Len(queue) - 1
           /\ \A i \in 1..Len(Tail(queue)) : Tail(queue)[i] = queue[i + 1]
<1>1. queue \in Seq(Items) /\ queue # << >>
  BY DEF TypeInv
<1>2. Head(queue) \in Items /\ Tail(queue) \in Seq(Items) /\ Len(Tail(queue)) = Len(queue) - 1
      /\ \A i \in 1..Len(Tail(queue)) : Tail(queue)[i] = queue[i + 1]
  BY <1>1, HeadTailProperties
<1>3. Head(queue) = queue[1] /\ Len(queue) >= 1
  BY <1>1, EmptySeq, LenProperties
<1>4. PICK id \in Id : Head(queue) = Item(id)
  BY <1>2 DEF Items
<1>5. Head(queue).id = id /\ Head(queue).params = Params(id)
  BY <1>4 DEF Item
<1>. QED
  BY <1>2, <1>3, <1>4, <1>5

\* The running detector's return, whatever it is.
LEMMA ReturnTyped ==
    ASSUME TypeInv, step # "none", NEW outcome \in Outcome, NEW findings \in Seq(Finding),
           Return(outcome, findings), UNCHANGED <<files, history>>
    PROVE  TypeInv'
<1>. DEFINE r == [id |-> Head(queue).id, outcome |-> outcome, findings |-> findings]
<1>1. r \in Result
  BY HeadOfQueue DEF Result
<1>2. returned' = Append(returned, r) /\ returned \in Seq(Result)
  BY DEF Return, TypeInv
<1>. HIDE DEF r
<1>3. returned' \in Seq(Result)
  BY <1>1, <1>2, AppendProperties
<1>4. Tail(queue) \in Seq(Items) /\ Items' = Items
  BY HeadOfQueue DEF Return, Items, Item, Params
<1>5. /\ request' = request /\ now' = now /\ deadline' = deadline
      /\ cancelled' = cancelled /\ found' = found /\ step' = "none"
      /\ queue' = Tail(queue) /\ phase' \in {phase, "bailed"}
      /\ files' = files /\ answered' = answered /\ tried' = tried /\ late' = late
  BY DEF Return, history
<1>. QED
  BY <1>3, <1>4, <1>5 DEF TypeInv, Step, ToyBusy

\* The running detector goes on.
LEMMA GotoTyped ==
    ASSUME TypeInv, NEW s \in Step, Goto(s), step # "none",
           files' \in Seq(DOMAIN request.files), s \in {"read", "ask"} => files' # << >>,
           found' \in Seq(Finding),
           answered' \in [DOMAIN request.files -> 0..MaxReported],
           tried' \in SUBSET DOMAIN request.files, late' \in Nat,
           s \in {"next", "read", "ask"} =>
               Head(queue) = Item("llm-toy") /\ ToyAccepts(Params("llm-toy"))
    PROVE  TypeInv'
<1>1. /\ request' = request /\ phase' = phase /\ now' = now /\ deadline' = deadline
      /\ cancelled' = cancelled /\ returned' = returned /\ queue' = queue /\ step' = s
  BY DEF Goto
<1>2. Items' = Items /\ Item("llm-toy")' = Item("llm-toy")
      /\ Params("llm-toy")' = Params("llm-toy")
      /\ ToyAccepts(Params("llm-toy"))' = ToyAccepts(Params("llm-toy"))
  BY <1>1 DEF Items, Item, Params, ToyAccepts
<1>. QED
  BY <1>1, <1>2 DEF TypeInv, ToyBusy

\* A running llm-toy has the params of its section.
LEMMA ToyRuns ==
    ASSUME TypeInv, NEW s, s # "none", Running("llm-toy", s)
    PROVE  /\ step = s /\ Head(queue) = Item("llm-toy")
           /\ Head(queue).params = Params("llm-toy") /\ Head(queue).id = "llm-toy"
<1>1. Head(queue) \in Items /\ Head(queue).id = "llm-toy" /\ step = s
  BY HeadOfQueue DEF Running
<1>2. PICK id \in Id : Head(queue) = Item(id)
  BY <1>1 DEF Items
<1>. QED
  BY <1>1, <1>2 DEF Item

\* The steps of llm-toy's run keep TypeInv.
LEMMA TypeByToy ==
    ASSUME TypeInv, ToyStep
    PROVE  TypeInv'
<1>0. << >> \in Seq(Finding) /\ found \in Seq(Finding) /\ files \in Seq(DOMAIN request.files)
      /\ answered \in [DOMAIN request.files -> 0..MaxReported]
      /\ tried \in SUBSET DOMAIN request.files /\ late \in Nat
      /\ request \in Requests
  BY DEF TypeInv
<1>h. files # << >> => Head(files) \in DOMAIN request.files
                       /\ Tail(files) \in Seq(DOMAIN request.files)
  BY <1>0, HeadTailProperties
<1>1. CASE ToyRejects
  BY <1>0, <1>1, ReturnTyped DEF ToyRejects, Running, Outcome
<1>2. CASE ToyCollects
  <2>1. Head(queue) = Item("llm-toy") /\ ToyAccepts(Params("llm-toy")) /\ step # "none"
    BY <1>2, ToyRuns DEF ToyCollects
  <2>2. ToyParams = WithDefaults(Params("llm-toy"))
    BY <1>2, ToyRuns DEF ToyCollects, ToyParams
  <2>3. CollectFiles(ToyParams) \in Seq(DOMAIN request.files)
    BY <1>0, <2>1, <2>2, CollectFilesRanks
  <2>. QED
    BY <1>0, <1>2, <2>1, <2>3, GotoTyped DEF ToyCollects, history, Step
<1>3. CASE ToyCancelled
  BY <1>0, <1>3, ReturnTyped DEF ToyCancelled, Running, Outcome
<1>4. CASE ToyTimesOut
  BY <1>0, <1>4, ReturnTyped DEF ToyTimesOut, Running, Outcome
<1>5. CASE ToyReads
  <2>1. Head(queue) = Item("llm-toy") /\ ToyAccepts(Params("llm-toy")) /\ step # "none"
    BY <1>5 DEF ToyReads, Running, TypeInv, ToyBusy
  <2>. QED
    BY <1>0, <1>h, <1>5, <2>1, GotoTyped DEF ToyReads, Step
<1>6. CASE ToySkips
  <2>1. /\ Head(queue) = Item("llm-toy") /\ ToyAccepts(Params("llm-toy"))
        /\ step # "none" /\ files # << >>
    BY <1>6 DEF ToySkips, Running, TypeInv, ToyBusy
  <2>. QED
    BY <1>0, <1>h, <1>6, <2>1, GotoTyped DEF ToySkips, Step, history
<1>7. CASE ToyAsks
  <2>1. /\ Head(queue) = Item("llm-toy") /\ ToyAccepts(Params("llm-toy"))
        /\ step # "none" /\ files # << >>
    BY <1>7 DEF ToyAsks, Running, TypeInv, ToyBusy
  <2>2. late' \in Nat
    BY <1>0, <1>7 DEF ToyAsks
  <2>. QED
    BY <1>0, <1>7, <2>1, <2>2, GotoTyped DEF ToyAsks, Step
<1>8. CASE ToyFinishes
  BY <1>0, <1>8, ReturnTyped DEF ToyFinishes, Running, Outcome
<1>9. ASSUME NEW n \in 0..MaxReported, ToyAnswered(n) PROVE TypeInv'
  <2>1. /\ Head(queue) = Item("llm-toy") /\ ToyAccepts(Params("llm-toy"))
        /\ step # "none" /\ files # << >>
    BY <1>9 DEF ToyAnswered, Running, TypeInv, ToyBusy
  <2>2. Taken(n) \in Nat
    BY <1>0, <1>9, <2>1, TakenTyped
  <2>3. IssueToFinding(Head(files)) \in Finding
    BY <1>0, <1>h, <2>1, RequestsAssumption, TwoFactories DEF IssueToFinding, Finding
  <2>. DEFINE new == [i \in 1..Taken(n) |-> IssueToFinding(Head(files))]
  <2>4. new \in Seq(Finding)
    BY <2>2, <2>3
  <2>5. found' = found \o new
    BY <1>9 DEF ToyAnswered
  <2>. HIDE DEF new
  <2>6. found' \in Seq(Finding)
    BY <1>0, <2>4, <2>5, ConcatProperties
  <2>. QED
    BY <1>0, <1>h, <1>9, <2>1, <2>6, GotoTyped DEF ToyAnswered, Step
<1>. QED
  BY <1>1, <1>2, <1>3, <1>4, <1>5, <1>6, <1>7, <1>8, <1>9 DEF ToyStep

\* So do those of cargo-audit's, and its subprocess.
LEMMA TypeByAudit ==
    ASSUME TypeInv, AuditStep \/ Subprocess
    PROVE  TypeInv'
<1>0. << >> \in Seq(Finding) /\ found \in Seq(Finding) /\ files \in Seq(DOMAIN request.files)
      /\ answered \in [DOMAIN request.files -> 0..MaxReported]
      /\ tried \in SUBSET DOMAIN request.files /\ late \in Nat
  BY DEF TypeInv
<1>1. CASE AuditSkips
  BY <1>0, <1>1, ReturnTyped DEF AuditSkips, Running, Outcome
<1>2. CASE AuditRejects
  BY <1>0, <1>2, ReturnTyped DEF AuditRejects, Running, Outcome
<1>3. CASE AuditSpawns
  BY <1>0, <1>3, GotoTyped DEF AuditSpawns, Running, Step, history
<1>4. CASE AuditCancelled
  BY <1>0, <1>4, ReturnTyped DEF AuditCancelled, Running, Outcome
<1>5. CASE AuditFails
  BY <1>0, <1>5, ReturnTyped DEF AuditFails, Running, Outcome
<1>6. CASE AuditReports
  <2>1. PICK n \in 0..MaxReported : Return("ok", [i \in 1..n |-> VulnToFinding(i)])
    BY <1>6 DEF AuditReports
  <2>2. [i \in 1..n |-> VulnToFinding(i)] \in Seq(Finding)
    <3>1. MaxReported \in Nat /\ n \in Nat
      BY RequestsAssumption
    <3>2. \A i \in 1..n : VulnToFinding(i) \in Finding
      BY <3>1, TwoFactories DEF VulnToFinding, Finding
    <3>. QED
      BY <3>1, <3>2
  <2>. QED
    BY <1>6, <2>1, <2>2, ReturnTyped DEF AuditReports, Running, Outcome
<1>. QED
  BY <1>1, <1>2, <1>3, <1>4, <1>5, <1>6 DEF AuditStep, Subprocess

\* What the registry resolves, detector by detector.
LEMMA ResolvedTyped ==
    /\ \A id \in Id : Resolved(id) \in Seq(Items)
    /\ FlattenSeq([i \in DOMAIN Factories |-> Resolved(Factories[i])])
         = Resolved("cargo-audit") \o Resolved("llm-toy")
<1>1. \A id \in Id : Resolved(id) = IF Selected(id) THEN <<Item(id)>> ELSE << >>
  BY DEF Resolved, Item, Params
<1>2. \A id \in Id : Item(id) \in Items
  BY DEF Items
<1>3. \A id \in Id : Resolved(id) \in Seq(Items)
  <2>. TAKE id \in Id
  <2>. DEFINE x == Item(id)
  <2>1. x \in Items /\ Resolved(id) = IF Selected(id) THEN <<x>> ELSE << >>
    BY <1>1, <1>2
  <2>. HIDE DEF x
  <2>. QED
    BY <2>1
<1>4. [i \in DOMAIN Factories |-> Resolved(Factories[i])]
        = <<Resolved("cargo-audit"), Resolved("llm-toy")>>
  BY TwoFactories
<1>. QED
  BY <1>3, <1>4, TwoFactories, FlattenPair

\* registry.rs, scan.rs: the steps of the loop, the clock and a cancellation do too.
LEMMA TypeByStep ==
    ASSUME TypeInv, [Next]_vars
    PROVE  TypeInv'
<1>1. CASE Resolve
  <2>1. queue' \in Seq(Items)
    <3>1. queue' = Resolved("cargo-audit") \o Resolved("llm-toy")
      BY <1>1, ResolvedTyped DEF Resolve
    <3>2. Resolved("cargo-audit") \in Seq(Items) /\ Resolved("llm-toy") \in Seq(Items)
      BY ResolvedTyped, TwoFactories
    <3>. QED
      BY <3>1, <3>2, ConcatProperties
  <2>2. Items' = Items /\ step = "none"
    BY <1>1 DEF Resolve, Items, Item, Params, TypeInv
  <2>. QED
    BY <1>1, <2>1, <2>2 DEF Resolve, TypeInv, ToyBusy, history
<1>2. CASE StartDetector
  <2>1. Items' = Items
    BY <1>2 DEF StartDetector, Items, Item, Params
  <2>2. deadline' \in 0..(MaxTime + Timeout) /\ << >> \in Seq(Finding)
    BY <1>2, RequestsAssumption DEF StartDetector, TypeInv
  <2>. QED
    BY <1>2, <2>1, <2>2 DEF StartDetector, TypeInv, ToyBusy, Step
<1>3. ASSUME UNCHANGED <<request, queue, files, found, returned, history>>, step' = step,
             phase' \in {"resolve", "loop", "done", "bailed"},
             step # "none" => phase' = phase, now' \in 0..MaxTime,
             deadline' = deadline, cancelled' \in BOOLEAN
      PROVE  TypeInv'
  <2>1. Items' = Items /\ Item("llm-toy")' = Item("llm-toy")
        /\ Params("llm-toy")' = Params("llm-toy")
        /\ ToyAccepts(Params("llm-toy"))' = ToyAccepts(Params("llm-toy"))
    BY <1>3 DEF Items, Item, Params, ToyAccepts
  <2>. QED
    BY <1>3, <2>1 DEF TypeInv, ToyBusy, history
<1>4. CASE LoopEnds
  BY <1>3, <1>4 DEF LoopEnds, TypeInv
<1>5. CASE Cancel
  BY <1>3, <1>5 DEF Cancel, TypeInv, control
<1>6. CASE Tick
  BY <1>3, <1>6, RequestsAssumption DEF Tick, TypeInv, control
<1>7. CASE UNCHANGED vars
  BY <1>3, <1>7 DEF vars, TypeInv, control
<1>. QED
  BY <1>1, <1>2, <1>4, <1>5, <1>6, <1>7, TypeByToy, TypeByAudit DEF Next, OwnStep

\* A scan starts with nothing queued, found or returned.
LEMMA TypeInit ==
    ASSUME Init
    PROVE  TypeInv
<1>1. request \in Requests /\ answered = [f \in DOMAIN request.files |-> 0]
  BY DEF Init
<1>2. 0 \in 0..MaxReported /\ 0 \in 0..MaxTime /\ 0 \in 0..(MaxTime + Timeout)
  BY RequestsAssumption
<1>3. answered \in [DOMAIN request.files -> 0..MaxReported]
  BY <1>1, <1>2
<1>4. /\ << >> \in Seq(Items) /\ << >> \in Seq(DOMAIN request.files)
      /\ << >> \in Seq(Finding) /\ << >> \in Seq(Result)
  BY EmptySeq
<1>5. {} \in SUBSET DOMAIN request.files /\ 0 \in Nat
  OBVIOUS
<1>. QED
  BY <1>1, <1>2, <1>3, <1>4, <1>5 DEF Init, TypeInv, ToyBusy, Step

\* Every variable has its type, for every set of requests, and no detector's
\* params say `enabled`.
THEOREM DetectorTypes == Spec => []DetectorsTypeOK
<1>1. Init => TypeInv
  BY TypeInit
<1>2. TypeInv /\ [Next]_vars => TypeInv'
  BY TypeByStep
<1>3. TypeInv => DetectorsTypeOK
  <2>. SUFFICES ASSUME TypeInv PROVE DetectorsTypeOK
    OBVIOUS
  <2>1. \A i \in DOMAIN queue : queue[i] \in Items
    BY DEF TypeInv
  <2>2. \A x \in Items : x.id \in Id /\ "enabled" \notin DOMAIN x.params
    <3>1. \A id \in Id : "enabled" \notin DOMAIN Params(id)
      BY DEF Params, StripEnabled, Restrict
    <3>2. \A id \in Id : Item(id).id = id /\ Item(id).params = Params(id)
      BY DEF Item
    <3>. QED
      BY <3>1, <3>2 DEF Items
  <2>. QED
    BY <2>1, <2>2 DEF TypeInv, DetectorsTypeOK, Result
<1>. QED
  BY <1>1, <1>2, <1>3, PTL DEF Spec

-----------------------------------------------------------------------------
(* Token and deadline                                                      *)

Overdue == cancelled \/ now >= deadline

\* A late request leaves the detector overdue, which nothing but the next
\* detector's start undoes, and a detector that is overdue opens no file.
LateInv ==
    /\ now \in Nat /\ deadline \in Nat
    /\ \/ late = 0
       \/ late = 1 /\ Overdue /\ step # "read"

\* The token and the clock never go back while a detector runs, and a detector
\* that returns or goes on to a step other than reading keeps what is known.
LEMMA LateInvKept ==
    ASSUME LateInv, now' = now, deadline' = deadline, late' = late,
           cancelled => cancelled', step' # "read"
    PROVE  LateInv'
  BY DEF LateInv, Overdue

\* A detector that returns is at no file.
LEMMA ReturnKeepsLateInv ==
    ASSUME LateInv, late' = late, NEW outcome, NEW findings, Return(outcome, findings)
    PROVE  LateInv'
  BY LateInvKept DEF Return

\* Nor is one that goes on to anything but reading.
LEMMA GotoKeepsLateInv ==
    ASSUME LateInv, late' = late, NEW s, s # "read", Goto(s)
    PROVE  LateInv'
  BY LateInvKept DEF Goto

\* llm-toy: only a file that it opened before the deadline leads to a late request.
LEMMA ToyStepKeepsLateInv ==
    ASSUME LateInv, ToyStep
    PROVE  LateInv'
  <1>1. CASE ToyRejects
    BY <1>1, ReturnKeepsLateInv DEF ToyRejects, history
  <1>2. CASE ToyCollects
    BY <1>2, GotoKeepsLateInv DEF ToyCollects, history
  <1>3. CASE ToyCancelled
    BY <1>3, ReturnKeepsLateInv DEF ToyCancelled, history
  <1>4. CASE ToyTimesOut
    BY <1>4, ReturnKeepsLateInv DEF ToyTimesOut, history
  <1>5. CASE ToyReads
    <2>1. late = 0
      BY <1>5 DEF ToyReads, LateInv, Overdue
    <2> QED
      BY <1>5, <2>1 DEF ToyReads, Goto, LateInv
  <1>6. CASE ToySkips
    BY <1>6, GotoKeepsLateInv DEF ToySkips, history
  <1>7. CASE ToyAsks
    <2>1. late = 0
      BY <1>7 DEF ToyAsks, Running, LateInv
    <2>2. late' = IF Overdue THEN 1 ELSE 0
      BY <1>7, <2>1 DEF ToyAsks, Overdue
    <2> QED
      BY <1>7, <2>2 DEF ToyAsks, Goto, LateInv, Overdue
  <1>8. CASE ToyFinishes
    BY <1>8, ReturnKeepsLateInv DEF ToyFinishes, history
  <1>9. ASSUME NEW n \in 0..MaxReported, ToyAnswered(n)
        PROVE  LateInv'
    BY <1>9, GotoKeepsLateInv DEF ToyAnswered
  <1> QED
    BY <1>1, <1>2, <1>3, <1>4, <1>5, <1>6, <1>7, <1>8, <1>9 DEF ToyStep

\* cargo-audit sends no requests, late or not.
LEMMA AuditKeepsLateInv ==
    ASSUME LateInv, AuditStep \/ Subprocess
    PROVE  LateInv'
  <1>1. CASE AuditSkips
    BY <1>1, ReturnKeepsLateInv DEF AuditSkips, history
  <1>2. CASE AuditRejects
    BY <1>2, ReturnKeepsLateInv DEF AuditRejects, history
  <1>3. CASE AuditSpawns
    BY <1>3, GotoKeepsLateInv DEF AuditSpawns, history
  <1>4. CASE AuditCancelled
    BY <1>4, ReturnKeepsLateInv DEF AuditCancelled, history
  <1>5. CASE AuditFails
    BY <1>5, ReturnKeepsLateInv DEF AuditFails, history
  <1>6. CASE AuditReports
    BY <1>6, ReturnKeepsLateInv DEF AuditReports, history
  <1> QED
    BY <1>1, <1>2, <1>3, <1>4, <1>5, <1>6 DEF AuditStep, Subprocess

\* No step of a scan, of the clock or of a caller who cancels breaks LateInv.
LEMMA StepKeepsLateInv ==
    ASSUME LateInv, [Next]_vars
    PROVE  LateInv'
  <1>1. CASE Resolve
    BY <1>1 DEF Resolve, LateInv, Overdue, history
  <1>2. CASE StartDetector
    BY <1>2, RequestsAssumption DEF StartDetector, LateInv
  <1>3. CASE LoopEnds
    BY <1>3 DEF LoopEnds, LateInv, Overdue, history
  <1>4. CASE Cancel
    BY <1>4 DEF Cancel, LateInv, Overdue, control, history
  <1>5. CASE Tick
    BY <1>5 DEF Tick, LateInv, Overdue, control, history
  <1>6. CASE UNCHANGED vars
    BY <1>6 DEF vars, LateInv, Overdue, control, history
  <1> QED
    BY <1>1, <1>2, <1>3, <1>4, <1>5, <1>6, ToyStepKeepsLateInv, AuditKeepsLateInv
    DEF Next, OwnStep

\* However many files there are and whenever the caller cancels or the time is
\* up, llm-toy asks the model at most once more.
THEOREM OneLateRequestAlways == Spec => []OneLateRequest
  <1>1. Init => LateInv
    BY DEF Init, LateInv
  <1>2. LateInv /\ [Next]_vars => LateInv'
    BY StepKeepsLateInv
  <1>3. LateInv => OneLateRequest
    BY DEF LateInv, OneLateRequest
  <1> QED
    BY <1>1, <1>2, <1>3, PTL DEF Spec

-----------------------------------------------------------------------------
(* Which detectors return, and in which order                              *)

\* A detector returns, and nothing of llm-toy's records changes.
Returning(outcome, findings) ==
    step # "none" /\ Return(outcome, findings) /\ UNCHANGED <<files, history>>

\* Why the running detector may return what it returns.
Justified(outcome, findings) ==
    \/ Head(queue).id = "llm-toy" /\ step = "begin" /\ outcome = "params"
       /\ findings = << >> /\ ~ ToyAccepts(Params("llm-toy"))
    \/ Head(queue).id = "llm-toy" /\ step = "next" /\ outcome \in {"cancelled", "timeout"}
       /\ findings = << >>
    \/ Head(queue).id = "llm-toy" /\ step = "next" /\ outcome = "ok"
       /\ findings = found /\ files = << >>
    \/ Head(queue).id = "cargo-audit" /\ step = "begin" /\ outcome = "params"
       /\ ~ AuditAccepts(Params("cargo-audit"))
    \/ Head(queue).id = "cargo-audit" /\ outcome # "params"

\* The detectors between two returns.
Frame == UNCHANGED <<request, phase, queue, returned>>

\* A running detector goes on or returns what it may return.
LEMMA RunningReturns ==
    ASSUME TypeInv, ToyStep \/ AuditStep \/ Subprocess
    PROVE  \/ \E outcome \in Outcome, findings \in Seq(Finding) :
                 Returning(outcome, findings) /\ Justified(outcome, findings)
           \/ ToyCollects \/ ToyReads \/ ToySkips \/ ToyAsks \/ AuditSpawns
           \/ \E n \in 0..MaxReported : ToyAnswered(n)
<1>0. << >> \in Seq(Finding) /\ found \in Seq(Finding)
  BY DEF TypeInv
<1>p. step # "none" => Head(queue).params = Params(Head(queue).id)
  BY HeadOfQueue
<1>1. CASE ToyRejects
  BY <1>0, <1>p, <1>1 DEF ToyRejects, Running, Outcome, Returning, Justified
<1>2. CASE ToyCancelled \/ ToyTimesOut
  BY <1>0, <1>2 DEF ToyCancelled, ToyTimesOut, Running, Outcome, Returning, Justified
<1>3. CASE ToyFinishes
  BY <1>0, <1>3 DEF ToyFinishes, Running, Outcome, Returning, Justified
<1>4. CASE AuditSkips
  BY <1>0, <1>4 DEF AuditSkips, Running, Outcome, Returning, Justified
<1>5. CASE AuditRejects
  BY <1>0, <1>p, <1>5 DEF AuditRejects, Running, Outcome, Returning, Justified
<1>6. CASE AuditCancelled
  BY <1>0, <1>6 DEF AuditCancelled, Running, Outcome, Returning, Justified
<1>7. CASE AuditFails
  BY <1>0, <1>7 DEF AuditFails, Running, Outcome, Returning, Justified
<1>8. CASE AuditReports
  <2>1. PICK n \in 0..MaxReported : Return("ok", [i \in 1..n |-> VulnToFinding(i)])
    BY <1>8 DEF AuditReports
  <2>2. [i \in 1..n |-> VulnToFinding(i)] \in Seq(Finding)
    <3>1. MaxReported \in Nat /\ n \in Nat
      BY RequestsAssumption
    <3>2. \A i \in 1..n : VulnToFinding(i) \in Finding
      BY <3>1, TwoFactories DEF VulnToFinding, Finding
    <3>. QED
      BY <3>1, <3>2
  <2>. DEFINE fs == [i \in 1..n |-> VulnToFinding(i)]
  <2>3. Return("ok", fs) /\ fs \in Seq(Finding)
    BY <2>1, <2>2
  <2>. HIDE DEF fs
  <2>. QED
    BY <1>8, <2>3 DEF AuditReports, Running, Outcome, Returning, Justified
<1>. QED
  BY <1>1, <1>2, <1>3, <1>4, <1>5, <1>6, <1>7, <1>8 DEF Subprocess, ToyStep, AuditStep

\* Resolving and returning are the only steps that move a detector.
LEMMA ReturnOrFrame ==
    ASSUME TypeInv, [Next]_vars
    PROVE  \/ Resolve
           \/ LoopEnds
           \/ Frame
           \/ \E outcome \in Outcome, findings \in Seq(Finding) :
                 Returning(outcome, findings) /\ Justified(outcome, findings)
<1>1. CASE ToyCollects \/ ToyReads \/ ToySkips \/ ToyAsks \/ AuditSpawns
  BY <1>1 DEF ToyCollects, ToyReads, ToySkips, ToyAsks, AuditSpawns, Goto, Frame
<1>2. CASE \E n \in 0..MaxReported : ToyAnswered(n)
  BY <1>2 DEF ToyAnswered, Goto, Frame
<1>3. CASE StartDetector \/ Cancel \/ Tick \/ UNCHANGED vars
  BY <1>3 DEF StartDetector, Cancel, Tick, vars, control, Frame
<1>4. CASE ToyStep \/ AuditStep \/ Subprocess
  BY <1>1, <1>2, <1>4, RunningReturns
<1>. QED
  BY <1>1, <1>2, <1>3, <1>4 DEF Next, OwnStep

\* A return moves the queue's head to the end of what was returned.
LEMMA ReturningMoves ==
    ASSUME TypeInv, NEW outcome \in Outcome, NEW findings \in Seq(Finding),
           Returning(outcome, findings)
    PROVE  /\ returned' \in Seq(Result) /\ Len(returned') = Len(returned) + 1
           /\ \A i \in 1..Len(returned) : returned'[i] = returned[i]
           /\ returned'[Len(returned) + 1].id = Head(queue).id
           /\ returned'[Len(returned) + 1].outcome = outcome
           /\ returned'[Len(returned) + 1].findings = findings
           /\ queue' \in Seq(Items) /\ Len(queue') = Len(queue) - 1 /\ Len(queue) >= 1
           /\ \A i \in 1..Len(queue') : queue'[i] = queue[i + 1]
           /\ request' = request /\ phase = "loop"
           /\ phase' = IF outcome # "ok" /\ request.strict THEN "bailed" ELSE phase
<1>. DEFINE r == [id |-> Head(queue).id, outcome |-> outcome, findings |-> findings]
<1>1. r \in Result /\ r.id = Head(queue).id /\ r.outcome = outcome /\ r.findings = findings
  BY HeadOfQueue DEF Result, Returning
<1>2. returned' = Append(returned, r) /\ returned \in Seq(Result)
  BY DEF Return, Returning, TypeInv
<1>. HIDE DEF r
<1>3. /\ returned' \in Seq(Result) /\ Len(returned') = Len(returned) + 1
      /\ \A i \in 1..Len(returned) : returned'[i] = returned[i]
      /\ returned'[Len(returned) + 1] = r
  BY <1>1, <1>2, AppendProperties
<1>4. queue' = Tail(queue)
  BY DEF Return, Returning
<1>5. /\ request' = request /\ phase = "loop"
      /\ phase' = IF outcome # "ok" /\ request.strict THEN "bailed" ELSE phase
  BY DEF Return, Returning, TypeInv
<1>. QED
  BY <1>1, <1>3, <1>4, <1>5, HeadOfQueue DEF Returning

\* The detectors that the registry selects, in the order of registration.
Wanted ==
    FlattenSeq([i \in DOMAIN Factories |->
        IF Selected(Factories[i]) THEN <<Factories[i]>> ELSE << >>])

\* Those that have returned and then those that are queued.
OrderInv ==
    /\ phase = "resolve" => queue = << >> /\ returned = << >>
    /\ phase \in {"loop", "done"} =>
          /\ Len(returned) + Len(queue) = Len(Wanted)
          /\ \A i \in 1..Len(returned) : returned[i].id = Wanted[i]
          /\ \A i \in 1..Len(queue) : queue[i].id = Wanted[Len(returned) + i]
    /\ phase = "done" => queue = << >>
    /\ request.strict /\ phase # "bailed" =>
          \A i \in 1..Len(returned) : returned[i].outcome = "ok"

\* Sequences of at most two elements.
LEMMA SmallSequences ==
    ASSUME NEW S, NEW a \in S, NEW b \in S
    PROVE  /\ << >> \in Seq(S) /\ <<a>> \in Seq(S) /\ <<b>> \in Seq(S) /\ <<a, b>> \in Seq(S)
           /\ <<a>> \o <<b>> = <<a, b>>
           /\ <<a>> \o << >> = <<a>> /\ << >> \o <<b>> = <<b>>
           /\ << >> \o << >> = << >>
<1>1. << >> \in Seq(S) /\ <<a>> \in Seq(S) /\ <<b>> \in Seq(S) /\ <<a, b>> \in Seq(S)
  OBVIOUS
<1>2. <<a>> \o <<b>> = <<a, b>>
  <2>1. /\ <<a>> \o <<b>> \in Seq(S) /\ Len(<<a>> \o <<b>>) = 2
        /\ (<<a>> \o <<b>>)[1] = a /\ (<<a>> \o <<b>>)[2] = b
    BY <1>1, ConcatProperties
  <2>2. \A i \in 1..2 : (<<a>> \o <<b>>)[i] = <<a, b>>[i]
    BY <2>1
  <2>. QED
    BY <1>1, <2>1, <2>2, SeqEqual
<1>. QED
  BY <1>1, <1>2, ConcatEmptySeq

\* The selected detectors one by one; none of them twice.
LEMMA WantedCases ==
    /\ Wanted = (IF Selected("cargo-audit") THEN <<"cargo-audit">> ELSE << >>)
                \o (IF Selected("llm-toy") THEN <<"llm-toy">> ELSE << >>)
    /\ Wanted \in Seq(Id)
    /\ \A i, j \in 1..Len(Wanted) : Wanted[i] = Wanted[j] => i = j
<1>. DEFINE w(id) == IF Selected(id) THEN <<id>> ELSE << >>
<1>0. "cargo-audit" \in Id /\ "llm-toy" \in Id
  BY TwoFactories
<1>1. w("cargo-audit") \in Seq(Id) /\ w("llm-toy") \in Seq(Id)
  BY <1>0, SmallSequences
<1>2. [i \in DOMAIN Factories |->
          IF Selected(Factories[i]) THEN <<Factories[i]>> ELSE << >>]
        = <<w("cargo-audit"), w("llm-toy")>>
  BY TwoFactories
<1>3. Wanted = w("cargo-audit") \o w("llm-toy")
  BY <1>1, <1>2, FlattenPair DEF Wanted
<1>4. Wanted \in Seq(Id)
  BY <1>1, <1>3, ConcatProperties
<1>5. \A i, j \in 1..Len(Wanted) : Wanted[i] = Wanted[j] => i = j
  <2>1. Wanted \in {<< >>, <<"cargo-audit">>, <<"llm-toy">>, <<"cargo-audit", "llm-toy">>}
    BY <1>0, <1>3, SmallSequences
  <2>2. CASE Wanted = << >>
    BY <2>2
  <2>3. CASE Wanted = <<"cargo-audit">>
    BY <2>3
  <2>4. CASE Wanted = <<"llm-toy">>
    BY <2>4
  <2>5. CASE Wanted = <<"cargo-audit", "llm-toy">>
    BY <2>5
  <2>. QED
    BY <2>1, <2>2, <2>3, <2>4, <2>5
<1>. QED
  BY <1>3, <1>4, <1>5

\* Resolving queues them.
LEMMA OrderByResolve ==
    ASSUME TypeInv, OrderInv, Resolve
    PROVE  OrderInv'
<1>. DEFINE c == Item("cargo-audit")
            t == Item("llm-toy")
<1>1. /\ queue' = FlattenSeq([i \in DOMAIN Factories |-> Resolved(Factories[i])])
      /\ request' = request /\ phase' = "loop" /\ returned' = returned /\ returned = << >>
  BY DEF Resolve, OrderInv
<1>2. c \in Items /\ t \in Items /\ c.id = "cargo-audit" /\ t.id = "llm-toy"
  BY TwoFactories DEF Items, Item
<1>3. queue' = Resolved("cargo-audit") \o Resolved("llm-toy")
  BY <1>1, ResolvedTyped
<1>4. /\ Resolved("cargo-audit") = IF Selected("cargo-audit") THEN <<c>> ELSE << >>
      /\ Resolved("llm-toy") = IF Selected("llm-toy") THEN <<t>> ELSE << >>
  BY DEF Resolved, Item, Params
<1>. HIDE DEF c, t
<1>s. /\ <<c>> \o <<t>> = <<c, t>> /\ <<c>> \o << >> = <<c>>
      /\ << >> \o <<t>> = <<t>> /\ << >> \o << >> = << >>
  BY <1>2, SmallSequences
<1>w. "cargo-audit" \in Id /\ "llm-toy" \in Id
  BY TwoFactories
<1>5. Len(queue') = Len(Wanted) /\ \A i \in 1..Len(queue') : queue'[i].id = Wanted[i]
  <2>1. CASE Selected("cargo-audit") /\ Selected("llm-toy")
    <3>1. queue' = <<c, t>> /\ Wanted = <<"cargo-audit", "llm-toy">>
      BY <1>s, <1>w, <1>3, <1>4, <2>1, WantedCases, SmallSequences
    <3>. QED
      BY <1>2, <3>1
  <2>2. CASE Selected("cargo-audit") /\ ~ Selected("llm-toy")
    <3>1. queue' = <<c>> /\ Wanted = <<"cargo-audit">>
      BY <1>s, <1>w, <1>3, <1>4, <2>2, WantedCases, SmallSequences
    <3>. QED
      BY <1>2, <3>1
  <2>3. CASE ~ Selected("cargo-audit") /\ Selected("llm-toy")
    <3>1. queue' = <<t>> /\ Wanted = <<"llm-toy">>
      BY <1>s, <1>w, <1>3, <1>4, <2>3, WantedCases, SmallSequences
    <3>. QED
      BY <1>2, <3>1
  <2>4. CASE ~ Selected("cargo-audit") /\ ~ Selected("llm-toy")
    <3>1. queue' = << >> /\ Wanted = << >>
      BY <1>s, <1>w, <1>3, <1>4, <2>4, WantedCases, SmallSequences
    <3>. QED
      BY <3>1
  <2>. QED
    BY <2>1, <2>2, <2>3, <2>4
<1>6. Wanted' = Wanted
  BY <1>1 DEF Wanted, Selected
<1>7. Len(returned') = 0 /\ Len(Wanted) \in Nat
  BY <1>1, WantedCases, LenProperties
<1>. QED
  BY <1>1, <1>5, <1>6, <1>7 DEF OrderInv

\* scan.rs: the head of the queue becomes the last that returned, unless a strict
\* scan bails on its failure.
LEMMA OrderByReturn ==
    ASSUME TypeInv, OrderInv, NEW outcome \in Outcome, NEW findings \in Seq(Finding),
           Returning(outcome, findings)
    PROVE  OrderInv'
<1>1. /\ returned' \in Seq(Result) /\ Len(returned') = Len(returned) + 1
      /\ \A i \in 1..Len(returned) : returned'[i] = returned[i]
      /\ returned'[Len(returned) + 1].id = Head(queue).id
      /\ returned'[Len(returned) + 1].outcome = outcome
      /\ queue' \in Seq(Items) /\ Len(queue') = Len(queue) - 1 /\ Len(queue) >= 1
      /\ \A i \in 1..Len(queue') : queue'[i] = queue[i + 1]
      /\ request' = request /\ phase = "loop"
      /\ phase' = IF outcome # "ok" /\ request.strict THEN "bailed" ELSE phase
  BY ReturningMoves
<1>2. /\ Len(returned) + Len(queue) = Len(Wanted)
      /\ \A i \in 1..Len(returned) : returned[i].id = Wanted[i]
      /\ \A i \in 1..Len(queue) : queue[i].id = Wanted[Len(returned) + i]
      /\ request.strict => \A i \in 1..Len(returned) : returned[i].outcome = "ok"
  BY <1>1 DEF OrderInv
<1>3. Wanted' = Wanted
  BY <1>1 DEF Wanted, Selected
<1>4. Len(returned) \in Nat /\ Len(queue) \in Nat /\ Len(queue') \in Nat
  BY <1>1, LenProperties DEF TypeInv
<1>5. Head(queue).id = Wanted[Len(returned) + 1]
  BY <1>1, <1>2, <1>4, HeadOfQueue DEF Returning
<1>6. \A i \in 1..Len(returned') : i \in 1..Len(returned) \/ i = Len(returned) + 1
  BY <1>1, <1>4
<1>7. \A i \in 1..Len(returned') : returned'[i].id = Wanted[i]
  BY <1>1, <1>2, <1>5, <1>6
<1>8. \A i \in 1..Len(queue') : queue'[i].id = Wanted[Len(returned') + i]
  <2>. TAKE i \in 1..Len(queue')
  <2>1. i + 1 \in 1..Len(queue) /\ Len(returned) + (i + 1) = Len(returned') + i
    BY <1>1, <1>4
  <2>. QED
    BY <1>1, <1>2, <2>1
<1>9. request.strict /\ phase' # "bailed" =>
         \A i \in 1..Len(returned') : returned'[i].outcome = "ok"
  BY <1>1, <1>2, <1>6
<1>10. Len(returned') + Len(queue') = Len(Wanted)
  <2>1. \A m, n \in Nat : (m + 1) + (n - 1) = m + n
    OBVIOUS
  <2>2. (Len(returned) + 1) + (Len(queue) - 1) = Len(returned) + Len(queue)
    BY <1>4, <2>1, Zenon
  <2>3. Len(returned') = Len(returned) + 1 /\ Len(queue') = Len(queue) - 1
    BY <1>1
  <2>. QED
    BY <1>2, <2>2, <2>3, Zenon
<1>11. phase' # "resolve" /\ phase' # "done"
  BY <1>1
<1>. QED
  BY <1>1, <1>3, <1>7, <1>8, <1>9, <1>10, <1>11 DEF OrderInv

\* Nothing is queued or returned before the registry resolves.
LEMMA OrderInit ==
    ASSUME Init
    PROVE  OrderInv
<1>1. returned = << >> /\ queue = << >> /\ phase = "resolve" /\ 1..Len(returned) = {}
  BY DEF Init
<1>. QED
  BY <1>1 DEF OrderInv

\* registry.rs, resolve queues those that are wanted; the loop ends when none is left.
LEMMA OrderByStep ==
    ASSUME TypeInv, OrderInv, [Next]_vars
    PROVE  OrderInv'
<1>1. CASE LoopEnds
  <2>1. Wanted' = Wanted
    BY <1>1 DEF LoopEnds, Wanted, Selected
  <2>. QED
    BY <1>1, <2>1 DEF LoopEnds, OrderInv
<1>2. CASE Frame
  <2>1. Wanted' = Wanted
    BY <1>2 DEF Frame, Wanted, Selected
  <2>. QED
    BY <1>2, <2>1 DEF Frame, OrderInv
<1>. QED
  BY <1>1, <1>2, ReturnOrFrame, OrderByResolve, OrderByReturn

\* While llm-toy runs it has not returned before.
LEMMA ToyOnce ==
    ASSUME TypeInv, OrderInv, step # "none", Head(queue).id = "llm-toy"
    PROVE  \A i \in 1..Len(returned) : returned[i].id # "llm-toy"
<1>1. phase = "loop" /\ Head(queue) = queue[1] /\ Len(queue) >= 1
  BY HeadOfQueue DEF TypeInv
<1>2. Len(returned) \in Nat /\ Len(queue) \in Nat
  BY LenProperties DEF TypeInv
<1>3. /\ Len(returned) + Len(queue) = Len(Wanted)
      /\ \A i \in 1..Len(returned) : returned[i].id = Wanted[i]
      /\ \A i \in 1..Len(queue) : queue[i].id = Wanted[Len(returned) + i]
  BY <1>1 DEF OrderInv
<1>4. Wanted[Len(returned) + 1] = "llm-toy" /\ Len(returned) + 1 \in 1..Len(Wanted)
  BY <1>1, <1>2, <1>3
<1>5. \A i \in 1..Len(returned) : i \in 1..Len(Wanted) /\ i # Len(returned) + 1
  BY <1>2, <1>3
<1>. QED
  BY <1>3, <1>4, <1>5, WantedCases

\* A scan that reaches the record loop has run every detector that was asked
\* for, each once and in registration order, and no failed one if it is strict.
THEOREM DetectorsRunInOrder == Spec => []RequestedDetectorsRan
<1>1. Init => TypeInv /\ OrderInv
  BY TypeInit, OrderInit
<1>2. TypeInv /\ OrderInv /\ [Next]_vars => (TypeInv /\ OrderInv)'
  BY TypeByStep, OrderByStep
<1>3. TypeInv /\ OrderInv => RequestedDetectorsRan
  <2>. SUFFICES ASSUME TypeInv, OrderInv, phase = "done" PROVE RequestedDetectorsRan
    BY DEF RequestedDetectorsRan
  <2>. DEFINE wanted == IF request.filter = {}
                        THEN {id \in Id : ~ IsDisabled(request.section[id])}
                        ELSE request.filter \cap Id
              names == [i \in DOMAIN returned |-> returned[i].id]
              asked == [i \in DOMAIN Factories |->
                          IF Factories[i] \in wanted THEN <<Factories[i]>> ELSE << >>]
  <2>1. \A id \in Id : id \in wanted <=> Selected(id)
    BY DEF Selected
  <2>. HIDE DEF wanted
  <2>2. asked = [i \in DOMAIN Factories |->
                    IF Selected(Factories[i]) THEN <<Factories[i]>> ELSE << >>]
    BY <2>1, TwoFactories
  <2>3. FlattenSeq(asked) = Wanted
    BY <2>2 DEF Wanted
  <2>4. returned \in Seq(Result) /\ DOMAIN returned = 1..Len(returned) /\ Len(returned) \in Nat
    BY LenProperties DEF TypeInv
  <2>5. /\ Len(returned) = Len(Wanted)
        /\ \A i \in 1..Len(returned) : returned[i].id = Wanted[i]
    BY <2>4 DEF OrderInv
  <2>6. names \in Seq(Id) /\ Len(names) = Len(returned)
    <3>1. \A i \in 1..Len(returned) : returned[i].id \in Id
      <4>1. \A i \in 1..Len(returned) : returned[i] \in Result
        BY <2>4
      <4>. QED
        BY <4>1 DEF Result
    <3>. QED
      BY <2>4, <3>1
  <2>7. \A i \in 1..Len(names) : names[i] = Wanted[i]
    BY <2>4, <2>5, <2>6
  <2>. HIDE DEF names, asked
  <2>8. names = Wanted
    BY <2>5, <2>6, <2>7, WantedCases, SeqEqual
  <2>9. request.strict => \A i \in DOMAIN returned : returned[i].outcome = "ok"
    BY <2>4 DEF OrderInv
  <2>. QED
    BY <2>3, <2>8, <2>9 DEF RequestedDetectorsRan, names, asked, wanted
<1>. QED
  BY <1>1, <1>2, <1>3, PTL DEF Spec

-----------------------------------------------------------------------------
(* Schemas                                                                 *)

\* What the schemas say of one return.
SchemaDecides(r) ==
    /\ r.outcome = "params" => ~ FitsSchema(r.id)
    /\ r.id = "llm-toy" /\ ~ FitsSchema(r.id) => r.outcome = "params"

\* The detectors' parsers decide as their schemas.
LEMMA ParsersFollowSchemas ==
    ASSUME request \in Requests
    PROVE  /\ ToyAccepts(Params("llm-toy")) <=> FitsSchema("llm-toy")
           /\ AuditAccepts(Params("cargo-audit")) <=> FitsSchema("cargo-audit")
<1>1. \A id \in Id : FitsSchema(id) <=>
         IF id = "llm-toy"
         THEN /\ DOMAIN Params(id) \subseteq ToyOptions
              /\ \A o \in DOMAIN Params(id) : o # "extensions" => Params(id)[o] > 0
         ELSE DOMAIN Params(id) \subseteq AuditOptions
  BY DEF FitsSchema, Params, StripEnabled
<1>2. ASSUME NEW o \in DOMAIN Params("llm-toy"), o \in ToyNumbers
      PROVE  Params("llm-toy")[o] \in Int
  <2>1. /\ o \in DOMAIN request.section["llm-toy"]
        /\ Params("llm-toy")[o] = request.section["llm-toy"][o]
    BY DEF Params, StripEnabled, Restrict
  <2>. QED
    BY <1>2, <2>1, RequestsAssumption
<1>3. ToyAccepts(Params("llm-toy")) <=> FitsSchema("llm-toy")
  <2>. DEFINE p == Params("llm-toy")
  <2>1. FitsSchema("llm-toy") <=> /\ DOMAIN p \subseteq ToyOptions
                                  /\ \A o \in DOMAIN p : o # "extensions" => p[o] > 0
    BY <1>1, TwoFactories
  <2>2. ToyAccepts(p) <=> /\ DOMAIN p \subseteq ToyOptions
                          /\ \A o \in DOMAIN p : o # "extensions" => p[o] >= 1
    BY DEF ToyAccepts
  <2>3. DOMAIN p \subseteq ToyOptions =>
           \A o \in DOMAIN p : o # "extensions" => p[o] \in Int
    BY <1>2 DEF ToyNumbers
  <2>4. \A x \in Int : x > 0 <=> x >= 1
    OBVIOUS
  <2>. HIDE DEF p
  <2>. QED
    BY <2>1, <2>2, <2>3, <2>4 DEF p
<1>4. AuditAccepts(Params("cargo-audit")) <=> FitsSchema("cargo-audit")
  BY <1>1, TwoFactories DEF AuditAccepts
<1>. QED
  BY <1>3, <1>4

SchemaInv == \A i \in 1..Len(returned) : SchemaDecides(returned[i])

\* A result is added with its running detector's params, parsed or refused.
LEMMA SchemaByStep ==
    ASSUME TypeInv, OrderInv, SchemaInv, [Next]_vars
    PROVE  SchemaInv'
<1>1. CASE Resolve \/ LoopEnds \/ Frame
  <2>1. request' = request /\ returned' = returned
    BY <1>1 DEF Resolve, LoopEnds, Frame
  <2>. QED
    BY <2>1 DEF SchemaInv, SchemaDecides, FitsSchema
<1>2. ASSUME NEW outcome \in Outcome, NEW findings \in Seq(Finding),
             Returning(outcome, findings), Justified(outcome, findings)
      PROVE  SchemaInv'
  <2>1. /\ Len(returned') = Len(returned) + 1
        /\ \A i \in 1..Len(returned) : returned'[i] = returned[i]
        /\ returned'[Len(returned) + 1].id = Head(queue).id
        /\ returned'[Len(returned) + 1].outcome = outcome
        /\ request' = request
    BY <1>2, ReturningMoves
  <2>2. Len(returned) \in Nat /\ request \in Requests
    BY LenProperties DEF TypeInv
  <2>3. step = "next" /\ Head(queue).id = "llm-toy" => ToyAccepts(Params("llm-toy"))
    BY DEF TypeInv, ToyBusy
  <2>4. SchemaDecides(returned'[Len(returned) + 1])
    BY <1>2, <2>1, <2>2, <2>3, ParsersFollowSchemas DEF Justified, SchemaDecides
  <2>5. \A i \in 1..Len(returned') : i \in 1..Len(returned) \/ i = Len(returned) + 1
    BY <2>1, <2>2
  <2>6. \A i \in 1..Len(returned') : SchemaDecides(returned'[i])
    BY <2>1, <2>4, <2>5 DEF SchemaInv
  <2>7. \A id : FitsSchema(id)' = FitsSchema(id)
    BY <2>1 DEF FitsSchema
  <2>. QED
    BY <2>6, <2>7 DEF SchemaInv, SchemaDecides
<1>. QED
  BY <1>1, <1>2, ReturnOrFrame

\* The registry, which removes `enabled`, and the detectors' parsers agree with
\* the schemas that the detectors publish.
THEOREM SchemasDecideParams == Spec => []RefusesWhatSchemaRefuses
<1>1. Init => TypeInv /\ OrderInv /\ SchemaInv
  <2>. SUFFICES ASSUME Init PROVE TypeInv /\ OrderInv /\ SchemaInv
    OBVIOUS
  <2>1. returned = << >> /\ 1..Len(returned) = {}
    BY DEF Init
  <2>. QED
    BY <2>1, TypeInit, OrderInit DEF SchemaInv
<1>2. TypeInv /\ OrderInv /\ SchemaInv /\ [Next]_vars => (TypeInv /\ OrderInv /\ SchemaInv)'
  BY TypeByStep, OrderByStep, SchemaByStep
<1>3. TypeInv /\ OrderInv /\ SchemaInv => RefusesWhatSchemaRefuses
  <2>. SUFFICES ASSUME TypeInv, SchemaInv PROVE RefusesWhatSchemaRefuses
    OBVIOUS
  <2>1. DOMAIN returned = 1..Len(returned)
    BY LenProperties DEF TypeInv
  <2>. QED
    BY <2>1 DEF SchemaInv, SchemaDecides, RefusesWhatSchemaRefuses
<1>. QED
  BY <1>1, <1>2, <1>3, PTL DEF Spec

-----------------------------------------------------------------------------
(* What llm-toy's Ok means                                                 *)

Toy == WithDefaults(Params("llm-toy"))
Cap == Toy["max_findings_per_file"]

\* The files that llm-toy has to try.
First ==
    {f \in Matching(Toy) :
        Cardinality({g \in Matching(Toy) : g < f}) < Toy["max_files"]}

Left == {files[i] : i \in DOMAIN files}

Unstarted == tried = {} /\ \A f \in DOMAIN request.files : answered[f] = 0

\* Each file of First is tried or left, the one at hand both; no answer is
\* recorded about one left; the findings are the answers, capped.
Working ==
    /\ \A i, j \in DOMAIN files : files[i] = files[j] => i = j
    /\ \A i \in DOMAIN files : files[i] \in tried <=> i = 1 /\ step \in {"read", "ask"}
    /\ tried \cup Left = First
    /\ \A f \in DOMAIN request.files : f \notin tried \/ f \in Left => answered[f] = 0
    /\ \A f \in DOMAIN request.files : Count(found, f) = Smaller(answered[f], Cap)

\* What the property says of one return of llm-toy.
Whole(r) ==
    r.id = "llm-toy" =>
        IF r.outcome = "ok"
        THEN /\ tried = First
             /\ \A f \in Matching(Toy) : Count(r.findings, f) = Smaller(answered[f], Cap)
        ELSE r.findings = << >>

\* Before llm-toy works; while it works; after it returned.
ToyInv ==
    /\ (\A i \in 1..Len(returned) : returned[i].id # "llm-toy") /\ ~ ToyBusy => Unstarted
    /\ step = "begin" => found = << >>
    /\ ToyBusy => Working
    /\ \A i \in 1..Len(returned) : Whole(returned[i])

\* Findings about one more file.
LEMMA CountConcat ==
    ASSUME NEW s \in Seq(Finding), NEW m \in Nat, NEW f \in Nat, NEW g \in Nat
    PROVE  Count(s \o [i \in 1..m |-> IssueToFinding(f)], g)
             = Count(s, g) + (IF f = g THEN m ELSE 0)
<1>. DEFINE t == [i \in 1..m |-> IssueToFinding(f)]
            n == Len(s)
            u == s \o t
            A == {i \in DOMAIN s : s[i] = IssueToFinding(g)}
            B == IF f = g THEN (n + 1)..(n + m) ELSE {}
            C == {i \in DOMAIN u : u[i] = IssueToFinding(g)}
<1>1. IssueToFinding(f) \in Finding
  BY TwoFactories DEF IssueToFinding, Finding
<1>2. t \in Seq(Finding) /\ Len(t) = m
  BY <1>1
<1>3. n \in Nat /\ DOMAIN s = 1..n
  BY LenProperties
<1>4. /\ u \in Seq(Finding) /\ DOMAIN u = 1..(n + m)
      /\ \A i \in 1..(n + m) : u[i] = IF i <= n THEN s[i] ELSE t[i - n]
  BY <1>2, <1>3, ConcatProperties, LenProperties
<1>5. IssueToFinding(f) = IssueToFinding(g) <=> f = g
  BY DEF IssueToFinding
<1>6. \A i \in 1..m : t[i] = IssueToFinding(f)
  OBVIOUS
<1>. HIDE DEF n, t, u
<1>7. \A i \in (n + 1)..(n + m) : u[i] = IssueToFinding(f)
  <2>. TAKE i \in (n + 1)..(n + m)
  <2>1. i \in 1..(n + m) /\ ~ (i <= n) /\ i - n \in 1..m
    BY <1>3
  <2>. QED
    BY <1>4, <1>6, <2>1
<1>8. \A i \in 1..n : i \in 1..(n + m) /\ u[i] = s[i]
  BY <1>3, <1>4
<1>9. \A i \in 1..(n + m) : i \in 1..n \/ i \in (n + 1)..(n + m)
  BY <1>3
<1>10. C = A \cup B
  <2>1. ASSUME NEW i \in C PROVE i \in A \cup B
    BY <1>3, <1>4, <1>5, <1>7, <1>8, <1>9
  <2>2. ASSUME NEW i \in A PROVE i \in C
    BY <1>3, <1>4, <1>8
  <2>3. ASSUME NEW i \in B PROVE i \in C
    <3>1. f = g /\ i \in (n + 1)..(n + m) /\ i \in 1..(n + m)
      BY <1>3
    <3>. QED
      BY <1>4, <1>7, <3>1
  <2>. QED
    BY <2>1, <2>2, <2>3
<1>11. A \cap B = {}
  BY <1>3
<1>12. IsFiniteSet(A) /\ Cardinality(A) \in Nat
  <2>1. IsFiniteSet(1..n)
    BY <1>3, FS_Interval
  <2>. QED
    BY <1>3, <2>1, FS_Subset, FS_CardinalityType
<1>13. IsFiniteSet(B) /\ Cardinality(B) = IF f = g THEN m ELSE 0
  <2>1. /\ IsFiniteSet((n + 1)..(n + m))
        /\ Cardinality((n + 1)..(n + m)) = IF n + 1 > n + m THEN 0 ELSE (n + m) - (n + 1) + 1
    BY <1>3, FS_Interval
  <2>2. Cardinality((n + 1)..(n + m)) = m
    BY <1>3, <2>1
  <2>. QED
    BY <2>1, <2>2, FS_EmptySet
<1>14. Cardinality(C) = Cardinality(A) + Cardinality(B) - Cardinality(A \cap B)
  BY <1>10, <1>12, <1>13, FS_Union
<1>15. Cardinality(A \cap B) = 0
  BY <1>11, FS_EmptySet
<1>. HIDE DEF A, B, C
<1>16. Cardinality(C) = Cardinality(A) + (IF f = g THEN m ELSE 0)
  BY <1>12, <1>13, <1>14, <1>15
<1>. QED
  BY <1>16 DEF Count, A, C, u, t

\* Without findings there is none about a file.
LEMMA CountNone ==
    ASSUME NEW f
    PROVE  Count(<< >>, f) = 0
<1>1. {i \in DOMAIN << >> : << >>[i] = IssueToFinding(f)} = {}
  OBVIOUS
<1>. QED
  BY <1>1, FS_EmptySet DEF Count

\* What does not change while llm-toy works.
LEMMA ToyConstants ==
    ASSUME request' = request
    PROVE  /\ First' = First /\ Cap' = Cap /\ Toy' = Toy /\ Matching(Toy)' = Matching(Toy)
           /\ ToyAccepts(Params("llm-toy"))' = ToyAccepts(Params("llm-toy"))
BY DEF First, Cap, Toy, Matching, WithDefaults, Params, ToyAccepts

\* A step that leaves llm-toy's records and the returns alone.
LEMMA ToyUntouched ==
    ASSUME TypeInv, ToyInv, request' = request, returned' = returned, answered' = answered,
           tried' = tried, ~ ToyBusy, ~ ToyBusy',
           step' = "begin" => found' = << >>
    PROVE  ToyInv'
<1>1. /\ First' = First /\ Cap' = Cap /\ Matching(Toy)' = Matching(Toy)
  BY ToyConstants
<1>2. \A i \in 1..Len(returned) : Whole(returned[i])'
  BY <1>1 DEF ToyInv, Whole, Count
<1>3. (\A i \in 1..Len(returned) : returned[i].id # "llm-toy") => Unstarted'
  BY DEF ToyInv, Unstarted
<1>. QED
  BY <1>2, <1>3 DEF ToyInv

\* A step of llm-toy that goes on working.
LEMMA ToyGoesOn ==
    ASSUME TypeInv, OrderInv, ToyInv, step # "none", Head(queue).id = "llm-toy",
           request' = request, returned' = returned, ToyBusy', Working'
    PROVE  ToyInv'
<1>1. \A i \in 1..Len(returned) : returned[i].id # "llm-toy"
  BY ToyOnce
<1>2. step' # "begin"
  BY DEF ToyBusy
<1>. QED
  BY <1>1, <1>2 DEF ToyInv, Whole

\* The collected files, and the head and the tail of those left.
LEMMA FilesLeft ==
    ASSUME TypeInv
    PROVE  /\ DOMAIN files = 1..Len(files) /\ Len(files) \in Nat
           /\ \A i \in 1..Len(files) : files[i] \in DOMAIN request.files
           /\ files = << >> => Left = {}
           /\ files # << >> =>
                 /\ Len(files) >= 1 /\ Head(files) = files[1]
                 /\ DOMAIN Tail(files) = 1..(Len(files) - 1)
                 /\ \A i \in 1..(Len(files) - 1) : Tail(files)[i] = files[i + 1]
<1>1. files \in Seq(DOMAIN request.files)
  BY DEF TypeInv
<1>2. /\ DOMAIN files = 1..Len(files) /\ Len(files) \in Nat
      /\ \A i \in 1..Len(files) : files[i] \in DOMAIN request.files
  BY <1>1, LenProperties, ElementOfSeq
<1>3. files = << >> => Left = {}
  BY DEF Left
<1>4. ASSUME files # << >>
      PROVE  /\ Len(files) >= 1 /\ Head(files) = files[1]
             /\ DOMAIN Tail(files) = 1..(Len(files) - 1)
             /\ \A i \in 1..(Len(files) - 1) : Tail(files)[i] = files[i + 1]
  <2>1. /\ Tail(files) \in Seq(DOMAIN request.files) /\ Len(Tail(files)) = Len(files) - 1
        /\ \A i \in 1..Len(Tail(files)) : Tail(files)[i] = files[i + 1]
    BY <1>1, <1>4, HeadTailProperties
  <2>2. Len(files) >= 1 /\ Head(files) = files[1]
    BY <1>1, <1>2, <1>4, EmptySeq
  <2>3. DOMAIN Tail(files) = 1..Len(Tail(files))
    BY <2>1, LenProperties
  <2>. QED
    BY <2>1, <2>2, <2>3
<1>. QED
  BY <1>2, <1>3, <1>4

\* lib.rs: the walk's sorted and cut list is First, none of it tried.
LEMMA ToyInvByCollects ==
    ASSUME TypeInv, OrderInv, ToyInv, ToyCollects
    PROVE  ToyInv'
<1>1. /\ step = "begin" /\ Head(queue).id = "llm-toy" /\ ToyAccepts(Params("llm-toy"))
      /\ Head(queue).params = Params("llm-toy") /\ step # "none"
  BY ToyRuns DEF ToyCollects
<1>2. ToyParams = Toy /\ request \in Requests
  BY <1>1 DEF ToyParams, Toy, TypeInv
<1>3. files' = CollectFiles(Toy)
  BY <1>2 DEF ToyCollects
<1>4. /\ request' = request /\ returned' = returned /\ step' = "next" /\ found' = found
      /\ answered' = answered /\ tried' = tried
  BY DEF ToyCollects, Goto, history
<1>5. /\ \A i, j \in DOMAIN files' : files'[i] = files'[j] => i = j
      /\ Left' = First
  BY <1>1, <1>2, <1>3, CollectFilesRanks DEF Left, First, Toy
<1>6. Unstarted /\ found = << >>
  BY <1>1, ToyOnce DEF ToyInv, ToyBusy
<1>7. First' = First /\ Cap' = Cap
  BY <1>4, ToyConstants
<1>8. \A f \in DOMAIN request.files : Count(found, f) = Smaller(answered[f], Cap)
  <2>1. Cap \in Nat \ {0}
    BY <1>1, <1>2, NumbersArePositive DEF Cap, Toy, ToyNumbers, ToyOptions
  <2>2. Smaller(0, Cap) = 0
    BY <2>1 DEF Smaller
  <2>. QED
    BY <1>6, <2>2, CountNone DEF Unstarted
<1>9. Working'
  <2>1. \A i \in DOMAIN files' : ~ (files'[i] \in tried')
    BY <1>4, <1>6 DEF Unstarted
  <2>2. tried' \cup Left' = First'
    BY <1>4, <1>5, <1>6, <1>7 DEF Unstarted
  <2>3. \A f \in DOMAIN request.files : answered'[f] = 0
    BY <1>4, <1>6 DEF Unstarted
  <2>4. \A f \in DOMAIN request.files : Count(found, f)' = Smaller(answered[f], Cap)'
    BY <1>4, <1>7, <1>8 DEF Count, Smaller
  <2>. QED
    BY <1>4, <1>5, <2>1, <2>2, <2>3, <2>4 DEF Working
<1>. QED
  BY <1>1, <1>4, <1>9, ToyGoesOn DEF ToyBusy

\* A file that is opened is tried and still at hand.
LEMMA ToyInvByReads ==
    ASSUME TypeInv, OrderInv, ToyInv, ToyReads
    PROVE  ToyInv'
<1>1. /\ step = "next" /\ Head(queue).id = "llm-toy" /\ files # << >>
      /\ request' = request /\ returned' = returned /\ step' = "read" /\ found' = found
      /\ answered' = answered /\ tried' = tried \cup {Head(files)} /\ files' = files
  BY DEF ToyReads, Running, Goto
<1>2. Working
  BY <1>1 DEF ToyInv, ToyBusy
<1>3. First' = First /\ Cap' = Cap /\ Left' = Left
  BY <1>1, ToyConstants DEF Left
<1>4. /\ DOMAIN files = 1..Len(files) /\ Len(files) >= 1 /\ Len(files) \in Nat
      /\ Head(files) = files[1]
  BY <1>1, FilesLeft
<1>5. \A i \in DOMAIN files : files[i] \in tried' <=> i = 1
  BY <1>1, <1>2, <1>4 DEF Working
<1>6. files[1] \in Left
  BY <1>4 DEF Left
<1>7. tried' \cup Left = First
  BY <1>1, <1>2, <1>4, <1>6 DEF Working
<1>8. \A f \in DOMAIN request.files : f \notin tried' \/ f \in Left => answered[f] = 0
  BY <1>1, <1>2 DEF Working
<1>9. \A f \in DOMAIN request.files : Count(found, f)' = Smaller(answered[f], Cap)'
  BY <1>1, <1>2, <1>3 DEF Working, Count, Smaller
<1>10. Working'
  BY <1>1, <1>2, <1>3, <1>5, <1>7, <1>8, <1>9 DEF Working
<1>. QED
  BY <1>1, <1>10, ToyGoesOn DEF ToyBusy

\* A request changes nothing of what is tried or found.
LEMMA ToyInvByAsks ==
    ASSUME TypeInv, OrderInv, ToyInv, ToyAsks
    PROVE  ToyInv'
<1>1. /\ step = "read" /\ Head(queue).id = "llm-toy"
      /\ request' = request /\ returned' = returned /\ step' = "ask" /\ found' = found
      /\ answered' = answered /\ tried' = tried /\ files' = files
  BY DEF ToyAsks, Running, Goto
<1>2. Working
  BY <1>1 DEF ToyInv, ToyBusy
<1>3. First' = First /\ Cap' = Cap /\ Left' = Left
  BY <1>1, ToyConstants DEF Left
<1>4. \A f \in DOMAIN request.files : Count(found, f)' = Smaller(answered[f], Cap)'
  BY <1>1, <1>2, <1>3 DEF Working, Count, Smaller
<1>5. Working'
  BY <1>1, <1>2, <1>3, <1>4 DEF Working
<1>. QED
  BY <1>1, <1>5, ToyGoesOn DEF ToyBusy

\* The files left without the head: it stays tried, the others stay untried.
LEMMA TailLeft ==
    ASSUME TypeInv, Working, files # << >>, step \in {"read", "ask"}, files' = Tail(files),
           step' = "next", tried' = tried
    PROVE  /\ \A i, j \in DOMAIN files' : files'[i] = files'[j] => i = j
           /\ \A i \in DOMAIN files' : files'[i] \notin tried'
           /\ tried' \cup Left' = First
           /\ Left' \subseteq Left /\ Head(files) \in tried /\ Head(files) \notin Left'
           /\ Head(files) \in Left
<1>1. /\ DOMAIN files = 1..Len(files) /\ Len(files) >= 1 /\ Len(files) \in Nat
      /\ Head(files) = files[1] /\ DOMAIN files' = 1..(Len(files) - 1)
      /\ \A i \in 1..(Len(files) - 1) : files'[i] = files[i + 1]
  BY FilesLeft
<1>2. \A i \in DOMAIN files' : i + 1 \in DOMAIN files /\ files'[i] = files[i + 1] /\ i + 1 # 1
                               /\ i \in Int
  BY <1>1
<1>3. /\ \A i, j \in DOMAIN files : files[i] = files[j] => i = j
      /\ \A i \in DOMAIN files : files[i] \in tried <=> i = 1
      /\ tried \cup Left = First
  BY DEF Working
<1>4. \A i, j \in DOMAIN files' : files'[i] = files'[j] => i = j
  <2>. TAKE i, j \in DOMAIN files'
  <2>1. files'[i] = files'[j] => i + 1 = j + 1
    BY <1>2, <1>3
  <2>2. i + 1 = j + 1 => i = j
    BY <1>2
  <2>. QED
    BY <2>1, <2>2
<1>5. \A i \in DOMAIN files' : files'[i] \notin tried
  BY <1>2, <1>3
<1>6. Left' \subseteq Left
  BY <1>2 DEF Left
<1>7. Head(files) \in tried /\ Head(files) \in Left
  BY <1>1, <1>3 DEF Left
<1>8. Head(files) \notin Left'
  BY <1>5, <1>7 DEF Left
<1>9. ASSUME NEW f \in Left PROVE f \in tried \cup Left'
  <2>1. PICK i \in DOMAIN files : f = files[i]
    BY DEF Left
  <2>2. CASE i = 1
    BY <1>3, <2>1, <2>2
  <2>3. CASE i # 1
    <3>1. i - 1 \in DOMAIN files' /\ (i - 1) + 1 = i
      BY <1>1, <2>1, <2>3
    <3>2. files'[i - 1] = f
      BY <1>2, <2>1, <3>1
    <3>. QED
      BY <3>1, <3>2 DEF Left
  <2>. QED
    BY <2>2, <2>3
<1>. QED
  BY <1>3, <1>4, <1>5, <1>6, <1>7, <1>8, <1>9

\* A file that is skipped stays tried, without an answer or findings.
LEMMA ToyInvBySkips ==
    ASSUME TypeInv, OrderInv, ToyInv, ToySkips
    PROVE  ToyInv'
<1>1. /\ step \in {"read", "ask"} /\ Head(queue).id = "llm-toy"
      /\ request' = request /\ returned' = returned /\ step' = "next" /\ found' = found
      /\ answered' = answered /\ tried' = tried /\ files' = Tail(files)
  BY DEF ToySkips, Running, Goto, history
<1>2. Working /\ files # << >>
  BY <1>1 DEF ToyInv, ToyBusy, TypeInv
<1>3. First' = First /\ Cap' = Cap
  BY <1>1, ToyConstants
<1>4. /\ \A i, j \in DOMAIN files' : files'[i] = files'[j] => i = j
      /\ \A i \in DOMAIN files' : files'[i] \notin tried'
      /\ tried' \cup Left' = First /\ Left' \subseteq Left
  BY <1>1, <1>2, TailLeft
<1>5. \A f \in DOMAIN request.files : f \notin tried' \/ f \in Left' => answered[f] = 0
  BY <1>1, <1>2, <1>4 DEF Working
<1>6. \A f \in DOMAIN request.files : Count(found, f)' = Smaller(answered[f], Cap)'
  BY <1>1, <1>2, <1>3 DEF Working, Count, Smaller
<1>7. Working'
  BY <1>1, <1>3, <1>4, <1>5, <1>6 DEF Working
<1>. QED
  BY <1>1, <1>7, ToyGoesOn DEF ToyBusy

\* An answer's findings, capped, are those about the file at hand, which is done.
LEMMA ToyInvByAnswered ==
    ASSUME TypeInv, OrderInv, ToyInv, NEW n \in 0..MaxReported, ToyAnswered(n)
    PROVE  ToyInv'
<1>. DEFINE h == Head(files)
            new == [i \in 1..Taken(n) |-> IssueToFinding(h)]
<1>1. /\ step = "ask" /\ Head(queue).id = "llm-toy"
      /\ request' = request /\ returned' = returned /\ step' = "next"
      /\ found' = found \o new
      /\ answered' = [answered EXCEPT ![h] = n] /\ tried' = tried /\ files' = Tail(files)
  BY DEF ToyAnswered, Running, Goto
<1>2. Working /\ files # << >> /\ Head(queue) = Item("llm-toy")
      /\ ToyAccepts(Params("llm-toy"))
  BY <1>1 DEF ToyInv, ToyBusy, TypeInv
<1>3. First' = First /\ Cap' = Cap
  BY <1>1, ToyConstants
<1>4. /\ \A i, j \in DOMAIN files' : files'[i] = files'[j] => i = j
      /\ \A i \in DOMAIN files' : files'[i] \notin tried'
      /\ tried' \cup Left' = First /\ Left' \subseteq Left
      /\ h \in tried /\ h \notin Left' /\ h \in Left
  BY <1>1, <1>2, TailLeft
<1>5. /\ request \in Requests /\ found \in Seq(Finding)
      /\ answered \in [DOMAIN request.files -> 0..MaxReported]
      /\ DOMAIN request.files \in SUBSET Nat /\ h \in DOMAIN request.files
  <2>1. h \in DOMAIN request.files
    BY <1>2, FilesLeft
  <2>. QED
    BY <2>1, RequestsAssumption DEF TypeInv
<1>6. Taken(n) \in Nat /\ Taken(n) = Smaller(n, Cap)
  BY <1>2, <1>5, TakenTyped DEF Cap, Toy
<1>7. Cap \in Nat \ {0}
  BY <1>2, <1>5, NumbersArePositive DEF Cap, Toy, ToyNumbers, ToyOptions
<1>8. \A f \in DOMAIN request.files : answered'[f] = IF f = h THEN n ELSE answered[f]
  BY <1>1, <1>5
<1>9. \A f \in DOMAIN request.files : f \notin tried' \/ f \in Left' => answered'[f] = 0
  BY <1>1, <1>2, <1>4, <1>8 DEF Working
<1>10. \A f \in DOMAIN request.files : Count(found, f)' = Smaller(answered[f], Cap)'
  <2>. TAKE f \in DOMAIN request.files
  <2>1. Count(found', f) = Count(found, f) + (IF h = f THEN Taken(n) ELSE 0)
    BY <1>1, <1>5, <1>6, CountConcat
  <2>2. Count(found, f) = Smaller(answered[f], Cap)
    BY <1>2 DEF Working
  <2>3. Smaller(answered[f], Cap) \in Nat /\ Smaller(0, Cap) = 0
    BY <1>5, <1>7, RequestsAssumption DEF Smaller
  <2>4. Count(found', f) = Smaller(answered'[f], Cap)
    <3>1. CASE f = h
      <4>1. answered[h] = 0 /\ answered'[h] = n
        BY <1>2, <1>4, <1>5, <1>8 DEF Working
      <4>2. Count(found', f) = 0 + Taken(n)
        BY <2>1, <2>2, <2>3, <3>1, <4>1
      <4>. QED
        BY <1>6, <3>1, <4>1, <4>2
    <3>2. CASE f # h
      BY <1>8, <2>1, <2>2, <2>3, <3>2
    <3>. QED
      BY <3>1, <3>2
  <2>5. Smaller(answered[f], Cap)' = Smaller(answered'[f], Cap)
    BY <1>3 DEF Smaller
  <2>6. Count(found, f)' = Count(found', f)
    BY DEF Count
  <2>. QED
    BY <2>4, <2>5, <2>6
<1>. HIDE DEF new, h
<1>11. Working'
  BY <1>1, <1>3, <1>4, <1>9, <1>10 DEF Working
<1>. QED
  BY <1>1, <1>11, ToyGoesOn DEF ToyBusy

\* What llm-toy returns with Ok is whole, as no file is left; its errors are empty.
LEMMA ToyInvByReturn ==
    ASSUME TypeInv, OrderInv, ToyInv, NEW outcome \in Outcome, NEW findings \in Seq(Finding),
           Returning(outcome, findings), Justified(outcome, findings)
    PROVE  ToyInv'
<1>. DEFINE last == Len(returned) + 1
<1>1. /\ Len(returned') = Len(returned) + 1
      /\ \A i \in 1..Len(returned) : returned'[i] = returned[i]
      /\ returned'[last].id = Head(queue).id
      /\ returned'[last].outcome = outcome /\ returned'[last].findings = findings
      /\ request' = request
  BY ReturningMoves
<1>2. /\ step' = "none" /\ tried' = tried /\ answered' = answered /\ step # "none"
      /\ Len(returned) \in Nat
  BY LenProperties DEF Returning, Return, history, TypeInv
<1>3. First' = First /\ Cap' = Cap /\ Matching(Toy)' = Matching(Toy)
  BY <1>1, ToyConstants
<1>4. \A i \in 1..Len(returned') : i \in 1..Len(returned) \/ i = last
  BY <1>1, <1>2
<1>5. Head(queue).id = "llm-toy" \/ (Head(queue).id = "cargo-audit" /\ ~ ToyBusy)
  <2>1. ToyBusy => Head(queue).id = "llm-toy"
    BY DEF TypeInv, Item
  <2>. QED
    BY <1>2, <2>1, HeadOfQueue, TwoFactories
<1>6. Whole(returned'[last])
  <2>1. CASE Head(queue).id = "llm-toy" /\ outcome = "ok"
    <3>1. step = "next" /\ findings = found /\ files = << >>
      BY <2>1 DEF Justified
    <3>2. Working /\ Left = {}
      BY <3>1, FilesLeft DEF ToyInv, ToyBusy
    <3>3. tried = First
      BY <3>2 DEF Working
    <3>4. Matching(Toy) \subseteq DOMAIN request.files
      BY DEF Matching
    <3>5. \A f \in Matching(Toy) : Count(findings, f) = Smaller(answered[f], Cap)
      BY <3>1, <3>2, <3>4 DEF Working
    <3>6. /\ returned'[last].outcome = "ok" /\ returned'[last].findings = findings
          /\ returned'[last].id = "llm-toy"
      BY <1>1, <2>1
    <3>. HIDE DEF last
    <3>. QED
      BY ONLY <3>3, <3>5, <3>6, Zenon DEF Whole
  <2>2. CASE Head(queue).id = "llm-toy" /\ outcome # "ok"
    BY <1>1, <2>2 DEF Justified, Whole
  <2>3. CASE Head(queue).id = "cargo-audit"
    BY <1>1, <2>3 DEF Whole
  <2>. QED
    BY <1>5, <2>1, <2>2, <2>3
<1>7. \A i \in 1..Len(returned') : Whole(returned'[i])
  BY <1>1, <1>4, <1>6 DEF ToyInv
<1>8. \A r : Whole(r) => Whole(r)'
  BY <1>2, <1>3 DEF Whole, Count
<1>9. (\A i \in 1..Len(returned') : returned'[i].id # "llm-toy") => Unstarted'
  <2>. SUFFICES ASSUME \A i \in 1..Len(returned') : returned'[i].id # "llm-toy"
                PROVE  Unstarted'
    OBVIOUS
  <2>1. /\ \A i \in 1..Len(returned) : i \in 1..Len(returned')
        /\ last \in 1..Len(returned')
    BY <1>1, <1>2
  <2>2. ~ ToyBusy /\ \A i \in 1..Len(returned) : returned[i].id # "llm-toy"
    BY <1>1, <1>5, <2>1
  <2>. QED
    BY <1>1, <1>2, <2>2 DEF ToyInv, Unstarted
<1>10. \A i \in 1..Len(returned') : Whole(returned[i])'
  BY <1>7, <1>8
<1>. QED
  BY <1>2, <1>9, <1>10 DEF ToyInv, ToyBusy

\* No other step has to do with llm-toy's files and findings.
LEMMA ToyInvByStep ==
    ASSUME TypeInv, OrderInv, ToyInv, [Next]_vars
    PROVE  ToyInv'
<1>1. CASE Resolve
  BY <1>1, ToyUntouched DEF Resolve, TypeInv, ToyBusy, history
<1>2. CASE StartDetector
  BY <1>2, ToyUntouched DEF StartDetector, ToyBusy
<1>3. CASE LoopEnds
  BY <1>3, ToyUntouched DEF LoopEnds, ToyBusy, history
<1>4. CASE AuditSpawns
  <2>1. step = "begin" /\ step' = "audit" /\ UNCHANGED <<request, returned, history>>
    BY <1>4 DEF AuditSpawns, Running, Goto
  <2>. QED
    BY <2>1, ToyUntouched DEF ToyBusy, history
<1>5. CASE Cancel \/ Tick \/ UNCHANGED vars
  <2>1. UNCHANGED <<request, returned, answered, tried, step, found, files, queue>>
    BY <1>5 DEF Cancel, Tick, vars, control, history
  <2>2. First' = First /\ Cap' = Cap /\ Matching(Toy)' = Matching(Toy) /\ Left' = Left
    BY <2>1, ToyConstants DEF Left
  <2>3. Working' = Working
    BY <2>1, <2>2 DEF Working, Count, Smaller
  <2>4. \A i \in 1..Len(returned) : Whole(returned[i])'
    BY <2>1, <2>2 DEF ToyInv, Whole, Count
  <2>. QED
    BY <2>1, <2>3, <2>4 DEF ToyInv, Unstarted, ToyBusy
<1>6. CASE ToyStep \/ AuditStep \/ Subprocess
  <2>1. \/ \E outcome \in Outcome, findings \in Seq(Finding) :
              Returning(outcome, findings) /\ Justified(outcome, findings)
        \/ ToyCollects \/ ToyReads \/ ToySkips \/ ToyAsks \/ AuditSpawns
        \/ \E n \in 0..MaxReported : ToyAnswered(n)
    BY <1>6, RunningReturns
  <2>. QED
    BY <2>1, <1>4, ToyInvByReturn, ToyInvByCollects, ToyInvByReads, ToyInvBySkips,
       ToyInvByAsks, ToyInvByAnswered
<1>. QED
  BY <1>1, <1>2, <1>3, <1>5, <1>6 DEF Next, OwnStep

\* A scan starts with no file tried.
LEMMA ToyInit ==
    ASSUME Init
    PROVE  ToyInv
<1>1. /\ returned = << >> /\ 1..Len(returned) = {} /\ step = "none" /\ tried = {}
      /\ answered = [f \in DOMAIN request.files |-> 0]
  BY DEF Init
<1>. QED
  BY <1>1 DEF ToyInv, ToyBusy, Unstarted

\* An Ok of llm-toy is about exactly the first max_files matching files, and its
\* findings are what the model answered about each, capped; an error of it carries
\* no findings.
THEOREM OkIsWhole == Spec => []OkMeansEveryFile
<1>1. Init => TypeInv /\ OrderInv /\ ToyInv
  BY TypeInit, OrderInit, ToyInit
<1>2. TypeInv /\ OrderInv /\ ToyInv /\ [Next]_vars => (TypeInv /\ OrderInv /\ ToyInv)'
  BY TypeByStep, OrderByStep, ToyInvByStep
<1>3. TypeInv /\ OrderInv /\ ToyInv => OkMeansEveryFile
  <2>. SUFFICES ASSUME TypeInv, ToyInv PROVE OkMeansEveryFile
    OBVIOUS
  <2>1. DOMAIN returned = 1..Len(returned)
    BY LenProperties DEF TypeInv
  <2>2. \A i \in DOMAIN returned : Whole(returned[i])
    BY <2>1 DEF ToyInv
  <2>. QED
    BY <2>2 DEF OkMeansEveryFile, Whole, First, Cap, Toy, Matching, Params
<1>. QED
  BY <1>1, <1>2, <1>3, PTL DEF Spec
=============================================================================
