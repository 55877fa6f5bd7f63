------------------------------ MODULE ToolHost ------------------------------
(***************************************************************************)
(* The tool host of crate ph0b0s-llm-adk (AdkToolHost): one registry of     *)
(* tools shared by every agent call, filled by register_native and by       *)
(* mounting MCP servers.  Its state is five mutexes; no operation holds two *)
(* of them, so every critical section is a step of its own and other tasks  *)
(* run in between.                                                          *)
(***************************************************************************)
EXTENDS Naturals, Sequences

CONSTANTS
    Call,       \* the agent calls that invoke tools
    ToolName,
    Mount,      \* the mount_mcp requests
    transport,  \* transport[m]: "stdio", "sse" or "streamable_http"
    serves,     \* serves[m]: the tool names the server lists
    MaxCanned   \* bound: canned answers seeded in one behaviour

ASSUME HostConstants ==
    /\ transport \in [Mount -> {"stdio", "sse", "streamable_http"}]
    /\ serves \in [Mount -> SUBSET ToolName]
    /\ {"absent", "local"} \cap Mount = {}
    /\ MaxCanned \in Nat

VARIABLES
    native,       \* native_tools: whose tool a name stands for
    canned,       \* canned: answers seeded for a name
    seeded,       \* how many were seeded (for MaxCanned)
    mountStep,    \* mountStep[m]: the section mount_mcp enters next
    handles,      \* mcp_handles: the mounts whose handle is in the list
    mounted,      \* mounted_mcp
    cancelled,    \* the mounts whose token was cancelled
    invoked,      \* invoked[c]: the part of `invocations` that call c logged
    invocation    \* invocation[c]: the invoke call c is in

host == <<native, canned, seeded, mountStep, handles, mounted, cancelled,
          invoked, invocation>>

Owner  == Mount \cup {"absent", "local"}
Result == {"ok", "error", "unknown"}

\* The sections of mount_mcp after its await on mcp::mount, in the code's order.
MountStep == {"idle", "connecting", "register", "handle", "record", "done", "failed"}

\* The sections of invoke, with its parameter and what it will return.
NoInvocation == [step |-> "none", name |-> "", result |-> "unknown"]
Invocation ==
    [step : {"logged", "lookup", "calling", "answered"}, name : ToolName,
     result : Result] \cup {NoInvocation}

HostTypeOK ==
    /\ native \in [ToolName -> Owner]
    /\ canned \in [ToolName -> Seq({"ok", "error"})]
    /\ seeded \in 0..MaxCanned
    /\ mountStep \in [Mount -> MountStep]
    /\ handles \in SUBSET Mount
    /\ mounted \in SUBSET Mount
    /\ cancelled \in SUBSET Mount
    /\ invoked \in [Call -> Seq(ToolName)]
    /\ invocation \in [Call -> Invocation]

HostInit ==
    /\ native = [n \in ToolName |-> "absent"]
    /\ canned = [n \in ToolName |-> << >>]
    /\ seeded = 0
    /\ mountStep = [m \in Mount |-> "idle"]
    /\ handles = {}
    /\ mounted = {}
    /\ cancelled = {}
    /\ invoked = [c \in Call |-> << >>]
    /\ invocation = [c \in Call |-> NoInvocation]

\* list()
Listed == {n \in ToolName : native[n] # "absent"}

-----------------------------------------------------------------------------
(* Filling the registry                                                    *)

RegisterNative(n) ==
    /\ native' = [native EXCEPT ![n] = "local"]
    /\ UNCHANGED <<canned, seeded, mountStep, handles, mounted, cancelled,
                   invoked, invocation>>

\* enqueue_response and enqueue_error, which tests use.
Enqueue(n, result) ==
    /\ seeded < MaxCanned
    /\ seeded' = seeded + 1
    /\ canned' = [canned EXCEPT ![n] = Append(@, result)]
    /\ UNCHANGED <<native, mountStep, handles, mounted, cancelled, invoked, invocation>>

MountGoto(m, from, to) ==
    /\ mountStep[m] = from
    /\ mountStep' = [mountStep EXCEPT ![m] = to]

\* A transport that is not stdio is recorded and not connected.
MountStart(m) ==
    /\ IF transport[m] = "stdio"
       THEN MountGoto(m, "idle", "connecting") /\ UNCHANGED mounted
       ELSE MountGoto(m, "idle", "done") /\ mounted' = mounted \cup {m}
    /\ UNCHANGED <<native, canned, seeded, handles, cancelled, invoked, invocation>>

\* mcp::mount spawns the server and lists its tools, or fails.
MountConnects(m) ==
    /\ \/ MountGoto(m, "connecting", "register")
       \/ MountGoto(m, "connecting", "failed")
    /\ UNCHANGED <<native, canned, seeded, handles, mounted, cancelled, invoked, invocation>>

\* A name that is taken goes to the last mount.
MountRegister(m) ==
    /\ MountGoto(m, "register", "handle")
    /\ native' = [n \in ToolName |-> IF n \in serves[m] THEN m ELSE native[n]]
    /\ UNCHANGED <<canned, seeded, handles, mounted, cancelled, invoked, invocation>>

\* Mutant: the handle is dropped.
MountForgetsHandle(m) ==
    /\ MountGoto(m, "handle", "record")
    /\ UNCHANGED <<native, canned, seeded, handles, mounted, cancelled, invoked, invocation>>

MountHandle(m) ==
    /\ MountGoto(m, "handle", "record")
    /\ handles' = handles \cup {m}
    /\ UNCHANGED <<native, canned, seeded, mounted, cancelled, invoked, invocation>>

MountRecord(m) ==
    /\ MountGoto(m, "record", "done")
    /\ mounted' = mounted \cup {m}
    /\ UNCHANGED <<native, canned, seeded, handles, cancelled, invoked, invocation>>

\* Mutant: the tools of the cancelled servers leave the registry.
ShutdownForgetsTools ==
    /\ handles # {}
    /\ cancelled' = cancelled \cup handles
    /\ handles' = {}
    /\ native' = [n \in ToolName |-> IF native[n] \in handles THEN "absent" ELSE native[n]]
    /\ UNCHANGED <<canned, seeded, mountStep, mounted, invoked, invocation>>

\* Drains the list, then cancels what it held; the tools stay registered.
ShutdownMcp ==
    /\ handles # {}
    /\ cancelled' = cancelled \cup handles
    /\ handles' = {}
    /\ UNCHANGED <<native, canned, seeded, mountStep, mounted, invoked, invocation>>

HostNext ==
    \/ \E n \in ToolName : RegisterNative(n) \/ \E res \in {"ok", "error"} : Enqueue(n, res)
    \/ \E m \in Mount : \/ MountStart(m) \/ MountConnects(m)
                        \/ MountRegister(m) \/ MountHandle(m) \/ MountRecord(m)
    \/ ShutdownMcp

-----------------------------------------------------------------------------
(* invoke: log it, try a canned answer, look the name up, call the tool     *)

InInvoke(c, step) == invocation[c].step = step

LogInvocation(c, n) ==
    /\ InInvoke(c, "none")
    /\ invoked' = [invoked EXCEPT ![c] = Append(@, n)]
    /\ invocation' = [invocation EXCEPT
                         ![c] = [NoInvocation EXCEPT !.step = "logged", !.name = n]]
    /\ UNCHANGED <<native, canned, seeded, mountStep, handles, mounted, cancelled>>

TakeCanned(c) ==
    /\ InInvoke(c, "logged")
    /\ LET n == invocation[c].name
       IN  IF canned[n] = << >>
           THEN /\ invocation' = [invocation EXCEPT ![c] = [@ EXCEPT !.step = "lookup"]]
                /\ UNCHANGED canned
           ELSE /\ invocation' = [invocation EXCEPT
                      ![c] = [@ EXCEPT !.step = "answered", !.result = Head(canned[n])]]
                /\ canned' = [canned EXCEPT ![n] = Tail(@)]
    /\ UNCHANGED <<native, seeded, mountStep, handles, mounted, cancelled, invoked>>

LookUp(c) ==
    /\ InInvoke(c, "lookup")
    /\ invocation' = [invocation EXCEPT ![c] =
                         IF native[@.name] = "absent"
                         THEN [@ EXCEPT !.step = "answered", !.result = "unknown"]
                         ELSE [@ EXCEPT !.step = "calling"]]
    /\ UNCHANGED <<native, canned, seeded, mountStep, handles, mounted, cancelled, invoked>>

\* The tool is awaited.  One of a cancelled server fails, unless its answer
\* was on the way: either may come.
ToolReturns(c) ==
    /\ InInvoke(c, "calling")
    /\ \E res \in {"ok", "error"} :
          invocation' = [invocation EXCEPT
                            ![c] = [@ EXCEPT !.step = "answered", !.result = res]]
    /\ UNCHANGED <<native, canned, seeded, mountStep, handles, mounted, cancelled, invoked>>

\* The caller takes the result, or drops the future.
EndInvoke(c) ==
    /\ invocation' = [invocation EXCEPT ![c] = NoInvocation]
    /\ UNCHANGED <<native, canned, seeded, mountStep, handles, mounted, cancelled, invoked>>

InvokeNext(c) ==
    \/ \E n \in ToolName : LogInvocation(c, n)
    \/ TakeCanned(c) \/ LookUp(c) \/ ToolReturns(c) \/ EndInvoke(c)

\* The host by itself: what anybody who uses it may see.
HostSpec == HostInit /\ [][HostNext \/ \E c \in Call : InvokeNext(c)]_host

-----------------------------------------------------------------------------
(* Properties                                                              *)

\* mount_mcp stores the handle and the spec in two sections, and shutdown_mcp
\* may run between any two of them: still every stdio server that is listed as
\* mounted has been cancelled or is cancelled by the next shutdown.
MountedServersAreCancellable ==
    \A m \in mounted : transport[m] = "stdio" => m \in handles \cup cancelled
=============================================================================
