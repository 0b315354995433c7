---------------------------- MODULE RefreshLock -----------------------------
(***************************************************************************)
(* The lock that keeps one refresh cycle at a time on a machine: the       *)
(* directory logs/.refresh.lock with a pid in it, taken by                 *)
(* scripts/refresh.sh for a cycle and by scripts/push-remote.ts for a      *)
(* mirror of its own.  An action is one step that the other processes can  *)
(* come between.                                                           *)
(*                                                                         *)
(* A process is its pid.  A pid is not used again while the lock still     *)
(* names it: a stranger with the pid of a dead cycle is not modelled.      *)
(***************************************************************************)
EXTENDS Naturals

CONSTANTS
    Shells,         \* pids of refresh.sh
    Mirrors,        \* pids of push-remote.ts without --in-cycle
    MaxCrashes      \* bound: processes killed without their EXIT trap

\* What a pid is: no shell is a mirror, and the marks of a lock without a pid
\* are no pids.
LockAssumption ==
    /\ Shells \cap Mirrors = {} /\ MaxCrashes \in Nat
    /\ {"free", "empty"} \cap (Shells \cup Mirrors) = {}

Procs == Shells \cup Mirrors

VARIABLES
    lock,           \* "free", "empty" (a directory without a pid), or its pid
    proc,           \* where a process is, and the pid it read from the lock
    crashes,
    overlapped,     \* history: since all were off, a start met another under way
    sole            \* history: the process whose cycle began undisturbed, while it runs

vars == <<lock, proc, crashes, overlapped, sole>>

Nobody == "empty"
Off == [pc |-> "off", other |-> Nobody]

Init ==
    /\ lock = "free"
    /\ proc = [p \in Procs |-> Off]
    /\ crashes = 0
    /\ overlapped = FALSE
    /\ sole = Nobody

Alive(p) == p \in Procs /\ proc[p].pc # "off"

Goto(p, pc) == proc' = [proc EXCEPT ![p].pc = pc]
Quit(p) == proc' = [proc EXCEPT ![p] = Off]

\* Nobody is on the way between a launch and its cycle.
Calm == \A p \in Procs : proc[p].pc \in {"off", "cycle"}

\* launchd, the local refresh button, or a person at a shell, at any time.
Launch(p) ==
    /\ proc[p].pc = "off" /\ lock # p
    /\ \A q \in Procs : proc[q].other # p
    /\ Goto(p, "mkdir")
    /\ overlapped' = ((overlapped /\ \E q \in Procs : Alive(q)) \/ ~Calm)
    /\ UNCHANGED <<lock, crashes, sole>>

Mkdir(p) ==
    /\ proc[p].pc = "mkdir"
    /\ IF lock = "free" THEN lock' = "empty" /\ Goto(p, "write")
                        ELSE UNCHANGED lock /\ Goto(p, "read")
    /\ UNCHANGED <<crashes, overlapped, sole>>

\* Mutant of ReadPid: whatever is found is taken for a pid.
ReadAnything(p) ==
    /\ proc[p].pc = "read"
    /\ proc' = [proc EXCEPT ![p] = [pc |-> "probe", other |-> lock]]
    /\ UNCHANGED <<lock, crashes, overlapped, sole>>

\* cat, which prints nothing when there is no pid; readFileSync, which throws.
ReadPid(p) ==
    /\ proc[p].pc = "read"
    /\ IF lock \in Procs
       THEN proc' = [proc EXCEPT ![p] = [pc |-> "probe", other |-> lock]]
       ELSE IF p \in Shells THEN Goto(p, "probe") ELSE Quit(p)
    /\ UNCHANGED <<lock, crashes, overlapped, sole>>

\* Mutants of Probe: a lock that is there is stale, or is never stale.
ProbeStale(p) ==
    /\ proc[p].pc = "probe"
    /\ proc' = [proc EXCEPT ![p] = [Off EXCEPT !.pc = "remove"]]
    /\ UNCHANGED <<lock, crashes, overlapped, sole>>

ProbeHeld(p) == proc[p].pc = "probe" /\ Quit(p) /\ UNCHANGED <<lock, crashes, overlapped, sole>>

\* kill -0
Probe(p) ==
    /\ proc[p].pc = "probe"
    /\ IF Alive(proc[p].other) THEN Quit(p)
                               ELSE proc' = [proc EXCEPT ![p] = [Off EXCEPT !.pc = "remove"]]
    /\ UNCHANGED <<lock, crashes, overlapped, sole>>

Remove(p) ==
    /\ proc[p].pc = "remove"
    /\ lock' = "free"
    /\ Goto(p, "remake")
    /\ UNCHANGED <<crashes, overlapped, sole>>

Remake(p) ==
    /\ proc[p].pc = "remake"
    /\ IF lock = "free" THEN lock' = "empty" /\ Goto(p, "write")
                        ELSE UNCHANGED lock /\ Quit(p)
    /\ UNCHANGED <<crashes, overlapped, sole>>

\* Whoever has not looked at the lock yet, or only has to see that it is there.
Harmless(p) == proc[p].pc \in {"off", "mkdir", "read", "remake"}

\* Mutant of WritePid: the pid is not written.
WriteNothing(p) == proc[p].pc = "write" /\ Goto(p, "cycle") /\ UNCHANGED <<lock, crashes, overlapped, sole>>

\* Without the directory, the shell goes on and push-remote throws.
WritePid(p) ==
    /\ proc[p].pc = "write"
    /\ lock' = IF lock = "free" THEN lock ELSE p
    /\ IF lock = "free" /\ p \in Mirrors THEN Quit(p) ELSE Goto(p, "cycle")
    /\ sole' = IF lock # "free" /\ \A q \in Procs \ {p} : Harmless(q) THEN p ELSE sole
    /\ UNCHANGED <<crashes, overlapped>>

\* The EXIT trap, or release(): the lock goes, whoever's it is.
Exit(p) ==
    /\ proc[p].pc = "cycle"
    /\ lock' = "free"
    /\ Quit(p)
    /\ sole' = IF sole = p THEN Nobody ELSE sole
    /\ UNCHANGED <<crashes, overlapped>>

Crash(p) ==
    /\ Alive(p)
    /\ crashes < MaxCrashes
    /\ crashes' = crashes + 1
    /\ Quit(p)
    /\ sole' = IF sole = p THEN Nobody ELSE sole
    /\ UNCHANGED <<lock, overlapped>>

Go(p) ==
    \/ Mkdir(p) \/ ReadPid(p) \/ Probe(p) \/ Remove(p)
    \/ Remake(p) \/ WritePid(p) \/ Exit(p)

Next == \E p \in Procs : Launch(p) \/ Go(p) \/ Crash(p)

Spec == Init /\ [][Next]_vars

-----------------------------------------------------------------------------
\* A process goes on by itself, and launchd starts cycles again and again, also
\* at times when no other process starts.
Fairness ==
    /\ \A p \in Procs : WF_vars(Go(p))
    /\ SF_vars(\E p \in Shells : Calm /\ Launch(p))

LiveSpec == Spec /\ Fairness

-----------------------------------------------------------------------------
(* Types: what a process has read from the lock is a pid, or nothing. *)
TypeOK ==
    /\ lock \in {"free", "empty"} \cup Procs
    /\ proc \in [Procs -> [pc : {"off", "mkdir", "read", "probe", "remove",
                                 "remake", "write", "cycle"},
                           other : {Nobody} \cup Procs]]
    /\ crashes \in 0..MaxCrashes
    /\ overlapped \in BOOLEAN /\ sole \in {Nobody} \cup Procs

(* A cycle that began while nobody was about to take or to remove the lock is
   the only one to its end, and the lock names it: whoever starts beside it,
   however many at once and wherever they are killed. *)
SoleCycle ==
    sole # Nobody =>
        /\ lock = sole
        /\ \A p \in Procs : proc[p].pc = "cycle" <=> p = sole

(* Every cycle is such a one while no start meets another under way, whatever
   the processes before left behind. *)
SerialIsSole ==
    ~overlapped => \A p \in Procs : proc[p].pc = "cycle" => sole = p

OneCycle == SoleCycle /\ SerialIsSole

(* "One cycle at a time" (refresh.sh:48): two starts at once, one of which sees
   the other's lock before its pid, break it. *)
NeverTwoCycles ==
    \A p, q \in Procs : proc[p].pc = "cycle" /\ proc[q].pc = "cycle" => p = q

(* Once starts no longer overlap, no lock that crashes and overlapping starts left
   behind, with or without a pid, wedges the cycles after it. *)
CyclesGoOn ==
    <>[][\A p \in Procs : Launch(p) => Calm]_vars => []<>(\E p \in Procs : proc[p].pc = "cycle")
=============================================================================
