---- MODULE Lifecycle ----
(***************************************************************************)
(* The life of a daemon: Serve and Stop of internal/server/server.go and   *)
(* serve of cmd/agy-gate/main.go, with the unit of contrib.                *)
(*                                                                         *)
(* Daemons share one path.  Before it listens, a daemon looks whether the  *)
(* path names a socket, whether somebody answers there, and removes it if  *)
(* not: three system calls, with other daemons at theirs in between.  One  *)
(* of the daemons may be the systemd unit; when that one exits, systemd    *)
(* removes the socket directory with whatever is in it, and starts it      *)
(* again.                                                                  *)
(***************************************************************************)
CONSTANTS
    Daemon,      \* processes that may run `agy-gate serve`
    Unit         \* those of them that systemd runs

ASSUME UnitAssumption == Unit \subseteq Daemon /\ {"none", "stale"} \cap Daemon = {}

VARIABLES
    dir,         \* whether the socket directory exists
    sock,        \* the path: "none", "stale", or the daemon whose listener it names
    pc,          \* pc[d]: where d is in serve
    stopping,    \* stopping[d]: its context is cancelled (SIGTERM, SIGINT)
    outcome,     \* outcome[d]: how its last life ended
    company,     \* history: company[d], whether another daemon lived while d did
    crossed      \* history: starts have overlapped, a unit has left the others, or a
                 \* daemon that serves was not reached

vars == <<dir, sock, pc, stopping, outcome, company, crossed>>
history == <<company, crossed>>

Starting == {"mkdir", "stat", "dial", "remove", "listen"}

\* Every variable holds a value of its kind; there is no socket without its
\* directory, and a path that names a listener names one that is open.
LifeTypeOK ==
    /\ dir \in BOOLEAN
    /\ sock \in Daemon \cup {"none", "stale"}
    /\ pc \in [Daemon -> Starting \cup {"off", "left", "serve"}]
    /\ stopping \in [Daemon -> BOOLEAN]
    /\ outcome \in [Daemon -> {"none", "answered", "error", "signal", "crash"}]
    /\ company \in [Daemon -> BOOLEAN]
    /\ crossed \in BOOLEAN
    /\ ~dir => sock = "none"
    /\ sock \in Daemon => pc[sock] = "serve"

Alive(d) == pc[d] # "off"
Others(d) == {e \in Daemon \ {d} : Alive(e)}

Init ==
    /\ dir = FALSE
    /\ sock = "none"
    /\ pc = [d \in Daemon |-> "off"]
    /\ stopping = [d \in Daemon |-> FALSE]
    /\ outcome = [d \in Daemon |-> "none"]
    /\ company = [d \in Daemon |-> FALSE]
    /\ crossed = FALSE

----------------------------------------------------------------------------
(* Serve. *)

Goto(d, l) == pc' = [pc EXCEPT ![d] = l]

\* The process ends.  A unit leaves its directory to systemd.
Exit(d, o) ==
    /\ Goto(d, IF d \in Unit THEN "left" ELSE "off")
    /\ outcome' = [outcome EXCEPT ![d] = o]
    /\ crossed' = (crossed \/ (d \in Unit /\ Others(d) # {}))
    /\ UNCHANGED <<stopping, company>>

\* systemd, or somebody at a terminal, starts d.
Launch(d) ==
    /\ pc[d] = "off"
    /\ Goto(d, "mkdir")
    /\ stopping' = [stopping EXCEPT ![d] = FALSE]
    /\ outcome' = [outcome EXCEPT ![d] = "none"]
    /\ dir' = (dir \/ d \in Unit)
    /\ company' = [e \in Daemon |-> CASE e = d -> Others(d) # {}
                                      [] OTHER -> company[e] \/ Alive(e)]
    /\ crossed' = (crossed \/ \E e \in Others(d) : pc[e] \in Starting \cup {"left"})
    /\ UNCHANGED sock

\* Mutated form of MakeDir: the directory is taken for granted.
MakeDirNot(d) ==
    /\ pc[d] = "mkdir"
    /\ Goto(d, "stat")
    /\ UNCHANGED <<dir, sock, stopping, outcome, history>>

MakeDir(d) ==
    /\ pc[d] = "mkdir"
    /\ dir' = TRUE
    /\ Goto(d, "stat")
    /\ UNCHANGED <<sock, stopping, outcome, history>>

Stat(d) ==
    /\ pc[d] = "stat"
    /\ Goto(d, IF sock = "none" THEN "listen" ELSE "dial")
    /\ UNCHANGED <<dir, sock, stopping, outcome, history>>

\* Mutated forms of Dial: everybody is taken for dead; the dead are not removed.
DialNobody(d) ==
    /\ pc[d] = "dial"
    /\ Goto(d, "remove")
    /\ UNCHANGED <<dir, sock, stopping, outcome, history>>
DialKeeps(d) ==
    /\ pc[d] = "dial"
    /\ UNCHANGED <<dir, sock>>
    /\ \/ sock \in Daemon /\ Exit(d, "answered")
       \/ sock \notin Daemon /\ Goto(d, "listen") /\ UNCHANGED <<stopping, outcome, history>>

\* The kernel answers for a listener, whatever its accept loop does, but not when
\* its backlog is full; any error counts as an answer of nobody.
Dial(d) ==
    /\ pc[d] = "dial"
    /\ UNCHANGED <<dir, sock>>
    /\ \/ sock \in Daemon /\ Exit(d, "answered")
       \/ /\ sock \in Daemon
          /\ Goto(d, "remove")
          /\ crossed' = TRUE
          /\ UNCHANGED <<stopping, outcome, company>>
       \/ sock \notin Daemon /\ Goto(d, "remove") /\ UNCHANGED <<stopping, outcome, history>>

\* What the path names now, which may not be what was dialled.
Remove(d) ==
    /\ pc[d] = "remove"
    /\ sock' = "none"
    /\ Goto(d, "listen")
    /\ UNCHANGED <<dir, stopping, outcome, history>>

\* bind fails if the path names anything, or if its directory is gone.
Listen(d) ==
    /\ pc[d] = "listen"
    /\ UNCHANGED dir
    /\ IF dir /\ sock = "none"
       THEN sock' = d /\ Goto(d, "serve") /\ UNCHANGED <<stopping, outcome, history>>
       ELSE Exit(d, "error") /\ UNCHANGED sock

----------------------------------------------------------------------------
(* Signals, crashes, and systemd. *)

\* main cancels the context; Serve notices when it listens.
Signal(d) ==
    /\ pc[d] \in Starting \cup {"serve"}
    /\ ~stopping[d]
    /\ stopping' = [stopping EXCEPT ![d] = TRUE]
    /\ UNCHANGED <<dir, sock, pc, outcome, history>>

\* Closing a listener unlinks its path, whatever the path names by then.
Close(d) ==
    /\ pc[d] = "serve" /\ stopping[d]
    /\ sock' = "none"
    /\ Exit(d, "signal")
    /\ UNCHANGED dir

\* SIGKILL, a panic, or a signal before main listens for it: the file stays.  At
\* "mkdir" it is also what an audit file that cannot be opened (NewServer) or a
\* directory that cannot be made does: the process ends and has changed nothing.
Crash(d) ==
    /\ pc[d] \in Starting \cup {"serve"}
    /\ sock' = IF sock = d THEN "stale" ELSE sock
    /\ Exit(d, "crash")
    /\ UNCHANGED dir

\* RuntimeDirectory is not preserved: systemd removes it after every exit.
Clean(d) ==
    /\ pc[d] = "left"
    /\ dir' = FALSE
    /\ sock' = "none"
    /\ Goto(d, "off")
    /\ UNCHANGED <<stopping, outcome, history>>

Run(d) ==
    \/ MakeDir(d) \/ Stat(d) \/ Dial(d) \/ Remove(d) \/ Listen(d) \/ Close(d) \/ Clean(d)

Next == \E d \in Daemon : Launch(d) \/ Run(d) \/ Signal(d) \/ Crash(d)

\* A process runs, and Restart=always brings a unit back.  Nothing makes anybody
\* start another daemon, stop one, or one crash.
Spec ==
    /\ Init /\ [][Next]_vars
    /\ \A d \in Daemon : WF_vars(Run(d))
    /\ \A d \in Unit : WF_vars(Launch(d))

----------------------------------------------------------------------------
(* What is correct about it. *)

\* As long as no two daemons have been starting at once, no unit has exited beside
\* another daemon, and no live listener has failed to take a dial, at most one
\* daemon serves, at the path: whoever starts later refuses, whatever crashed
\* earlier is cleared away, and whoever stops takes only its own socket with it.
\* (sock is one value, so two cannot both be there.)
OneInPlace == ~crossed => \A d \in Daemon : pc[d] = "serve" => sock = d

\* Nothing that earlier daemons have left behind keeps a daemon from starting: one
\* that refuses or fails has had company.
StartsUnlessMet == \A d \in Daemon : outcome[d] \in {"answered", "error"} => company[d]

\* A daemon that is started while no other lives comes to serve at the path, unless
\* it is stopped or crashes, or another one is started meanwhile.
ServiceReturns ==
    \A d \in Daemon :
        pc[d] = "mkdir" /\ Others(d) = {} ~>
            sock = d \/ outcome[d] \in {"signal", "crash"} \/ company[d]
====
