------------------------- MODULE DaemonLife_proofs -------------------------
(***************************************************************************)
(* Theorems about factoryd processes, for any number of them, of operators *)
(* and of crashes.                                                         *)
(*                                                                         *)
(* Inv says what a process has started at each place of its start and of   *)
(* its stop, and in which order: that is why a supervisor's loop has ended *)
(* before the database is closed, and why whoever has workers has the      *)
(* port.  LockInv says, while no start overlaps another one or a check-    *)
(* then-unlink, where everybody who is about the pidfile may be: a start   *)
(* past its look is alone, and an operator unlinks the file when nobody    *)
(* runs.                                                                   *)
(***************************************************************************)
EXTENDS DaemonLife, SequenceTheorems, TLAPS

-----------------------------------------------------------------------------
(* The invariant.                                                          *)

\* The subsystems are started in one order and stopped in the reverse one, so
\* how many there are says which.
Order == <<"channels", "ipc", "outbound", "brain", "events">>

Depths(where) == CASE where = "bind" -> {1}
                   [] where = "workers" -> {2}
                   [] where = "events" -> {4}
                   [] where = "ready" -> {4, 5}
                   [] where = "rollback" -> {0, 1}
                   [] where = "stop" -> 0..5
                   [] OTHER -> {0}

\* Before the workers are started.
Fresh == {"off", "open", "channels", "bind", "workers"} \cup Acquiring

\* What holds of one daemon: the subsystems it has are the ones of its place in
\* the start or stop, the supervisor's loop lives only while the brain is among
\* them, only a running loop has runs, and nothing crashed before there was one.
Well(where, subs, super, crash, run) ==
    /\ Len(subs) \in Depths(where)
    /\ \A i \in 1..Len(subs) : subs[i] = Order[i]
    /\ super \in {"running", "backoff"} => Len(subs) >= 4 /\ crash < MaxRestarts
    /\ super # "running" => run = 0
    /\ where \in Fresh => crash = 0 /\ super # "died"

WellInv == \A p \in Daemon :
    Well(pc[p], subsystems[p], supervisor[p], crashes[p], runs[p])

\* Only a stop halts the supervisor.
HaltInv == \A p \in Daemon : halted[p] => pc[p] \in Stopping

\* Whoever has started more than its channels listens.
PortInv == \A p \in Daemon : Len(subsystems[p]) >= 2 => port = p

\* A command that has read a pid names a daemon.
CliInv == \A c \in Cli : cli[c] \in {"kill", "gone", "reap", "unlink"} => target[c] \in Daemon

Inv == TypeOK /\ WellInv /\ HaltInv /\ PortInv /\ CliInv

-----------------------------------------------------------------------------
(* Sequences.                                                              *)

\* Removing the last element leaves the ones before it.
LEMMA Pops ==
    ASSUME NEW S, NEW s \in Seq(S), s # <<>>
    PROVE  /\ RemoveAt(s, Len(s)) \in Seq(S)
           /\ Len(RemoveAt(s, Len(s))) = Len(s) - 1
           /\ \A i \in 1..(Len(s) - 1) : RemoveAt(s, Len(s))[i] = s[i]
<1>1. Len(s) \in Nat /\ Len(s) > 0
  BY EmptySeq, LenProperties
<1>2. \A i \in 1..Len(s) : s[i] \in S
  BY LenProperties
<1> DEFINE n == Len(s) - 1
<1>3. n \in Nat /\ Len(s) = n + 1
  BY <1>1
<1> HIDE DEF n
<1>4. /\ SubSeq(s, 1, n) \in Seq(S)
      /\ Len(SubSeq(s, 1, n)) = n
      /\ \A i \in 1..n : SubSeq(s, 1, n)[i] = s[i]
  <2>1. \A i \in 1..n : s[i] \in S
    BY <1>2, <1>3
  <2> QED
    BY <1>3, <2>1, SubSeqProperties
<1>5. SubSeq(s, Len(s) + 1, Len(s)) = <<>>
  BY <1>1, SubSeqEmpty
<1>6. RemoveAt(s, Len(s)) = SubSeq(s, 1, n)
  BY <1>4, <1>5, ConcatEmptySeq DEF RemoveAt, n
<1> QED
  BY <1>4, <1>6 DEF n

\* Adding one at the end.
LEMMA Pushes ==
    ASSUME NEW S, NEW s \in Seq(S), NEW e \in S
    PROVE  /\ Append(s, e) \in Seq(S)
           /\ Len(Append(s, e)) = Len(s) + 1
           /\ \A i \in 1..(Len(s) + 1) : Append(s, e)[i] = IF i <= Len(s) THEN s[i] ELSE e
<1>1. Len(s) \in Nat
  BY LenProperties
<1> QED
  BY <1>1, AppendProperties

LEMMA PushesTwo ==
    ASSUME NEW S, NEW s \in Seq(S), Len(s) = 2, NEW d \in S, NEW e \in S
    PROVE  /\ s \o <<d, e>> \in Seq(S)
           /\ Len(s \o <<d, e>>) = 4
           /\ \A i \in 1..2 : (s \o <<d, e>>)[i] = s[i]
           /\ (s \o <<d, e>>)[3] = d /\ (s \o <<d, e>>)[4] = e
<1> DEFINE t == <<d, e>>
<1>1. t \in Seq(S) /\ Len(t) = 2 /\ t[1] = d /\ t[2] = e
  OBVIOUS
<1> HIDE DEF t
<1>2. /\ s \o t \in Seq(S)
      /\ Len(s \o t) = Len(s) + Len(t)
      /\ \A i \in 1 .. Len(s) + Len(t) : (s \o t)[i] = IF i <= Len(s) THEN s[i] ELSE t[i - Len(s)]
  BY <1>1, ConcatProperties
<1>3. Len(s \o t) = 4 /\ \A i \in 1..4 : (s \o t)[i] = IF i <= 2 THEN s[i] ELSE t[i - 2]
  BY <1>1, <1>2
<1>4. (s \o t)[3] = t[1] /\ (s \o t)[4] = t[2] /\ \A i \in 1..2 : (s \o t)[i] = s[i]
  BY <1>3
<1> QED
  BY <1>1, <1>2, <1>3, <1>4 DEF t

-----------------------------------------------------------------------------
(* The invariant is inductive.                                             *)

LEMMA NothingStarted ==
    /\ <<>> \in Seq(Subsystem) /\ Len(<<>>) = 0
    /\ \A where : 0 \in Depths(where) => Well(where, <<>>, "none", 0, 0)
<1>1. <<>> \in Seq(Subsystem) /\ Len(<<>>) = 0
  OBVIOUS
<1> QED
  BY <1>1 DEF Well

LEMMA Initially == Init => Inv
<1> SUFFICES ASSUME Init PROVE Inv
  OBVIOUS
<1>1. 0 \in Depths("off")
  BY DEF Depths
<1>2. TypeOK
  <2>1. subsystems \in [Daemon -> Seq(Subsystem)]
    BY NothingStarted DEF Init
  <2>2. written \in BOOLEAN /\ streaming \in [Daemon -> BOOLEAN] /\ halted \in [Daemon -> BOOLEAN] /\ raced \in BOOLEAN
    BY DEF Init
  <2>3. /\ crashes \in [Daemon -> 0..MaxRestarts]
        /\ runs \in [Daemon -> 0..Concurrency]
        /\ stray \in [Daemon -> 0..MaxStray] /\ spawns \in 0..MaxSpawns
    BY DaemonAssumption DEF Init
  <2> QED
    BY <2>1, <2>2, <2>3 DEF Init, TypeOK
<1>3. WellInv
  BY NothingStarted, <1>1 DEF Init, WellInv
<1>4. PortInv /\ CliInv
  BY NothingStarted DEF Init, PortInv, CliInv
<1>5. HaltInv
  BY DEF Init, HaltInv
<1> QED
  BY <1>2, <1>3, <1>4, <1>5 DEF Inv

\* What the end of a process leaves behind.
ProcessType ==
    /\ port \in Daemon \cup {None}
    /\ pc \in [Daemon -> {"off", "ready"} \cup Acquiring \cup Booting \cup Stopping]
    /\ attempt \in [Daemon -> {0, 1}]
    /\ subsystems \in [Daemon -> Seq(Subsystem)]
    /\ streaming \in [Daemon -> BOOLEAN]
    /\ supervisor \in [Daemon -> {"none", "running", "backoff", "ended", "gave up", "died"}]
    /\ halted \in [Daemon -> BOOLEAN]
    /\ crashes \in [Daemon -> 0..MaxRestarts]
    /\ runs \in [Daemon -> 0..Concurrency]
    /\ stray \in [Daemon -> 0..MaxStray]

LEMMA ExitKeeps ==
    ASSUME Inv, NEW p \in Daemon, Exit(p)
    PROVE  WellInv' /\ HaltInv' /\ PortInv' /\ ProcessType'
<1>1. ProcessType'
  <2>1. subsystems' \in [Daemon -> Seq(Subsystem)]
    BY NothingStarted DEF Inv, TypeOK, Exit
  <2>2. /\ crashes' \in [Daemon -> 0..MaxRestarts]
        /\ runs' \in [Daemon -> 0..Concurrency]
        /\ stray' \in [Daemon -> 0..MaxStray]
    <3>1. 0 \in 0..MaxRestarts /\ 0 \in 0..Concurrency /\ 0 \in 0..MaxStray
      BY DaemonAssumption
    <3> QED
      BY <3>1 DEF Inv, TypeOK, Exit
  <2>3. streaming' \in [Daemon -> BOOLEAN] /\ halted' \in [Daemon -> BOOLEAN]
    BY DEF Inv, TypeOK, Exit
  <2> QED
    BY <2>1, <2>2, <2>3 DEF Inv, TypeOK, Exit, ProcessType
<1>2. /\ pc'[p] = "off" /\ subsystems'[p] = <<>>
      /\ \A q \in Daemon \ {p} : pc'[q] = pc[q] /\ subsystems'[q] = subsystems[q]
  BY DEF Inv, TypeOK, Exit
<1>3. PortInv'
  BY <1>2, NothingStarted DEF Inv, Exit, PortInv
<1>4. HaltInv'
  BY <1>2 DEF Inv, TypeOK, Exit, HaltInv
<1>5. WellInv'
  <2>1. 0 \in Depths("off")
    BY DEF Depths
  <2>2. /\ supervisor'[p] = "none" /\ crashes'[p] = 0 /\ runs'[p] = 0
        /\ \A q \in Daemon \ {p} : supervisor'[q] = supervisor[q] /\ crashes'[q] = crashes[q] /\ runs'[q] = runs[q]
    BY DEF Inv, TypeOK, Exit
  <2>3. Well("off", <<>>, "none", 0, 0)
    BY <2>1, NothingStarted
  <2> QED
    BY <1>2, <2>2, <2>3 DEF Inv, WellInv
<1> QED
  BY <1>1, <1>3, <1>4, <1>5

Places == {"off", "ready"} \cup Acquiring \cup Booting \cup Stopping

\* A step that only moves a process to a place for which it has what it takes.
LEMMA Moves ==
    ASSUME Inv, NEW p \in Daemon, NEW to \in Places, Goto(p, to),
           Len(subsystems[p]) \in Depths(to),
           halted[p] => to \in Stopping, to \in Fresh => pc[p] \in Fresh,
           UNCHANGED <<port, subsystems, supervisor, halted, crashes, runs>>
    PROVE  /\ WellInv' /\ HaltInv' /\ PortInv'
           /\ pc' \in [Daemon -> Places]
<1>1. /\ pc' \in [Daemon -> Places] /\ pc'[p] = to
      /\ \A q \in Daemon \ {p} : pc'[q] = pc[q]
  BY DEF Inv, TypeOK, Goto, Places
<1>2. PortInv'
  BY DEF Inv, PortInv
<1>3. HaltInv'
  BY <1>1 DEF Inv, HaltInv
<1>4. WellInv'
  <2>1. Well(to, subsystems[p], supervisor[p], crashes[p], runs[p])
    BY DEF Inv, WellInv, Well
  <2> QED
    BY <1>1, <2>1 DEF Inv, WellInv
<1> QED
  BY <1>1, <1>2, <1>3, <1>4

LEMMA PlaceDepths ==
    /\ \A w \in {"off", "open", "channels", "close", "unlink"} \cup Acquiring : Depths(w) = {0}
    /\ Depths("bind") = {1} /\ Depths("workers") = {2} /\ Depths("events") = {4}
    /\ Depths("ready") = {4, 5} /\ Depths("rollback") = {0, 1} /\ Depths("stop") = 0..5
<1>1. \A w \in {"off", "open", "channels", "close", "unlink"} : Depths(w) = {0}
  BY DEF Depths
<1>2. \A w \in Acquiring : Depths(w) = {0}
  BY DEF Depths, Acquiring
<1>3. Depths("bind") = {1} /\ Depths("workers") = {2} /\ Depths("events") = {4}
  BY DEF Depths
<1>4. Depths("ready") = {4, 5} /\ Depths("rollback") = {0, 1} /\ Depths("stop") = 0..5
  BY DEF Depths
<1> QED
  BY <1>1, <1>2, <1>3, <1>4

\* Where a process has started nothing, and where something.
LEMMA Bare ==
    ASSUME Inv, NEW p \in Daemon
    PROVE  /\ pc[p] \in {"off", "open", "channels", "close", "unlink"} \cup Acquiring => Len(subsystems[p]) = 0
           /\ pc[p] = "bind" => Len(subsystems[p]) = 1
           /\ pc[p] = "workers" => Len(subsystems[p]) = 2
           /\ pc[p] = "events" => Len(subsystems[p]) = 4
           /\ pc[p] = "ready" => Len(subsystems[p]) \in {4, 5}
           /\ pc[p] = "rollback" => Len(subsystems[p]) \in {0, 1}
           /\ Len(subsystems[p]) \in 0..5
           /\ pc[p] \notin Stopping => ~halted[p]
<1>1. Len(subsystems[p]) \in Depths(pc[p])
  BY DEF Inv, WellInv, Well
<1>2. pc[p] \notin Stopping => ~halted[p]
  BY DEF Inv, HaltInv
<1>3. pc[p] \in Places
  BY DEF Inv, TypeOK, Places
<1>4. Len(subsystems[p]) \in 0..5
  <2>1. \/ pc[p] \in {"off", "open", "channels", "close", "unlink"} \cup Acquiring
        \/ pc[p] \in {"bind", "workers", "events", "ready", "rollback", "stop"}
    BY <1>3 DEF Places, Booting, Stopping
  <2>2. \/ Depths(pc[p]) = {0} \/ Depths(pc[p]) = {1} \/ Depths(pc[p]) = {2} \/ Depths(pc[p]) = {4}
        \/ Depths(pc[p]) = {4, 5} \/ Depths(pc[p]) = {0, 1} \/ Depths(pc[p]) = 0..5
    BY <2>1, PlaceDepths
  <2>3. {0} \cup {1} \cup {2} \cup {4} \cup {4, 5} \subseteq 0..5
    OBVIOUS
  <2> QED
    BY <1>1, <2>2, <2>3
<1>5. pc[p] \in {"off", "open", "channels", "close", "unlink"} \cup Acquiring => Len(subsystems[p]) = 0
  BY <1>1, PlaceDepths
<1>6. /\ pc[p] = "bind" => Len(subsystems[p]) = 1
      /\ pc[p] = "workers" => Len(subsystems[p]) = 2
      /\ pc[p] = "events" => Len(subsystems[p]) = 4
  BY <1>1, PlaceDepths
<1>7. /\ pc[p] = "ready" => Len(subsystems[p]) \in {4, 5}
      /\ pc[p] = "rollback" => Len(subsystems[p]) \in {0, 1}
  BY <1>1, PlaceDepths
<1> QED
  BY <1>2, <1>4, <1>5, <1>6, <1>7

\* A step that adds the next subsystem and goes on.
LEMMA Adds ==
    ASSUME Inv, NEW p \in Daemon, NEW to \in Places, NEW name \in Subsystem,
           NEW n \in 0..4, NEW m \in 1..5, m = n + 1,
           Goto(p, to), Push(p, name),
           Len(subsystems[p]) = n, m \in Depths(to), name = Order[m],
           ~halted[p], to \in Fresh => pc[p] \in Fresh,
           UNCHANGED <<supervisor, halted, crashes, runs>>
    PROVE  /\ WellInv' /\ HaltInv'
           /\ pc' \in [Daemon -> Places] /\ subsystems' \in [Daemon -> Seq(Subsystem)]
           /\ Len(subsystems'[p]) = m
           /\ \A q \in Daemon \ {p} : subsystems'[q] = subsystems[q]
<1> DEFINE subs == subsystems[p]
<1>1. subs \in Seq(Subsystem)
  BY DEF Inv, TypeOK
<1>2. /\ Append(subs, name) \in Seq(Subsystem)
      /\ Len(Append(subs, name)) = Len(subs) + 1
      /\ \A i \in 1..(Len(subs) + 1) : Append(subs, name)[i] = IF i <= Len(subs) THEN subs[i] ELSE name
  BY <1>1, Pushes
<1>3. /\ subsystems'[p] = Append(subs, name)
      /\ \A q \in Daemon \ {p} : subsystems'[q] = subsystems[q]
      /\ subsystems' \in [Daemon -> Seq(Subsystem)]
  BY <1>2 DEF Inv, TypeOK, Push
<1>4. /\ pc' \in [Daemon -> Places] /\ pc'[p] = to
      /\ \A q \in Daemon \ {p} : pc'[q] = pc[q]
  BY DEF Inv, TypeOK, Goto, Places
<1>5. HaltInv'
  BY <1>4 DEF Inv, HaltInv
<1>6. Well(to, Append(subs, name), supervisor[p], crashes[p], runs[p])
  <2>1. Well(pc[p], subs, supervisor[p], crashes[p], runs[p])
    BY DEF Inv, WellInv
  <2>2. ASSUME NEW i \in 1..(Len(subs) + 1) PROVE Append(subs, name)[i] = Order[i]
    <3>1. CASE i <= Len(subs)
      BY <1>2, <2>1, <3>1 DEF Well
    <3>2. CASE i = Len(subs) + 1
      BY <1>2, <3>2
    <3> QED
      BY <3>1, <3>2
  <2>3. supervisor[p] \in {"running", "backoff"} => Len(subs) + 1 >= 4
    BY <2>1 DEF Well
  <2> QED
    BY <1>2, <2>1, <2>2, <2>3 DEF Well
<1>7. WellInv'
  BY <1>3, <1>4, <1>6 DEF Inv, WellInv
<1> QED
  BY <1>2, <1>3, <1>4, <1>5, <1>7

\* A process that has started nothing moves on.
LEMMA MovesBare ==
    ASSUME Inv, NEW p \in Daemon, NEW to \in Acquiring \cup {"open", "channels"}, Goto(p, to),
           pc[p] \in Acquiring \cup {"off", "open"},
           UNCHANGED <<port, subsystems, supervisor, halted, crashes, runs>>
    PROVE  /\ WellInv' /\ HaltInv' /\ PortInv'
           /\ pc' \in [Daemon -> Places]
<1>1. Len(subsystems[p]) \in Depths(to)
  BY Bare, PlaceDepths
<1>2. to \in Places /\ pc[p] \in Fresh /\ ~halted[p]
  BY Bare DEF Places, Booting, Fresh, Acquiring, Stopping
<1> QED
  BY <1>1, <1>2, Moves

\* A start that failed.
LEMMA FailKeeps ==
    ASSUME Inv, NEW p \in Daemon, Fail(p), pc[p] \in {"open", "bind"}
    PROVE  Inv'
<1>1. Len(subsystems[p]) \in Depths("rollback")
  BY Bare, PlaceDepths
<1>2. "rollback" \in Places /\ "rollback" \notin Fresh /\ "rollback" \in Stopping
  BY DEF Places, Stopping, Fresh, Acquiring
<1>3. WellInv' /\ HaltInv' /\ PortInv' /\ pc' \in [Daemon -> Places]
  BY <1>1, <1>2, Moves DEF Fail, brain
<1> QED
  BY <1>3 DEF Fail, Inv, TypeOK, Places, CliInv, lock, brain, operator, history

\* A process that has only its channels, or listens already, changes its list.
LEMMA PortStays ==
    ASSUME Inv, NEW p \in Daemon, NEW n \in Nat, Len(subsystems'[p]) = n, n >= 2 => port = p,
           \A q \in Daemon \ {p} : subsystems'[q] = subsystems[q], port' = port
    PROVE  PortInv'
<1> SUFFICES ASSUME NEW q \in Daemon, Len(subsystems'[q]) >= 2 PROVE port' = q
  BY DEF PortInv
<1>1. CASE q = p
  BY <1>1
<1>2. CASE q # p
  <2>1. subsystems'[q] = subsystems[q]
    BY <1>2
  <2> QED
    BY <2>1 DEF Inv, PortInv
<1> QED
  BY <1>1, <1>2

LEMMA StartKeeps ==
    ASSUME Inv, NEW p \in Daemon, Start(p)
    PROVE  Inv'
<1>1. CASE Look(p) \/ Create(p)
  <2>1. CASE Exit(p)
    BY <1>1, <2>1, ExitKeeps DEF Look, Create, Inv, TypeOK, ProcessType, CliInv, lock, operator, history
  <2>2. CASE ~Exit(p)
    <3>1. /\ \E to \in Acquiring : Goto(p, to)
          /\ pc[p] \in Acquiring
          /\ UNCHANGED <<port, subsystems, streaming, supervisor, halted,
                         crashes, runs, stray, cli, target, spawns, raced>>
          /\ owner' \in {owner, p} /\ written' \in {written, FALSE}
          /\ attempt' \in {attempt, [attempt EXCEPT ![p] = 1]}
      BY <1>1, <2>2 DEF Look, Create, lock, brain, operator, history, Acquiring
    <3>2. WellInv' /\ HaltInv' /\ PortInv' /\ pc' \in [Daemon -> Places]
      <4>1. Acquiring \subseteq Acquiring \cup {"open", "channels"} /\ Acquiring \subseteq Acquiring \cup {"off", "open"}
        OBVIOUS
      <4> QED
        BY <3>1, <4>1, MovesBare
    <3>3. /\ owner' \in Daemon \cup {None} /\ attempt' \in [Daemon -> {0, 1}]
          /\ written' = written \/ written' = FALSE
      BY <3>1 DEF Inv, TypeOK
    <3>4. written' \in BOOLEAN
      BY <3>3 DEF Inv, TypeOK
    <3> QED
      BY <3>1, <3>2, <3>3, <3>4 DEF Inv, TypeOK, Places, CliInv
  <2> QED
    BY <2>1, <2>2
<1>2. CASE Reap(p) \/ Write(p) \/ (OpenDatabase(p) /\ ~Fail(p))
  <2>1. /\ \E to \in Acquiring \cup {"open", "channels"} : Goto(p, to)
        /\ pc[p] \in Acquiring \cup {"off", "open"}
        /\ UNCHANGED <<port, attempt, subsystems, streaming, supervisor, halted,
                       crashes, runs, stray, cli, target, spawns, raced>>
        /\ owner' \in {owner, None} /\ written' \in BOOLEAN
    BY <1>2 DEF Reap, Write, OpenDatabase, lock, brain, operator, history, Acquiring, Inv, TypeOK
  <2>2. WellInv' /\ HaltInv' /\ PortInv' /\ pc' \in [Daemon -> Places]
    BY <2>1, MovesBare
  <2>3. owner' \in Daemon \cup {None}
    BY <2>1 DEF Inv, TypeOK
  <2> QED
    BY <2>1, <2>2, <2>3 DEF Inv, TypeOK, Places, CliInv
<1>3. CASE Fail(p) /\ (OpenDatabase(p) \/ StartIpc(p))
  BY <1>3, FailKeeps DEF OpenDatabase, StartIpc
<1>4. CASE StartChannels(p)
  <2>1. Len(subsystems[p]) = 0 /\ ~halted[p]
    BY <1>4, Bare DEF StartChannels, Stopping
  <2>2. /\ Goto(p, "bind") /\ Push(p, "channels")
        /\ UNCHANGED <<lock, port, attempt, streaming, brain, operator, history>>
    BY <1>4 DEF StartChannels
  <2>3. /\ WellInv' /\ HaltInv' /\ pc' \in [Daemon -> Places]
        /\ subsystems' \in [Daemon -> Seq(Subsystem)]
        /\ Len(subsystems'[p]) = 1
        /\ \A q \in Daemon \ {p} : subsystems'[q] = subsystems[q]
    <3>1. 1 \in Depths("bind") /\ "channels" = Order[1] /\ "channels" \in Subsystem
      BY PlaceDepths DEF Order, Subsystem
    <3>2. 0 \in 0..4 /\ 1 \in 1..5 /\ 1 = 0 + 1
      OBVIOUS
    <3>3. "bind" \in Places /\ pc[p] \in Fresh
      BY <1>4 DEF StartChannels, Fresh, Places, Booting
    <3> QED
      BY <2>1, <2>2, <3>1, <3>2, <3>3, Adds DEF brain
  <2>4. PortInv'
    <3>1. 1 \in Nat /\ ~(1 >= 2)
      OBVIOUS
    <3> QED
      BY <2>2, <2>3, <3>1, PortStays
  <2> QED
    BY <2>2, <2>3, <2>4 DEF Inv, TypeOK, Places, CliInv, lock, brain, operator, history
<1>5. CASE StartIpc(p) /\ ~Fail(p)
  <2>1. Len(subsystems[p]) = 1 /\ ~halted[p]
    BY <1>5, Bare DEF StartIpc, Stopping
  <2>2. /\ Goto(p, "workers") /\ Push(p, "ipc") /\ port = None /\ port' = p
        /\ UNCHANGED <<lock, attempt, streaming, brain, operator, history>>
    BY <1>5 DEF StartIpc
  <2>3. /\ WellInv' /\ HaltInv' /\ pc' \in [Daemon -> Places]
        /\ subsystems' \in [Daemon -> Seq(Subsystem)]
        /\ \A q \in Daemon \ {p} : subsystems'[q] = subsystems[q]
    <3>1. 2 \in Depths("workers") /\ "ipc" = Order[2] /\ "ipc" \in Subsystem
      BY PlaceDepths DEF Order, Subsystem
    <3>2. 1 \in 0..4 /\ 2 \in 1..5 /\ 2 = 1 + 1
      OBVIOUS
    <3>3. "workers" \in Places /\ pc[p] \in Fresh
      BY <1>5 DEF StartIpc, Fresh, Places, Booting
    <3> QED
      BY <2>1, <2>2, <3>1, <3>2, <3>3, Adds DEF brain
  <2>4. PortInv'
    BY <2>2, <2>3, DaemonAssumption DEF Inv, PortInv
  <2> QED
    BY <2>2, <2>3, <2>4 DEF Inv, TypeOK, Places, CliInv, lock, brain, operator, history
<1>6. CASE StartWorkers(p)
  <2> DEFINE subs == subsystems[p]
             more == subs \o <<"outbound", "brain">>
  <2>1. Len(subs) = 2 /\ ~halted[p] /\ pc[p] \in Fresh
    BY <1>6, Bare DEF StartWorkers, Stopping, Fresh
  <2>2. subs \in Seq(Subsystem) /\ Well(pc[p], subs, supervisor[p], crashes[p], runs[p])
    BY DEF Inv, TypeOK, WellInv
  <2>3. /\ more \in Seq(Subsystem) /\ Len(more) = 4
        /\ \A i \in 1..2 : more[i] = subs[i]
        /\ more[3] = "outbound" /\ more[4] = "brain"
    <3>1. "outbound" \in Subsystem /\ "brain" \in Subsystem
      BY DEF Subsystem
    <3> HIDE DEF subs
    <3>2. subs \in Seq(Subsystem) /\ Len(subs) = 2
      BY <2>1, <2>2
    <3> QED
      BY <3>1, <3>2, PushesTwo
  <2>4. /\ subsystems' = [subsystems EXCEPT ![p] = more]
        /\ supervisor' = [supervisor EXCEPT ![p] = "running"]
        /\ Goto(p, "events")
        /\ UNCHANGED <<lock, port, attempt, streaming, halted, crashes, runs, stray, operator, history>>
    BY <1>6 DEF StartWorkers
  <2> HIDE DEF more
  <2>5. /\ subsystems'[p] = more /\ supervisor'[p] = "running" /\ pc'[p] = "events"
        /\ \A q \in Daemon \ {p} : subsystems'[q] = subsystems[q] /\ supervisor'[q] = supervisor[q] /\ pc'[q] = pc[q]
        /\ subsystems' \in [Daemon -> Seq(Subsystem)]
        /\ supervisor' \in [Daemon -> {"none", "running", "backoff", "ended", "gave up", "died"}]
        /\ pc' \in [Daemon -> Places]
    <3>1. "events" \in Places
      BY DEF Places, Booting
    <3> QED
      BY <2>3, <2>4, <3>1 DEF Inv, TypeOK, Goto, Places
  <2>6. crashes[p] = 0 /\ 0 < MaxRestarts
    BY <2>1, <2>2, DaemonAssumption DEF Well
  <2>7. \A i \in 1..4 : more[i] = Order[i]
    <3>1. \A i \in 1..2 : subs[i] = Order[i]
      BY <2>1, <2>2 DEF Well
    <3>2. Order[3] = "outbound" /\ Order[4] = "brain"
      BY DEF Order
    <3>3. \A i \in 1..4 : i \in 1..2 \/ i = 3 \/ i = 4
      OBVIOUS
    <3> QED
      BY <2>3, <3>1, <3>2, <3>3
  <2>8. Well("events", more, "running", crashes[p], runs[p])
    <3>1. "events" \notin Fresh /\ 4 \in Depths("events")
      BY PlaceDepths DEF Fresh, Acquiring
    <3> QED
      BY <2>3, <2>6, <2>7, <3>1 DEF Well
  <2>9. WellInv'
    <3>1. crashes' = crashes /\ runs' = runs
      BY <2>4
    <3> QED
      BY <2>5, <2>8, <3>1 DEF Inv, WellInv
  <2>10. HaltInv'
    BY <2>1, <2>4, <2>5 DEF Inv, HaltInv
  <2>11. PortInv'
    <3>1. Len(subs) >= 2 /\ 4 \in Nat
      BY <2>1
    <3>2. port = p
      BY <3>1 DEF Inv, PortInv
    <3> QED
      BY <2>3, <2>4, <2>5, <3>1, <3>2, PortStays
  <2> QED
    BY <2>4, <2>5, <2>9, <2>10, <2>11 DEF Inv, TypeOK, Places, CliInv, lock, operator, history
<1>7. CASE StartEvents(p)
  <2>1. Len(subsystems[p]) = 4 /\ ~halted[p]
    BY <1>7, Bare DEF StartEvents, Stopping
  <2>2. /\ Goto(p, "ready")
        /\ UNCHANGED <<owner, written, port, attempt, streaming, supervisor, halted,
                       crashes, runs, stray, cli, target, spawns, raced>>
    BY <1>7 DEF StartEvents, lock, brain, operator, history
  <2>3. "ready" \in Places /\ "ready" \notin Fresh
    BY DEF Fresh, Acquiring, Places
  <2>4. CASE Push(p, "events")
    <3>1. 5 \in Depths("ready") /\ "events" = Order[5] /\ "events" \in Subsystem
      BY PlaceDepths DEF Order, Subsystem
    <3>2. 4 \in 0..4 /\ 5 \in 1..5 /\ 5 = 4 + 1
      OBVIOUS
    <3>3. /\ WellInv' /\ HaltInv' /\ pc' \in [Daemon -> Places]
          /\ subsystems' \in [Daemon -> Seq(Subsystem)]
          /\ Len(subsystems'[p]) = 5
          /\ \A q \in Daemon \ {p} : subsystems'[q] = subsystems[q]
      <4>1. UNCHANGED <<supervisor, halted, crashes, runs>>
        BY <2>2
      <4> QED
        BY <2>1, <2>2, <2>3, <2>4, <3>1, <3>2, <4>1, Adds
    <3>4. PortInv'
      <4>1. Len(subsystems[p]) >= 2 /\ 5 \in Nat
        BY <2>1
      <4>2. port = p
        BY <4>1 DEF Inv, PortInv
      <4> QED
        BY <2>2, <3>3, <4>1, <4>2, PortStays
    <3> QED
      BY <2>2, <3>3, <3>4 DEF Inv, TypeOK, Places, CliInv
  <2>5. CASE UNCHANGED subsystems
    <3>1. Len(subsystems[p]) \in Depths("ready")
      BY <2>1, PlaceDepths
    <3>2. WellInv' /\ HaltInv' /\ PortInv' /\ pc' \in [Daemon -> Places]
      BY <2>1, <2>2, <2>3, <2>5, <3>1, Moves
    <3> QED
      BY <2>2, <2>5, <3>2 DEF Inv, TypeOK, Places, CliInv
  <2> QED
    BY <1>7, <2>4, <2>5 DEF StartEvents
<1> QED
  BY <1>1, <1>2, <1>3, <1>4, <1>5, <1>6, <1>7 DEF Start

-----------------------------------------------------------------------------
(* The supervisor, the stop and the operators.                             *)

SupervisorType ==
    /\ supervisor \in [Daemon -> {"none", "running", "backoff", "ended", "gave up", "died"}]
    /\ crashes \in [Daemon -> 0..MaxRestarts]
    /\ runs \in [Daemon -> 0..Concurrency]
    /\ stray \in [Daemon -> 0..MaxStray]

\* A step of one process that leaves it where it is, with the subsystems it has.
LEMMA StaysWell ==
    ASSUME Inv, NEW p \in Daemon, SupervisorType',
           \A q \in Daemon \ {p} : supervisor'[q] = supervisor[q] /\ crashes'[q] = crashes[q] /\ runs'[q] = runs[q],
           Well(pc[p], subsystems[p], supervisor'[p], crashes'[p], runs'[p]),
           UNCHANGED <<lock, port, process, halted, operator, history>>
    PROVE  Inv'
<1>1. WellInv'
  <2>1. pc' = pc /\ subsystems' = subsystems
    BY DEF process
  <2> QED
    BY <2>1 DEF Inv, WellInv
<1>2. TypeOK'
  BY DEF Inv, TypeOK, SupervisorType, lock, process, operator, history
<1> QED
  BY <1>1, <1>2 DEF Inv, HaltInv, PortInv, CliInv, process, operator

LEMMA SuperviseKeeps ==
    ASSUME Inv, NEW p \in Daemon, Supervise(p)
    PROVE  Inv'
<1>1. /\ supervisor[p] \in {"none", "running", "backoff", "ended", "gave up", "died"}
      /\ crashes[p] \in 0..MaxRestarts /\ runs[p] \in 0..Concurrency /\ stray[p] \in 0..MaxStray
      /\ SupervisorType
  BY DEF Inv, TypeOK, SupervisorType
<1>2. /\ Well(pc[p], subsystems[p], supervisor[p], crashes[p], runs[p])
      /\ UNCHANGED <<lock, port, process, halted, operator, history>>
  BY DEF Inv, WellInv, Supervise, BeginRun, EndRun, CrashLoop, WakeUp, LoopEnds
<1>0. \A m \in Nat : \A n \in 0..m : n > 0 => n # 0 /\ n - 1 \in 0..m
  OBVIOUS
<1>3. CASE BeginRun(p)
  <2> DEFINE run == runs[p] + 1
  <2>1. run \in 0..Concurrency
    BY <1>1, <1>3, DaemonAssumption DEF BeginRun
  <2>2. Well(pc[p], subsystems[p], supervisor[p], crashes[p], run)
    BY <1>2, <1>3 DEF BeginRun, Well
  <2>3. runs' = [runs EXCEPT ![p] = run] /\ UNCHANGED <<supervisor, crashes, stray>>
    BY <1>3 DEF BeginRun
  <2> HIDE DEF run
  <2>4. SupervisorType' /\ runs'[p] = run /\ \A q \in Daemon \ {p} : runs'[q] = runs[q]
    BY <1>1, <2>1, <2>3 DEF SupervisorType
  <2> QED
    BY <1>2, <2>2, <2>3, <2>4, StaysWell
<1>4. CASE EndRun(p)
  <2>1. CASE runs[p] > 0 /\ runs' = [runs EXCEPT ![p] = runs[p] - 1] /\ UNCHANGED stray
    <3> DEFINE run == runs[p] - 1
    <3>1. run \in 0..Concurrency /\ runs[p] # 0
      <4>1. Concurrency \in Nat /\ runs[p] \in 0..Concurrency /\ runs[p] > 0
        BY <1>1, <2>1, DaemonAssumption
      <4> QED
        BY <1>0, <4>1
    <3>2. Well(pc[p], subsystems[p], supervisor[p], crashes[p], run)
      <4>1. supervisor[p] = "running"
        BY <1>2, <3>1 DEF Well
      <4> QED
        BY <1>2, <4>1 DEF Well
    <3>3. runs' = [runs EXCEPT ![p] = run] /\ UNCHANGED <<supervisor, crashes, stray>>
      BY <1>4, <2>1 DEF EndRun
    <3> HIDE DEF run
    <3>4. SupervisorType' /\ runs'[p] = run /\ \A q \in Daemon \ {p} : runs'[q] = runs[q]
      BY <1>1, <3>1, <3>3 DEF SupervisorType
    <3> QED
      BY <1>2, <3>2, <3>3, <3>4, StaysWell
  <2>2. CASE stray[p] > 0 /\ stray' = [stray EXCEPT ![p] = stray[p] - 1] /\ UNCHANGED runs
    <3> DEFINE settling == stray[p] - 1
    <3>1. settling \in 0..MaxStray
      <4>1. MaxStray \in Nat /\ stray[p] \in 0..MaxStray /\ stray[p] > 0
        BY <1>1, <2>2, DaemonAssumption
      <4> QED
        BY <1>0, <4>1
    <3>2. stray' = [stray EXCEPT ![p] = settling] /\ UNCHANGED <<supervisor, crashes, runs>>
      BY <1>4, <2>2 DEF EndRun
    <3> HIDE DEF settling
    <3>3. SupervisorType'
      BY <1>1, <3>1, <3>2 DEF SupervisorType
    <3> QED
      BY <1>2, <3>2, <3>3, StaysWell
  <2> QED
    BY <1>4, <2>1, <2>2 DEF EndRun
<1>5. CASE CrashLoop(p)
  <2> DEFINE settling == stray[p] + runs[p]
  <2>1. settling \in 0..MaxStray
    BY <1>1, <1>5, DaemonAssumption DEF CrashLoop
  <2>2. 0 \in 0..Concurrency
    BY DaemonAssumption
  <2>3. /\ stray' = [stray EXCEPT ![p] = settling] /\ runs' = [runs EXCEPT ![p] = 0]
        /\ supervisor[p] = "running"
    BY <1>5 DEF CrashLoop
  <2> HIDE DEF settling
  <2>4. /\ stray' \in [Daemon -> 0..MaxStray] /\ runs' \in [Daemon -> 0..Concurrency]
        /\ runs'[p] = 0 /\ \A q \in Daemon \ {p} : runs'[q] = runs[q]
    BY <1>1, <2>1, <2>2, <2>3 DEF SupervisorType
  <2>5. CASE supervisor' = [supervisor EXCEPT ![p] = "died"] /\ UNCHANGED crashes
    <3>0. pc[p] \notin Fresh
      <4>1. Len(subsystems[p]) >= 4
        BY <1>2, <2>3 DEF Well
      <4>2. pc[p] \in Fresh => Len(subsystems[p]) \in {0, 1, 2}
        BY Bare DEF Fresh
      <4>3. \A n \in {0, 1, 2} : ~(n >= 4)
        OBVIOUS
      <4> QED
        BY <4>1, <4>2, <4>3
    <3>1. Well(pc[p], subsystems[p], "died", crashes[p], 0)
      BY <1>2, <3>0 DEF Well
    <3>2. /\ SupervisorType' /\ supervisor'[p] = "died"
          /\ \A q \in Daemon \ {p} : supervisor'[q] = supervisor[q]
      BY <1>1, <2>4, <2>5 DEF SupervisorType
    <3> QED
      BY <1>2, <2>4, <2>5, <3>1, <3>2, StaysWell
  <2>6. ASSUME NEW healthy \in BOOLEAN, crashes' = [crashes EXCEPT ![p] = Tally(p, healthy)],
               supervisor' = [supervisor EXCEPT ![p] = AfterCrash(p, Tally(p, healthy))]
        PROVE  Inv'
    <3> DEFINE tally == Tally(p, healthy)
               after == AfterCrash(p, tally)
    <3>1. crashes[p] < MaxRestarts /\ Len(subsystems[p]) >= 4
      BY <1>2, <2>3 DEF Well
    <3>2. pc[p] \notin Fresh
      <4>1. pc[p] \in Fresh => Len(subsystems[p]) \in {0, 1, 2}
        BY Bare DEF Fresh
      <4>2. \A n \in {0, 1, 2} : ~(n >= 4)
        OBVIOUS
      <4> QED
        BY <3>1, <4>1, <4>2
    <3>3. tally = 1 \/ tally = crashes[p] + 1
      BY DEF Tally
    <3>4. tally \in 0..MaxRestarts
      <4>1. MaxRestarts \in Nat \ {0} /\ crashes[p] \in 0..MaxRestarts
        BY <1>1, DaemonAssumption
      <4>2. \A m \in Nat \ {0} : 1 \in 0..m /\ \A n \in 0..m : n < m => n + 1 \in 0..m
        OBVIOUS
      <4> HIDE DEF tally
      <4> QED
        BY <3>1, <3>3, <4>1, <4>2
    <3>5. after = "gave up" \/ (after = "backoff" /\ tally < MaxRestarts)
      BY <3>4, DaemonAssumption DEF AfterCrash
    <3>6. crashes' = [crashes EXCEPT ![p] = tally] /\ supervisor' = [supervisor EXCEPT ![p] = after]
      BY <2>6
    <3> HIDE DEF tally, after
    <3>7. Well(pc[p], subsystems[p], after, tally, 0)
      BY <1>2, <3>1, <3>2, <3>5 DEF Well
    <3>8. /\ SupervisorType' /\ supervisor'[p] = after /\ crashes'[p] = tally
          /\ \A q \in Daemon \ {p} : supervisor'[q] = supervisor[q] /\ crashes'[q] = crashes[q]
      BY <1>1, <2>4, <3>4, <3>5, <3>6 DEF SupervisorType
    <3> QED
      BY <1>2, <2>4, <3>7, <3>8, StaysWell
  <2> QED
    BY <1>5, <2>5, <2>6 DEF CrashLoop
<1>6. CASE WakeUp(p) \/ LoopEnds(p)
  <2>1. PICK super \in {"ended", "running"} :
           /\ supervisor' = [supervisor EXCEPT ![p] = super]
           /\ super = "running" => supervisor[p] = "backoff"
    <3>1. CASE WakeUp(p) /\ ~halted[p]
      BY <3>1 DEF WakeUp
    <3>2. CASE (WakeUp(p) /\ halted[p]) \/ LoopEnds(p)
      BY <3>2 DEF WakeUp, LoopEnds
    <3> QED
      BY <1>6, <3>1, <3>2
  <2>2. /\ UNCHANGED <<crashes, runs, stray>>
        /\ supervisor[p] = "backoff" \/ runs[p] = 0
    BY <1>6 DEF WakeUp, LoopEnds
  <2>3. Well(pc[p], subsystems[p], super, crashes[p], runs[p])
    BY <1>2, <2>1, <2>2 DEF Well
  <2>4. /\ SupervisorType' /\ supervisor'[p] = super
        /\ \A q \in Daemon \ {p} : supervisor'[q] = supervisor[q]
    BY <1>1, <2>1, <2>2 DEF SupervisorType
  <2> QED
    BY <1>2, <2>2, <2>3, <2>4, StaysWell
<1> QED
  BY <1>3, <1>4, <1>5, <1>6 DEF Supervise

\* The end of a process, whatever becomes of the pidfile.
LEMMA ExitInv ==
    ASSUME Inv, NEW p \in Daemon, Exit(p),
           owner' \in Daemon \cup {None}, written' \in BOOLEAN,
           UNCHANGED <<operator, history>>
    PROVE  Inv'
<1>1. WellInv' /\ HaltInv' /\ PortInv' /\ ProcessType'
  BY ExitKeeps
<1> QED
  BY <1>1 DEF Inv, TypeOK, ProcessType, CliInv, operator, history

\* shutdown() of a daemon that runs.
LEMMA ShutsDown ==
    ASSUME Inv, NEW p \in Daemon, pc[p] = "ready", Goto(p, "stop"),
           UNCHANGED <<port, subsystems, supervisor, halted, crashes, runs>>
    PROVE  /\ WellInv' /\ HaltInv' /\ PortInv'
           /\ pc' \in [Daemon -> Places]
<1>1. Len(subsystems[p]) \in Depths("stop")
  BY Bare, PlaceDepths
<1>2. "stop" \in Places /\ "stop" \in Stopping /\ "stop" \notin Fresh
  BY DEF Places, Stopping, Fresh, Acquiring
<1> QED
  BY <1>1, <1>2, Moves

\* The last subsystem stops: the ones before it stay.
LEMMA StopsLast ==
    ASSUME Inv, NEW p \in Daemon, StopSubsystem(p)
    PROVE  Inv'
<1> DEFINE subs == subsystems[p]
           n == Len(subs)
           rest == RemoveAt(subs, n)
<1>1. subs \in Seq(Subsystem) /\ subs # <<>>
  BY DEF StopSubsystem, Inv, TypeOK
<1>2. /\ rest \in Seq(Subsystem)
      /\ Len(rest) = n - 1
      /\ \A i \in 1..(n - 1) : rest[i] = subs[i]
  BY <1>1, Pops
<1>3. n \in 1..5 /\ (pc[p] = "rollback" => n = 1)
  <2>1. n \in 0..5 /\ (pc[p] = "rollback" => n \in {0, 1})
    BY Bare
  <2>2. n # 0
    BY <1>1, EmptySeq
  <2> QED
    BY <2>1, <2>2
<1>4. Well(pc[p], subs, supervisor[p], crashes[p], runs[p])
  BY DEF Inv, WellInv
<1>5. Awaited(p) = Order[n]
  <2>1. n \in 1..n
    <3>1. \A k \in 1..5 : k \in 1..k
      OBVIOUS
    <3> HIDE DEF n
    <3> QED
      BY <1>3, <3>1
  <2>2. \A i \in 1..n : subs[i] = Order[i]
    BY <1>4 DEF Well
  <2>3. Awaited(p) = subs[n]
    BY DEF Awaited, Top
  <2> QED
    BY <2>1, <2>2, <2>3
<1>6. /\ subsystems' = [subsystems EXCEPT ![p] = rest]
      /\ pc[p] \in {"rollback", "stop"}
      /\ Stopped(p, Awaited(p))
      /\ port' = IF Awaited(p) = "ipc" THEN None ELSE port
      /\ UNCHANGED <<lock, pc, attempt, streaming, brain, operator, history>>
  BY DEF StopSubsystem, Top
<1>7. Awaited(p) = "ipc" <=> n = 2
  <2>1. n = 1 \/ n = 2 \/ n = 3 \/ n = 4 \/ n = 5
    BY <1>3
  <2>2. Order[1] # "ipc" /\ Order[2] = "ipc" /\ Order[3] # "ipc" /\ Order[4] # "ipc" /\ Order[5] # "ipc"
    BY DEF Order
  <2> HIDE DEF n
  <2> QED
    BY <1>5, <2>1, <2>2
<1>8. n = 4 => supervisor[p] \in {"ended", "gave up", "died"}
  <2>1. n = 4 => Awaited(p) = "brain"
    BY <1>5 DEF Order
  <2> QED
    BY <1>6, <2>1 DEF Stopped
<1> HIDE DEF rest, n, subs
<1>9. /\ subsystems'[p] = rest /\ subsystems' \in [Daemon -> Seq(Subsystem)]
      /\ \A q \in Daemon \ {p} : subsystems'[q] = subsystems[q]
  BY <1>2, <1>6 DEF Inv, TypeOK
<1>10. Well(pc[p], rest, supervisor[p], crashes[p], runs[p])
  <2>1. n - 1 \in Depths(pc[p])
    <3>1. CASE pc[p] = "rollback"
      BY <1>3, <3>1, PlaceDepths
    <3>2. CASE pc[p] = "stop"
      BY <1>3, <3>2, PlaceDepths
    <3> QED
      BY <1>6, <3>1, <3>2
  <2>2. \A i \in 1..(n - 1) : rest[i] = Order[i]
    <3>1. \A i \in 1..n : subs[i] = Order[i]
      BY <1>4 DEF Well, n
    <3>2. \A i \in 1..(n - 1) : i \in 1..n
      BY <1>3
    <3> QED
      BY <1>2, <3>1, <3>2
  <2>3. supervisor[p] \in {"running", "backoff"} => n - 1 >= 4
    <3>1. supervisor[p] \in {"running", "backoff"} => n >= 4 /\ n # 4
      BY <1>4, <1>8 DEF Well, n
    <3>2. \A k \in 1..5 : k >= 4 /\ k # 4 => k - 1 >= 4
      OBVIOUS
    <3> QED
      BY <1>3, <3>1, <3>2
  <2> QED
    BY <1>2, <1>4, <2>1, <2>2, <2>3 DEF Well
<1>11. WellInv'
  BY <1>6, <1>9, <1>10 DEF Inv, WellInv, brain
<1>12. HaltInv'
  BY <1>6 DEF Inv, HaltInv, brain
<1>13. PortInv'
  <2> SUFFICES ASSUME NEW q \in Daemon, Len(subsystems'[q]) >= 2 PROVE port' = q
    BY DEF PortInv
  <2>1. n >= 2 => port = p
    BY DEF Inv, PortInv, n, subs
  <2>2. CASE q = p
    <3>1. n - 1 >= 2
      BY <1>2, <1>9, <2>2
    <3>2. n >= 2 /\ n # 2
      BY <1>3, <3>1
    <3> QED
      BY <1>6, <1>7, <2>1, <2>2, <3>2
  <2>3. CASE q # p
    <3>1. subsystems'[q] = subsystems[q]
      BY <1>9, <2>3
    <3>2. port = q
      BY <3>1 DEF Inv, PortInv
    <3>3. n # 2
      BY <2>1, <2>3, <3>2
    <3> QED
      BY <1>6, <1>7, <3>2, <3>3
  <2> QED
    BY <2>2, <2>3
<1>14. port' \in Daemon \cup {None}
  BY <1>6 DEF Inv, TypeOK
<1> QED
  BY <1>6, <1>9, <1>11, <1>12, <1>13, <1>14 DEF Inv, TypeOK, CliInv, lock, brain, operator, history

LEMMA StopKeeps ==
    ASSUME Inv, NEW p \in Daemon, Stop(p)
    PROVE  Inv'
<1>1. CASE Halt(p)
  <2>1. /\ halted' = [halted EXCEPT ![p] = TRUE] /\ pc[p] \in Stopping
        /\ UNCHANGED <<lock, port, process, supervisor, crashes, runs, stray, operator, history>>
    BY <1>1 DEF Halt, Stopping
  <2>2. halted' \in [Daemon -> BOOLEAN]
    BY <2>1 DEF Inv, TypeOK
  <2>3. HaltInv'
    BY <2>1 DEF Inv, TypeOK, HaltInv, process
  <2> QED
    BY <2>1, <2>2, <2>3 DEF Inv, TypeOK, WellInv, PortInv, CliInv, lock, process, operator, history
<1>2. CASE StopSubsystem(p)
  BY <1>2, StopsLast
<1>3. CASE Close(p)
  <2>1. Len(subsystems[p]) \in Depths("close")
    BY <1>3, NothingStarted, PlaceDepths DEF Close
  <2>2. "close" \in Places /\ "close" \in Stopping /\ "close" \notin Fresh
    BY DEF Places, Stopping, Fresh, Acquiring
  <2>3. Goto(p, "close") /\ UNCHANGED <<lock, port, attempt, subsystems, streaming, brain, operator, history>>
    BY <1>3 DEF Close
  <2>4. WellInv' /\ HaltInv' /\ PortInv' /\ pc' \in [Daemon -> Places]
    BY <2>1, <2>2, <2>3, Moves DEF brain
  <2> QED
    BY <2>3, <2>4 DEF Inv, TypeOK, Places, CliInv, lock, brain, operator, history
<1>4. CASE Release(p) /\ Exit(p)
  BY <1>4, ExitInv DEF Release, Inv, TypeOK, lock
<1>5. CASE Release(p) /\ ~Exit(p)
  <2>1. Len(subsystems[p]) \in Depths("unlink")
    BY <1>5, Bare, PlaceDepths DEF Release
  <2>2. "unlink" \in Places /\ "unlink" \in Stopping /\ "unlink" \notin Fresh
    BY DEF Places, Stopping, Fresh, Acquiring
  <2>3. Goto(p, "unlink") /\ UNCHANGED <<lock, port, attempt, subsystems, streaming, brain, operator, history>>
    BY <1>5 DEF Release
  <2>4. WellInv' /\ HaltInv' /\ PortInv' /\ pc' \in [Daemon -> Places]
    BY <2>1, <2>2, <2>3, Moves DEF brain
  <2> QED
    BY <2>3, <2>4 DEF Inv, TypeOK, Places, CliInv, lock, brain, operator, history
<1>6. CASE Unlink(p)
  BY <1>6, ExitInv DEF Unlink
<1> QED
  BY <1>1, <1>2, <1>3, <1>4, <1>5, <1>6 DEF Stop

LEMMA LifeKeeps ==
    ASSUME Inv, NEW p \in Daemon, Stream(p) \/ Shutdown(p) \/ ForceExit(p) \/ Kill(p)
    PROVE  Inv'
<1>1. CASE Stream(p)
  <2>1. streaming' = [streaming EXCEPT ![p] = ~@]
        /\ UNCHANGED <<lock, port, pc, attempt, subsystems, brain, operator, history>>
    BY <1>1 DEF Stream
  <2>2. streaming' \in [Daemon -> BOOLEAN]
    BY <2>1 DEF Inv, TypeOK
  <2> QED
    BY <2>1, <2>2 DEF Inv, TypeOK, WellInv, HaltInv, PortInv, CliInv, lock, brain, operator, history
<1>2. CASE Shutdown(p)
  <2>1. WellInv' /\ HaltInv' /\ PortInv' /\ pc' \in [Daemon -> Places]
    BY <1>2, ShutsDown DEF Shutdown, brain
  <2> QED
    BY <1>2, <2>1 DEF Shutdown, Inv, TypeOK, Places, CliInv, lock, brain, operator, history
<1>3. CASE ForceExit(p) \/ Kill(p)
  BY <1>3, ExitInv DEF ForceExit, Kill, Inv, TypeOK, lock
<1> QED
  BY <1>1, <1>2, <1>3

\* A new process.
LEMMA Spawned ==
    ASSUME Inv, NEW p \in Daemon, Spawn(p),
           UNCHANGED <<port, subsystems, supervisor, halted, crashes, runs>>
    PROVE  /\ WellInv' /\ HaltInv' /\ PortInv'
           /\ pc' \in [Daemon -> Places]
           /\ spawns' \in 0..MaxSpawns /\ raced' \in BOOLEAN
<1>1. WellInv' /\ HaltInv' /\ PortInv' /\ pc' \in [Daemon -> Places]
  BY MovesBare DEF Spawn, Acquiring
<1>2. spawns' \in 0..MaxSpawns
  <2>1. MaxSpawns \in Nat /\ spawns \in 0..MaxSpawns /\ spawns < MaxSpawns /\ spawns' = spawns + 1
    BY DaemonAssumption DEF Spawn, Inv, TypeOK
  <2> QED
    BY <2>1
<1>3. raced' \in BOOLEAN
  BY DEF Spawn, Inv, TypeOK
<1> QED
  BY <1>1, <1>2, <1>3

LEMMA LaunchKeeps ==
    ASSUME Inv, NEW p \in Daemon, Launch(p)
    PROVE  Inv'
<1>1. /\ Spawn(p)
      /\ UNCHANGED <<lock, port, attempt, subsystems, streaming, brain, operator>>
  BY DEF Launch
<1>2. /\ WellInv' /\ HaltInv' /\ PortInv'
      /\ pc' \in [Daemon -> Places]
      /\ spawns' \in 0..MaxSpawns /\ raced' \in BOOLEAN
  BY <1>1, Spawned DEF brain
<1> QED
  BY <1>1, <1>2 DEF Inv, TypeOK, Places, CliInv, lock, brain, operator

LEMMA CommandKeeps ==
    ASSUME Inv, NEW c \in Cli, Command(c)
    PROVE  Inv'
<1> DEFINE Where == {"idle", "appears", "kill", "gone", "reap", "unlink"}
<1>1. ASSUME NEW where \in Where, NEW pid \in Daemon \cup {None}, To(c, where, pid),
             where \in {"kill", "gone", "reap", "unlink"} => pid \in Daemon
      PROVE  CliInv' /\ cli' \in [Cli -> Where] /\ target' \in [Cli -> Daemon \cup {None}]
  <2>1. cli' \in [Cli -> Where] /\ target' \in [Cli -> Daemon \cup {None}]
    BY <1>1 DEF Inv, TypeOK, To
  <2>2. /\ cli'[c] = where /\ target'[c] = pid
        /\ \A d \in Cli \ {c} : cli'[d] = cli[d] /\ target'[d] = target[d]
    BY <1>1 DEF Inv, TypeOK, To
  <2>3. CliInv'
    BY <1>1, <2>2 DEF Inv, CliInv
  <2> QED
    BY <2>1, <2>3
<1>2. PidInFile \in Daemon \cup {None} /\ target[c] \in Daemon \cup {None}
  BY DEF PidInFile, Inv, TypeOK
<1>3. /\ "idle" \in Where /\ "appears" \in Where /\ "kill" \in Where /\ "gone" \in Where
      /\ "reap" \in Where /\ "unlink" \in Where
  OBVIOUS
<1>4. None \in Daemon \cup {None}
  OBVIOUS
<1>5. cli[c] \in {"kill", "gone", "reap"} => target[c] \in Daemon
  BY DEF Inv, CliInv
<1> HIDE DEF Where
<1>6. CASE CliStart(c)
  <2>1. PICK p \in Daemon : Spawn(p)
    BY <1>6 DEF CliStart
  <2>2. To(c, "appears", None) /\ UNCHANGED <<lock, port, attempt, subsystems, streaming, brain>>
    BY <1>6 DEF CliStart
  <2>3. /\ WellInv' /\ HaltInv' /\ PortInv'
        /\ pc' \in [Daemon -> Places]
        /\ spawns' \in 0..MaxSpawns /\ raced' \in BOOLEAN
    BY <2>1, <2>2, Spawned DEF brain
  <2>4. CliInv' /\ cli' \in [Cli -> Where] /\ target' \in [Cli -> Daemon \cup {None}]
    BY <1>1, <1>3, <1>4, <2>2
  <2> QED
    BY <2>2, <2>3, <2>4 DEF Inv, TypeOK, Places, Where, lock, brain
<1>7. CASE CliAppears(c) \/ CliStop(c) \/ CliGone(c)
  <2>1. UNCHANGED <<lock, port, process, brain, history>>
    BY <1>7 DEF CliAppears, CliStop, CliGone
  <2>2. \/ To(c, "idle", None)
        \/ To(c, "kill", PidInFile) /\ PidInFile \in Daemon
        \/ To(c, "reap", target[c]) /\ target[c] \in Daemon
    BY <1>2, <1>5, <1>7 DEF CliAppears, CliStop, CliGone, Alive
  <2>3. CliInv' /\ cli' \in [Cli -> Where] /\ target' \in [Cli -> Daemon \cup {None}]
    BY <1>1, <1>2, <1>3, <1>4, <2>2
  <2> QED
    BY <2>1, <2>3 DEF Inv, TypeOK, Where, WellInv, HaltInv, PortInv, lock, process, brain, history
<1>8. CASE Sigterm(c)
  <2> DEFINE p == target[c]
  <2>1. p \in Daemon
    BY <1>5, <1>8 DEF Sigterm
  <2>2. /\ To(c, "idle", None) \/ To(c, "gone", p)
        /\ UNCHANGED <<lock, history>>
    BY <1>8 DEF Sigterm
  <2>3. CliInv' /\ cli' \in [Cli -> Where] /\ target' \in [Cli -> Daemon \cup {None}]
    BY <1>1, <1>3, <1>4, <2>1, <2>2
  <2>4. \/ Exit(p)
        \/ pc[p] = "ready" /\ Goto(p, "stop") /\ UNCHANGED <<port, attempt, subsystems, streaming, brain>>
        \/ UNCHANGED <<port, process, brain>>
    BY <1>8 DEF Sigterm
  <2> HIDE DEF p
  <2>5. CASE Exit(p)
    <3>1. WellInv' /\ HaltInv' /\ PortInv' /\ ProcessType'
      BY <2>1, <2>5, ExitKeeps
    <3> QED
      BY <2>2, <2>3, <3>1 DEF Inv, TypeOK, Where, ProcessType, lock, history
  <2>6. CASE pc[p] = "ready" /\ Goto(p, "stop") /\ UNCHANGED <<port, attempt, subsystems, streaming, brain>>
    <3>1. WellInv' /\ HaltInv' /\ PortInv' /\ pc' \in [Daemon -> Places]
      BY <2>1, <2>6, ShutsDown DEF brain
    <3> QED
      BY <2>2, <2>3, <2>6, <3>1 DEF Inv, TypeOK, Where, Places, lock, history, brain
  <2>7. CASE UNCHANGED <<port, process, brain>>
    BY <2>2, <2>3, <2>7 DEF Inv, TypeOK, Where, WellInv, HaltInv, PortInv, lock, process, brain, history
  <2> QED
    BY <2>4, <2>5, <2>6, <2>7
<1>9. CASE CliReap(c)
  <2>1. /\ UNCHANGED <<lock, port, process, brain, spawns>>
        /\ To(c, "unlink", target[c]) \/ To(c, "idle", None)
        /\ target[c] \in Daemon
    BY <1>5, <1>9 DEF CliReap
  <2>2. raced' \in BOOLEAN
    BY <1>9 DEF CliReap
  <2>3. CliInv' /\ cli' \in [Cli -> Where] /\ target' \in [Cli -> Daemon \cup {None}]
    BY <1>1, <1>3, <1>4, <2>1
  <2> QED
    BY <2>1, <2>2, <2>3 DEF Inv, TypeOK, Where, WellInv, HaltInv, PortInv, lock, process, brain
<1>10. CASE CliUnlink(c)
  <2>1. /\ UNCHANGED <<port, process, brain, history>> /\ owner' = None /\ written' = FALSE
        /\ To(c, "idle", None)
    BY <1>10 DEF CliUnlink
  <2>2. CliInv' /\ cli' \in [Cli -> Where] /\ target' \in [Cli -> Daemon \cup {None}]
    BY <1>1, <1>3, <1>4, <2>1
  <2> QED
    BY <2>1, <2>2 DEF Inv, TypeOK, Where, WellInv, HaltInv, PortInv, process, brain, history
<1> QED
  BY <1>6, <1>7, <1>8, <1>9, <1>10 DEF Command

LEMMA InvKept ==
    ASSUME Inv, [Next]_vars PROVE Inv'
<1>1. ASSUME NEW p \in Daemon, Launch(p) \/ Start(p) \/ Stream(p) \/ Supervise(p)
                               \/ Shutdown(p) \/ Stop(p) \/ ForceExit(p) \/ Kill(p)
      PROVE  Inv'
  BY <1>1, LaunchKeeps, StartKeeps, LifeKeeps, SuperviseKeeps, StopKeeps
<1>2. ASSUME NEW c \in Cli, Command(c) PROVE Inv'
  BY <1>2, CommandKeeps
<1>3. CASE UNCHANGED vars
  BY <1>3 DEF vars, lock, process, brain, operator, history, Inv, TypeOK, WellInv, HaltInv, PortInv, CliInv
<1> QED
  BY <1>1, <1>2, <1>3 DEF Next

LEMMA InvAlways == Spec => []Inv
  BY Initially, InvKept, PTL DEF Spec

-----------------------------------------------------------------------------
(* The theorems.                                                           *)

\* Every variable has its type, whatever starts, crashes, is killed or told to stop.
THEOREM TypeCorrect == Spec => []TypeOK
<1>1. Inv => TypeOK
  BY DEF Inv
<1> QED
  BY <1>1, InvAlways, PTL

\* At most one process claims directives and delivers messages, even when two
\* starts overlap and the pidfile names neither: a process that has workers has
\* the port (index.ts:426-506, 520-527).
THEOREM OneBrainOnly == Spec => []OneBrain
<1>1. Inv => OneBrain
  <2> SUFFICES ASSUME Inv, NEW p \in Daemon, NEW q \in Daemon,
                      NEW name \in {"ipc", "outbound", "brain"},
                      name \in Range(subsystems[p]), name \in Range(subsystems[q])
               PROVE  p = q
    BY DEF OneBrain
  <2>1. ASSUME NEW d \in Daemon, name \in Range(subsystems[d]) PROVE port = d
    <3> DEFINE subs == subsystems[d]
               n == Len(subs)
    <3>1. subs \in Seq(Subsystem) /\ n \in 0..5
      BY Bare DEF Inv, TypeOK
    <3>2. PICK i \in 1..n : subs[i] = name
      BY <2>1, <3>1 DEF Range
    <3>3. Order[i] = name
      BY <3>2 DEF Inv, WellInv, Well
    <3>4. Order[1] = "channels"
      BY DEF Order
    <3> HIDE DEF subs
    <3>5. i # 1
      BY <3>3, <3>4
    <3>6. n >= 2
      BY <3>1, <3>2, <3>5
    <3> QED
      BY <3>6 DEF Inv, PortInv, subs
  <2> QED
    BY <2>1
<1> QED
  BY <1>1, InvAlways, PTL

\* Who touches the supervisor's loop.
Touches(p) == Exit(p) \/ StartWorkers(p) \/ CrashLoop(p) \/ WakeUp(p) \/ LoopEnds(p)

Untouched == UNCHANGED <<stray, crashes, supervisor>>

LEMMA OnlyTouches ==
    ASSUME Inv, [Next]_vars
    PROVE  Untouched \/ \E p \in Daemon : Touches(p) \/ EndRun(p)
<1>1. ASSUME NEW p \in Daemon, Start(p) PROVE Untouched \/ Touches(p)
  BY <1>1 DEF Untouched, Start, Touches, Look, Reap, Create, Write, OpenDatabase, StartChannels, StartIpc, StartEvents, Fail, brain
<1>2. ASSUME NEW p \in Daemon, Supervise(p) PROVE Untouched \/ Touches(p) \/ EndRun(p)
  BY <1>2 DEF Untouched, Supervise, Touches, BeginRun
<1>3. ASSUME NEW p \in Daemon, Stop(p) PROVE Untouched \/ Touches(p)
  BY <1>3 DEF Untouched, Stop, Touches, Halt, StopSubsystem, Close, Release, Unlink, brain
<1>4. ASSUME NEW p \in Daemon, Launch(p) \/ Stream(p) \/ Shutdown(p) \/ ForceExit(p) \/ Kill(p)
      PROVE  Untouched \/ Touches(p)
  BY <1>4 DEF Untouched, Launch, Stream, Shutdown, ForceExit, Kill, Touches, brain
<1>5. ASSUME NEW c \in Cli, Command(c)
      PROVE  Untouched \/ \E p \in Daemon : Touches(p)
  <2>1. CASE Sigterm(c)
    <3>1. target[c] \in Daemon
      BY <2>1 DEF Sigterm, Inv, CliInv
    <3>2. Untouched \/ Exit(target[c])
      BY <2>1 DEF Untouched, Sigterm, brain
    <3> QED
      BY <3>1, <3>2 DEF Touches
  <2>2. CASE ~Sigterm(c)
    BY <1>5, <2>2 DEF Untouched, Command, CliStart, CliAppears, CliStop, CliGone, CliReap, CliUnlink, brain
  <2> QED
    BY <2>1, <2>2
<1>6. CASE UNCHANGED vars
  BY <1>6 DEF Untouched, vars, brain
<1> QED
  BY <1>1, <1>2, <1>3, <1>4, <1>5, <1>6 DEF Next

\* A run is left over by a crash only.
StrayInv == \A p \in Daemon : stray[p] > 0 => crashes[p] > 0 \/ supervisor[p] = "died"

LEMMA StraysInitially == Init => StrayInv
  BY DEF Init, StrayInv

LEMMA StraysKept ==
    ASSUME Inv, StrayInv, [Next]_vars PROVE StrayInv'
<1>0. /\ stray \in [Daemon -> 0..MaxStray] /\ runs \in [Daemon -> 0..Concurrency]
      /\ crashes \in [Daemon -> 0..MaxRestarts]
      /\ supervisor \in [Daemon -> {"none", "running", "backoff", "ended", "gave up", "died"}]
  BY DEF Inv, TypeOK
<1>1. ASSUME NEW q \in Daemon, Exit(q) PROVE StrayInv'
  BY <1>0, <1>1 DEF Exit, StrayInv
<1>2. ASSUME NEW q \in Daemon, StartWorkers(q) PROVE StrayInv'
  <2>1. supervisor[q] # "died"
    BY <1>2 DEF StartWorkers, Inv, WellInv, Well, Fresh
  <2>2. /\ UNCHANGED <<stray, crashes>>
        /\ \A p \in Daemon \ {q} : supervisor'[p] = supervisor[p]
    BY <1>0, <1>2 DEF StartWorkers
  <2> QED
    BY <2>1, <2>2 DEF StrayInv
<1>3. ASSUME NEW q \in Daemon, WakeUp(q) \/ LoopEnds(q) PROVE StrayInv'
  <2>1. /\ UNCHANGED <<stray, crashes>> /\ supervisor[q] # "died"
        /\ \A p \in Daemon \ {q} : supervisor'[p] = supervisor[p]
    BY <1>0, <1>3 DEF WakeUp, LoopEnds
  <2> QED
    BY <2>1 DEF StrayInv
<1>4. ASSUME NEW q \in Daemon, EndRun(q) PROVE StrayInv'
  <2>1. UNCHANGED <<supervisor, crashes>> /\ (UNCHANGED stray \/ stray[q] > 0)
    BY <1>4 DEF EndRun
  <2>2. \A p \in Daemon \ {q} : stray'[p] = stray[p]
    BY <1>0, <1>4 DEF EndRun
  <2> QED
    BY <2>1, <2>2 DEF StrayInv
<1>5. ASSUME NEW q \in Daemon, CrashLoop(q) PROVE StrayInv'
  <2>1. \A p \in Daemon \ {q} : /\ stray'[p] = stray[p] /\ crashes'[p] = crashes[p]
                                /\ supervisor'[p] = supervisor[p]
    BY <1>0, <1>5 DEF CrashLoop
  <2>2. supervisor'[q] = "died" \/ crashes'[q] > 0
    <3>1. CASE halted[q]
      BY <1>0, <1>5, <3>1 DEF CrashLoop
    <3>2. CASE ~halted[q]
      <4>1. PICK healthy \in BOOLEAN : crashes' = [crashes EXCEPT ![q] = Tally(q, healthy)]
        BY <1>5, <3>2 DEF CrashLoop
      <4>2. crashes'[q] = 1 \/ crashes'[q] = crashes[q] + 1
        BY <1>0, <4>1 DEF Tally
      <4>3. crashes[q] \in 0..MaxRestarts
        BY <1>0
      <4> QED
        BY <4>2, <4>3
    <3> QED
      BY <3>1, <3>2
  <2> QED
    BY <2>1, <2>2 DEF StrayInv
<1>6. CASE UNCHANGED <<stray, crashes, supervisor>>
  BY <1>6 DEF StrayInv
<1>7. (\E q \in Daemon : Touches(q) \/ EndRun(q)) \/ UNCHANGED <<stray, crashes, supervisor>>
  BY OnlyTouches DEF Untouched
<1> QED
  BY <1>1, <1>2, <1>3, <1>4, <1>5, <1>6, <1>7 DEF Touches

\* The database is closed only when the serve loop has ended, and only under runs
\* that a crash of a loop has orphaned (index.ts:520-532, supervisor.ts:81-147,
\* serve.ts:381-393).
THEOREM Drained == Spec => []DrainedBeforeClose
<1>1. Inv /\ StrayInv => DrainedBeforeClose
  <2> SUFFICES ASSUME Inv, StrayInv, NEW p \in Daemon, pc[p] \in {"close", "unlink"}
               PROVE  supervisor[p] \notin {"running", "backoff"} /\ runs[p] = 0
    BY DEF DrainedBeforeClose, StrayInv
  <2>1. Len(subsystems[p]) = 0
    BY Bare
  <2>2. Well(pc[p], subsystems[p], supervisor[p], crashes[p], runs[p])
    BY DEF Inv, WellInv
  <2> QED
    BY <2>1, <2>2 DEF Well
<1>2. Inv /\ StrayInv /\ [Next]_vars => (Inv /\ StrayInv)'
  BY InvKept, StraysKept
<1> QED
  BY <1>1, <1>2, Initially, StraysInitially, PTL DEF Spec

\* No loop of the supervisor starts after its stop() was called, not even when the
\* back-off ends at that moment (supervisor.ts:81-147).
THEOREM NoLoopRestarted == Spec => NoLoopAfterStop
<1> DEFINE Still == \A p \in Daemon : halted[p] /\ supervisor'[p] = "running" => supervisor[p] = "running"
<1>1. ASSUME Inv, [Next]_vars PROVE Still
  <2>1. ASSUME NEW q \in Daemon, Touches(q) PROVE Still
    <3>1. \A p \in Daemon \ {q} : supervisor'[p] = supervisor[p]
      <4>1. \E super : supervisor' = [supervisor EXCEPT ![q] = super]
        <5>1. CASE Exit(q)
          BY <5>1 DEF Exit
        <5>2. CASE StartWorkers(q)
          BY <5>2 DEF StartWorkers
        <5>3. CASE CrashLoop(q)
          BY <5>3 DEF CrashLoop
        <5>4. CASE WakeUp(q)
          BY <5>4 DEF WakeUp
        <5>5. CASE LoopEnds(q)
          BY <5>5 DEF LoopEnds
        <5> QED
          BY <2>1, <5>1, <5>2, <5>3, <5>4, <5>5 DEF Touches
      <4> QED
        BY <4>1 DEF Inv, TypeOK
    <3>2. halted[q] /\ supervisor'[q] = "running" => supervisor[q] = "running"
      <4>1. CASE Exit(q)
        BY <4>1 DEF Exit, Inv, TypeOK
      <4>2. CASE StartWorkers(q)
        BY <1>1, <4>2, Bare DEF StartWorkers, Stopping
      <4>3. CASE CrashLoop(q) \/ LoopEnds(q)
        BY <4>3 DEF CrashLoop, LoopEnds
      <4>4. CASE WakeUp(q)
        <5>1. CASE halted[q]
          <6>1. supervisor' = [supervisor EXCEPT ![q] = "ended"]
            BY <4>4, <5>1 DEF WakeUp
          <6> QED
            BY <6>1 DEF Inv, TypeOK
        <5> QED
          BY <5>1
      <4> QED
        BY <2>1, <4>1, <4>2, <4>3, <4>4 DEF Touches
    <3> QED
      BY <3>1, <3>2
  <2>2. Untouched \/ (\E q \in Daemon : EndRun(q)) => Still
    BY DEF Untouched, EndRun
  <2> QED
    BY <1>1, <2>1, <2>2, OnlyTouches
<1>2. Inv /\ [Next]_vars => [Still]_vars
  BY <1>1
<1> QED
  BY <1>2, InvAlways, PTL DEF Spec, NoLoopAfterStop

-----------------------------------------------------------------------------
(* The pidfile, while no start overlaps another one or a check-then-unlink. *)

\* One process at a time acquires the file.
Alone == \A p, q \in Daemon : pc[p] \in Acquiring /\ pc[q] \in Acquiring => p = q

\* The file names whoever has acquired it.
Named == \A p \in Daemon : Acquired(p) => PidInFile = p

\* Past its look, a start finds that nobody has it; and what it has created
\* stays its own.
FirstOfAll == \A p \in Daemon : pc[p] \in {"reap", "create", "write"} => \A q \in Daemon : ~Acquired(q)
Creator == \A p \in Daemon : pc[p] = "write" => owner = p

\* An operator waits for the end of a daemon, not of its successor; reaps the file
\* of one that has ended; and unlinks it when nobody runs.
WaitsForOne == \A c \in Cli : cli[c] = "gone" => pc[target[c]] \notin Acquiring
ReapsDead == \A c \in Cli : cli[c] = "reap" => pc[target[c]] = "off"
UnlinksAlone == \A c \in Cli : cli[c] = "unlink" => \A p \in Daemon : pc[p] = "off"

LockParts == Alone /\ Named /\ FirstOfAll /\ Creator /\ WaitsForOne /\ ReapsDead /\ UnlinksAlone
LockInv == ~raced => LockParts

\* What a step may do to one process without a look at the file: to end it, or to
\* bring one that has the file elsewhere.
LEMMA Quietly ==
    ASSUME Inv, LockParts, UNCHANGED <<lock, operator>>,
           NEW p \in Daemon, NEW to \in Places, pc' = [pc EXCEPT ![p] = to],
           to = "off" \/ (Acquired(p) /\ to \notin Acquiring)
    PROVE  LockParts'
<1>1. /\ pc'[p] = to /\ \A q \in Daemon \ {p} : pc'[q] = pc[q]
  BY DEF Inv, TypeOK
<1>2. /\ \A q \in Daemon : pc'[q] \in Acquiring => pc'[q] = pc[q]
      /\ \A q \in Daemon : Acquired(q)' => Acquired(q)
      /\ \A q \in Daemon : pc[q] = "off" => pc'[q] = "off"
  BY <1>1 DEF Acquired, Acquiring
<1>3. Alone' /\ Creator'
  BY <1>2 DEF LockParts, Alone, Creator, lock, Acquiring
<1>4. Named'
  BY <1>2 DEF LockParts, Named, PidInFile, lock
<1>5. FirstOfAll'
  BY <1>2 DEF LockParts, FirstOfAll, Acquiring
<1>6. WaitsForOne' /\ ReapsDead'
  <2>1. \A c \in Cli : cli[c] \in {"gone", "reap"} => target[c] \in Daemon
    BY DEF Inv, CliInv
  <2> QED
    BY <1>2, <2>1 DEF LockParts, WaitsForOne, ReapsDead, operator
<1>7. UnlinksAlone'
  BY <1>2 DEF LockParts, UnlinksAlone, operator
<1> QED
  BY <1>3, <1>4, <1>5, <1>6, <1>7 DEF LockParts

\* A process is spawned: the step marks it when others are about the file.
LEMMA SpawnQuietly ==
    ASSUME Inv, LockParts, NEW p \in Daemon, Spawn(p), ~Overlap(p), UNCHANGED lock,
           \/ UNCHANGED operator
           \/ \E c \in Cli : cli[c] = "idle" /\ To(c, "appears", None)
    PROVE  LockParts'
<1>1. /\ pc[p] = "off" /\ pc'[p] = "look" /\ \A q \in Daemon \ {p} : pc'[q] = pc[q]
  BY DEF Inv, TypeOK, Spawn, Goto
<1>2. \A q \in Daemon \ {p} : pc[q] \notin Acquiring
  BY DEF Overlap
<1>3. \A c \in Cli : cli[c] # "unlink" /\ target[c] # p
  BY DEF Overlap
<1>4. \A c \in Cli : cli'[c] \in {"gone", "reap", "unlink"} => cli'[c] = cli[c] /\ target'[c] = target[c]
  BY DEF operator, To, Inv, TypeOK
<1>5. \A q \in Daemon : Acquired(q)' => Acquired(q)
  BY <1>1 DEF Acquired, Acquiring
<1>6. Alone'
  BY <1>1, <1>2 DEF Alone
<1>7. Named'
  BY <1>5 DEF LockParts, Named, PidInFile, lock
<1>8. FirstOfAll' /\ Creator'
  <2>1. \A q \in Daemon : pc'[q] \notin {"reap", "create", "write"}
    BY <1>1, <1>2 DEF Acquiring
  <2> QED
    BY <2>1 DEF FirstOfAll, Creator
<1>9. WaitsForOne' /\ ReapsDead' /\ UnlinksAlone'
  <2>1. \A c \in Cli : cli[c] \in {"gone", "reap"} => target[c] \in Daemon
    BY DEF Inv, CliInv
  <2> QED
    BY <1>1, <1>3, <1>4, <2>1 DEF LockParts, WaitsForOne, ReapsDead, UnlinksAlone
<1> QED
  BY <1>6, <1>7, <1>8, <1>9 DEF LockParts

\* The one that acquires the file goes on.
LEMMA AcquiresQuietly ==
    ASSUME Inv, LockParts, UNCHANGED operator, NEW p \in Daemon, NEW to \in Places,
           pc[p] \in Acquiring, pc' = [pc EXCEPT ![p] = to],
           to \in {"reap", "create", "write", "open"} => \A q \in Daemon : ~Acquired(q),
           to = "write" => owner' = p,
           to = "open" => PidInFile' = p,
           to \in Acquiring \cup {"open"},
           UNCHANGED lock \/ \A q \in Daemon : ~Acquired(q)
    PROVE  LockParts'
<1>1. /\ pc'[p] = to /\ \A q \in Daemon \ {p} : pc'[q] = pc[q]
  BY DEF Inv, TypeOK
<1>2. \A q \in Daemon \ {p} : pc[q] \notin Acquiring
  BY DEF LockParts, Alone
<1>3. Alone'
  BY <1>1, <1>2 DEF Alone
<1>4. \A q \in Daemon \ {p} : Acquired(q)' <=> Acquired(q)
  BY <1>1 DEF Acquired
<1>5. Acquired(p)' => to = "open"
  BY <1>1 DEF Acquired
<1>6. Named'
  <2> SUFFICES ASSUME NEW q \in Daemon, Acquired(q)' PROVE PidInFile' = q
    BY DEF Named
  <2>1. CASE q = p
    BY <1>5, <2>1
  <2>2. CASE q # p
    <3>1. Acquired(q)
      BY <1>4, <2>2
    <3>2. UNCHANGED lock
      BY <3>1
    <3>3. PidInFile = q
      BY <3>1 DEF LockParts, Named
    <3> QED
      BY <3>2, <3>3 DEF PidInFile, lock
  <2> QED
    BY <2>1, <2>2
<1>7. FirstOfAll' /\ Creator'
  <2>1. \A q \in Daemon : pc'[q] \in {"reap", "create", "write"} => q = p /\ to \in {"reap", "create", "write"}
    BY <1>1, <1>2 DEF Acquiring
  <2>2. to \in {"reap", "create", "write"} => \A q \in Daemon : ~Acquired(q)'
    BY <1>4, <1>5
  <2>3. \A q \in Daemon : pc'[q] = "write" => owner' = q
    BY <1>1, <2>1
  <2> QED
    BY <2>1, <2>2, <2>3 DEF FirstOfAll, Creator
<1>8. WaitsForOne' /\ ReapsDead' /\ UnlinksAlone'
  <2>1. \A c \in Cli : cli[c] \in {"gone", "reap"} => target[c] \in Daemon
    BY DEF Inv, CliInv
  <2>2. \A c \in Cli : cli[c] # "unlink" /\ (cli[c] \in {"gone", "reap"} => target[c] # p)
    BY DEF LockParts, UnlinksAlone, WaitsForOne, ReapsDead, Acquiring
  <2> QED
    BY <1>1, <2>1, <2>2 DEF LockParts, WaitsForOne, ReapsDead, UnlinksAlone, operator
<1> QED
  BY <1>3, <1>6, <1>7, <1>8 DEF LockParts

LEMMA LockStart ==
    ASSUME Inv, LockParts, NEW p \in Daemon, Start(p)
    PROVE  LockParts'
<1>1. /\ "off" \in Places /\ Acquiring \subseteq Places /\ Booting \subseteq Places
      /\ "ready" \in Places /\ "rollback" \in Places
  BY DEF Places, Stopping
<1>2. CASE (Look(p) \/ Create(p)) /\ Exit(p)
  <2>1. pc' = [pc EXCEPT ![p] = "off"] /\ UNCHANGED operator
    BY <1>2 DEF Look, Create, Exit
  <2>2. UNCHANGED lock
    BY <1>2 DEF Look, Create, Exit, Goto, Inv, TypeOK
  <2> QED
    BY <1>1, <2>1, <2>2, Quietly
<1>3. CASE Look(p) /\ ~Exit(p)
  <2>1. /\ pc[p] = "look" /\ ~Locked(p) /\ UNCHANGED <<lock, operator>>
        /\ Goto(p, IF owner = None THEN "create" ELSE "reap")
    BY <1>3 DEF Look
  <2>2. \A q \in Daemon : ~Acquired(q)
    <3> SUFFICES ASSUME NEW q \in Daemon, Acquired(q) PROVE FALSE
      OBVIOUS
    <3>1. PidInFile = q /\ q # None /\ pc[q] # "off"
      BY DaemonAssumption DEF LockParts, Named, Acquired
    <3>2. q # p
      BY <2>1 DEF Acquired, Acquiring
    <3> QED
      BY <2>1, <3>1, <3>2 DEF Locked, Alive
  <2>3. PICK to \in {"create", "reap"} : pc' = [pc EXCEPT ![p] = to]
    BY <2>1 DEF Goto
  <2> QED
    BY <1>1, <2>1, <2>2, <2>3, AcquiresQuietly DEF Acquiring
<1>4. CASE Reap(p)
  <2>1. /\ pc[p] = "reap" /\ pc' = [pc EXCEPT ![p] = "create"] /\ UNCHANGED operator
        /\ \A q \in Daemon : ~Acquired(q)
    BY <1>4 DEF Reap, Goto, LockParts, FirstOfAll
  <2> QED
    BY <1>1, <2>1, AcquiresQuietly DEF Acquiring
<1>5. CASE Create(p) /\ ~Exit(p)
  <2>1. /\ pc[p] = "create" /\ UNCHANGED operator
        /\ \A q \in Daemon : ~Acquired(q)
    BY <1>5 DEF Create, LockParts, FirstOfAll
  <2>2. \/ pc' = [pc EXCEPT ![p] = "write"] /\ owner' = p
        \/ pc' = [pc EXCEPT ![p] = "look"]
    BY <1>5 DEF Create, Goto
  <2>3. CASE pc' = [pc EXCEPT ![p] = "write"] /\ owner' = p
    BY <1>1, <2>1, <2>3, AcquiresQuietly DEF Acquiring
  <2>4. CASE pc' = [pc EXCEPT ![p] = "look"]
    BY <1>1, <2>1, <2>4, AcquiresQuietly DEF Acquiring
  <2> QED
    BY <2>2, <2>3, <2>4
<1>6. CASE Write(p)
  <2>1. /\ pc[p] = "write" /\ pc' = [pc EXCEPT ![p] = "open"] /\ UNCHANGED <<owner, operator>>
        /\ owner = p /\ \A q \in Daemon : ~Acquired(q)
    BY <1>6 DEF Write, Goto, LockParts, FirstOfAll, Creator
  <2>2. written'
    BY <1>6, <2>1 DEF Write
  <2>3. PidInFile' = p
    BY <2>1, <2>2 DEF PidInFile
  <2>4. "open" \in Places /\ "write" \in Acquiring
    BY DEF Places, Booting, Acquiring
  <2> QED
    BY <2>1, <2>3, <2>4, AcquiresQuietly
<1>7. CASE OpenDatabase(p) \/ StartChannels(p) \/ StartIpc(p) \/ StartWorkers(p) \/ StartEvents(p)
  <2>1. PICK to \in {"rollback", "channels", "bind", "workers", "events", "ready"} :
           pc' = [pc EXCEPT ![p] = to]
    BY <1>7 DEF OpenDatabase, StartChannels, StartIpc, StartWorkers, StartEvents, Fail, Goto
  <2>2. pc[p] \in Booting /\ UNCHANGED <<lock, operator>>
    BY <1>7 DEF OpenDatabase, StartChannels, StartIpc, StartWorkers, StartEvents, Fail, Booting
  <2>3. to \in Places /\ to \notin Acquiring /\ Acquired(p)
    BY <2>2 DEF Places, Acquiring, Booting, Stopping, Acquired
  <2> QED
    BY <2>1, <2>2, <2>3, Quietly
<1> QED
  BY <1>2, <1>3, <1>4, <1>5, <1>6, <1>7 DEF Start

\* Nobody else has the file when one gives it back.
LEMMA LockUnlink ==
    ASSUME Inv, LockParts, NEW p \in Daemon, Unlink(p)
    PROVE  LockParts'
<1>1. /\ pc[p] = "unlink" /\ pc' = [pc EXCEPT ![p] = "off"] /\ UNCHANGED operator
  BY DEF Unlink, Exit
<1>2. /\ pc'[p] = "off" /\ \A q \in Daemon \ {p} : pc'[q] = pc[q]
  BY <1>1 DEF Inv, TypeOK
<1>3. Acquired(p)
  BY <1>1 DEF Acquired, Acquiring
<1>4. \A q \in Daemon : ~Acquired(q)'
  <2>1. \A q \in Daemon \ {p} : ~Acquired(q)
    BY <1>3 DEF LockParts, Named
  <2> QED
    BY <1>2, <2>1 DEF Acquired
<1>5. \A q \in Daemon : pc'[q] \notin {"reap", "create", "write"}
  BY <1>2, <1>3 DEF LockParts, FirstOfAll
<1>6. Alone' /\ Named' /\ FirstOfAll' /\ Creator'
  BY <1>2, <1>4, <1>5 DEF LockParts, Alone, Named, FirstOfAll, Creator, Acquiring
<1>7. WaitsForOne' /\ ReapsDead' /\ UnlinksAlone'
  <2>1. \A c \in Cli : cli[c] \in {"gone", "reap"} => target[c] \in Daemon
    BY DEF Inv, CliInv
  <2> QED
    BY <1>1, <1>2, <2>1 DEF LockParts, WaitsForOne, ReapsDead, UnlinksAlone, Acquiring, operator
<1> QED
  BY <1>6, <1>7 DEF LockParts

LEMMA LockLife ==
    ASSUME Inv, LockParts, NEW p \in Daemon,
           Stream(p) \/ Supervise(p) \/ Shutdown(p) \/ Stop(p) \/ ForceExit(p) \/ Kill(p)
    PROVE  LockParts'
<1>1. CASE Unlink(p)
  BY <1>1, LockUnlink
<1>2. CASE pc' = pc /\ UNCHANGED <<lock, operator>>
  BY <1>2 DEF LockParts, Alone, Named, FirstOfAll, Creator, WaitsForOne, ReapsDead, UnlinksAlone,
     Acquired, PidInFile, lock, operator
<1>3. ASSUME NEW to \in {"off", "stop", "close", "unlink"}, pc' = [pc EXCEPT ![p] = to],
             UNCHANGED <<lock, operator>>, to = "off" \/ pc[p] \in {"ready", "rollback", "stop", "close"}
      PROVE  LockParts'
  <2>1. to \in Places /\ to \notin Acquiring /\ (to = "off" \/ Acquired(p))
    BY <1>3 DEF Places, Stopping, Acquiring, Acquired
  <2> QED
    BY <1>3, <2>1, Quietly
<1>4. CASE Stream(p) \/ Supervise(p) \/ Halt(p) \/ StopSubsystem(p)
  <2>1. pc' = pc /\ UNCHANGED <<lock, operator>>
    BY <1>4 DEF Stream, Supervise, BeginRun, EndRun, CrashLoop, WakeUp, LoopEnds, Halt, StopSubsystem, process
  <2> QED
    BY <1>2, <2>1
<1>5. CASE Shutdown(p) \/ Close(p) \/ Release(p) \/ ForceExit(p) \/ Kill(p)
  <2>1. UNCHANGED <<lock, operator>>
    BY <1>5 DEF Shutdown, Close, Release, ForceExit, Kill
  <2>2. \/ pc' = [pc EXCEPT ![p] = "off"]
        \/ pc' = [pc EXCEPT ![p] = "stop"] /\ pc[p] = "ready"
        \/ pc' = [pc EXCEPT ![p] = "close"] /\ pc[p] \in {"rollback", "stop"}
        \/ pc' = [pc EXCEPT ![p] = "unlink"] /\ pc[p] = "close"
    BY <1>5 DEF Shutdown, Close, Release, ForceExit, Kill, Exit, Goto
  <2> QED
    BY <1>3, <2>1, <2>2
<1> QED
  BY <1>1, <1>4, <1>5 DEF Stop

\* What an operator's command must know to leave the file's parts in order.
Fair(d) == \/ cli[d] = "gone" /\ pc[target[d]] \notin Acquiring
           \/ cli[d] = "reap" /\ pc[target[d]] = "off"
           \/ cli[d] = "unlink" /\ \A q \in Daemon : pc[q] = "off"
           \/ cli[d] \notin {"gone", "reap", "unlink"}

LEMMA CommandQuietly ==
    ASSUME Inv, LockParts, UNCHANGED lock,
           NEW c \in Cli, Fair(c)', \A d \in Cli \ {c} : cli'[d] = cli[d] /\ target'[d] = target[d],
           \A q \in Daemon : pc'[q] \in Acquiring => pc'[q] = pc[q],
           \A q \in Daemon : Acquired(q)' => Acquired(q),
           \A q \in Daemon : pc[q] = "off" => pc'[q] = "off"
    PROVE  LockParts'
<1>1. Alone' /\ Creator' /\ FirstOfAll'
  BY DEF LockParts, Alone, Creator, FirstOfAll, lock, Acquiring
<1>2. Named'
  BY DEF LockParts, Named, PidInFile, lock
<1>3. \A d \in Cli : cli[d] \in {"gone", "reap"} => target[d] \in Daemon
  BY DEF Inv, CliInv
<1>4. \A d \in Cli \ {c} : /\ cli'[d] = "gone" => pc'[target'[d]] \notin Acquiring
                           /\ cli'[d] = "reap" => pc'[target'[d]] = "off"
                           /\ cli'[d] = "unlink" => \A q \in Daemon : pc'[q] = "off"
  BY <1>3 DEF LockParts, WaitsForOne, ReapsDead, UnlinksAlone
<1>5. /\ cli'[c] = "gone" => pc'[target'[c]] \notin Acquiring
      /\ cli'[c] = "reap" => pc'[target'[c]] = "off"
      /\ cli'[c] = "unlink" => \A q \in Daemon : pc'[q] = "off"
  BY DEF Fair
<1>6. WaitsForOne' /\ ReapsDead' /\ UnlinksAlone'
  BY <1>4, <1>5 DEF WaitsForOne, ReapsDead, UnlinksAlone
<1> QED
  BY <1>1, <1>2, <1>6 DEF LockParts

LEMMA LockCommand ==
    ASSUME Inv, LockParts, NEW c \in Cli, Command(c), ~raced'
    PROVE  LockParts'
<1>1. ASSUME NEW where, NEW pid, To(c, where, pid)
      PROVE  /\ cli'[c] = where /\ target'[c] = pid
             /\ \A d \in Cli \ {c} : cli'[d] = cli[d] /\ target'[d] = target[d]
  BY <1>1 DEF To, Inv, TypeOK
<1>2. CASE CliStart(c)
  <2>1. PICK p \in Daemon : Spawn(p)
    BY <1>2 DEF CliStart
  <2>2. cli[c] = "idle" /\ To(c, "appears", None) /\ UNCHANGED lock
    BY <1>2 DEF CliStart
  <2>3. ~Overlap(p)
    BY <2>1 DEF Spawn
  <2> QED
    BY <2>1, <2>2, <2>3, SpawnQuietly
<1>3. CASE CliAppears(c) \/ CliStop(c)
  <2>1. /\ pc' = pc /\ UNCHANGED lock
        /\ To(c, "idle", None) \/ To(c, "kill", PidInFile)
    BY <1>3 DEF CliAppears, CliStop, process
  <2>2. Fair(c)'
    BY <1>1, <2>1 DEF Fair
  <2>3. \A d \in Cli \ {c} : cli'[d] = cli[d] /\ target'[d] = target[d]
    BY <1>1, <2>1
  <2> QED
    BY <2>1, <2>2, <2>3, CommandQuietly DEF Acquired
<1>4. CASE Sigterm(c)
  <2> DEFINE p == target[c]
  <2>1. p \in Daemon /\ UNCHANGED lock
    BY <1>4 DEF Sigterm, Inv, CliInv
  <2>2. \/ To(c, "idle", None) /\ pc' = pc
        \/ /\ To(c, "gone", p)
           /\ \/ pc[p] = "ready" /\ Goto(p, "stop")
              \/ pc[p] \in Stopping \ {"rollback"} /\ pc' = pc
              \/ Exit(p)
    BY <1>4 DEF Sigterm, process
  <2> HIDE DEF p
  <2>3. CASE To(c, "idle", None) /\ pc' = pc
    <3>1. Fair(c)' /\ \A d \in Cli \ {c} : cli'[d] = cli[d] /\ target'[d] = target[d]
      BY <1>1, <2>3 DEF Fair
    <3> QED
      BY <2>1, <2>3, <3>1, CommandQuietly DEF Acquired
  <2>4. CASE To(c, "gone", p) /\ pc[p] \in Stopping \ {"rollback"} /\ pc' = pc
    <3>1. cli'[c] = "gone" /\ target'[c] = p /\ \A d \in Cli \ {c} : cli'[d] = cli[d] /\ target'[d] = target[d]
      BY <1>1, <2>4
    <3>2. Fair(c)'
      BY <2>4, <3>1 DEF Fair, Stopping, Acquiring
    <3> QED
      BY <2>1, <2>4, <3>1, <3>2, CommandQuietly DEF Acquired
  <2>5. ASSUME NEW to \in {"stop", "off"}, To(c, "gone", p), pc' = [pc EXCEPT ![p] = to],
               to = "off" \/ pc[p] = "ready"
        PROVE  LockParts'
    <3>1. cli'[c] = "gone" /\ target'[c] = p /\ \A d \in Cli \ {c} : cli'[d] = cli[d] /\ target'[d] = target[d]
      BY <1>1, <2>5
    <3>2. /\ pc'[p] = to /\ \A q \in Daemon \ {p} : pc'[q] = pc[q]
      BY <2>1, <2>5 DEF Inv, TypeOK
    <3>3. Fair(c)'
      BY <3>1, <3>2 DEF Fair, Acquiring
    <3>4. /\ \A q \in Daemon : pc'[q] \in Acquiring => pc'[q] = pc[q]
          /\ \A q \in Daemon : Acquired(q)' => Acquired(q)
          /\ \A q \in Daemon : pc[q] = "off" => pc'[q] = "off"
      BY <2>5, <3>2 DEF Acquired, Acquiring
    <3> QED
      BY <2>1, <3>1, <3>3, <3>4, CommandQuietly
  <2> QED
    BY <2>2, <2>3, <2>4, <2>5 DEF Goto, Exit
<1>5. CASE CliGone(c)
  <2>1. /\ cli[c] = "gone" /\ pc' = pc /\ UNCHANGED lock
        /\ (~Alive(PidInFile) /\ To(c, "reap", target[c])) \/ To(c, "idle", None)
    BY <1>5 DEF CliGone, process
  <2>2. target[c] \in Daemon
    BY <2>1 DEF Inv, CliInv
  <2>3. ~Alive(PidInFile) => pc[target[c]] = "off"
    <3> SUFFICES ASSUME ~Alive(PidInFile), pc[target[c]] # "off" PROVE FALSE
      OBVIOUS
    <3>1. Acquired(target[c])
      BY <2>1 DEF LockParts, WaitsForOne, Acquired
    <3>2. PidInFile = target[c] /\ target[c] # None
      BY <2>2, <3>1, DaemonAssumption DEF LockParts, Named
    <3> QED
      BY <3>2 DEF Alive
  <2>4. Fair(c)' /\ \A d \in Cli \ {c} : cli'[d] = cli[d] /\ target'[d] = target[d]
    BY <1>1, <2>1, <2>3 DEF Fair
  <2> QED
    BY <2>1, <2>4, CommandQuietly DEF Acquired
<1>6. CASE CliReap(c)
  <2>1. /\ cli[c] = "reap" /\ pc' = pc /\ UNCHANGED lock
        /\ (StillTarget(c) /\ To(c, "unlink", target[c])) \/ To(c, "idle", None)
    BY <1>6 DEF CliReap, process
  <2>2. StillTarget(c) => \A p \in Daemon : pc[p] \notin Acquiring
    BY <1>6 DEF CliReap
  <2>3. StillTarget(c) => \A p \in Daemon : pc[p] = "off"
    <3> SUFFICES ASSUME StillTarget(c), NEW p \in Daemon, pc[p] # "off" PROVE FALSE
      OBVIOUS
    <3>1. Acquired(p)
      BY <2>2 DEF Acquired
    <3>2. p = target[c]
      BY <3>1 DEF LockParts, Named, StillTarget
    <3> QED
      BY <2>1, <3>2 DEF LockParts, ReapsDead
  <2>4. Fair(c)' /\ \A d \in Cli \ {c} : cli'[d] = cli[d] /\ target'[d] = target[d]
    BY <1>1, <2>1, <2>3 DEF Fair
  <2> QED
    BY <2>1, <2>4, CommandQuietly DEF Acquired
<1>7. CASE CliUnlink(c)
  <2>1. /\ pc' = pc /\ To(c, "idle", None)
        /\ \A p \in Daemon : pc[p] = "off"
    BY <1>7 DEF CliUnlink, process, LockParts, UnlinksAlone
  <2>2. cli'[c] = "idle" /\ \A d \in Cli \ {c} : cli'[d] = cli[d] /\ target'[d] = target[d]
    BY <1>1, <2>1
  <2>3. Alone' /\ Named' /\ FirstOfAll' /\ Creator'
    BY <2>1 DEF Alone, Named, FirstOfAll, Creator, Acquired, Acquiring
  <2>4. WaitsForOne' /\ ReapsDead' /\ UnlinksAlone'
    BY <2>1, <2>2 DEF LockParts, WaitsForOne, ReapsDead, UnlinksAlone
  <2> QED
    BY <2>3, <2>4 DEF LockParts
<1> QED
  BY <1>2, <1>3, <1>4, <1>5, <1>6, <1>7 DEF Command

LEMMA LockKept ==
    ASSUME Inv, LockInv, [Next]_vars PROVE LockInv'
<1> SUFFICES ASSUME ~raced' PROVE LockParts'
  BY DEF LockInv
<1>1. ASSUME ~raced PROVE LockParts
  BY <1>1 DEF LockInv
<1>2. ASSUME NEW p \in Daemon, Launch(p) PROVE LockParts'
  <2>1. Spawn(p) /\ UNCHANGED <<lock, operator>>
    BY <1>2 DEF Launch
  <2>2. ~raced /\ ~Overlap(p)
    BY <2>1 DEF Spawn
  <2> QED
    BY <1>1, <2>1, <2>2, SpawnQuietly
<1>3. ASSUME NEW p \in Daemon, Start(p) PROVE LockParts'
  <2>1. UNCHANGED raced
    BY <1>3 DEF Start, Look, Reap, Create, Write, OpenDatabase, StartChannels, StartIpc, StartWorkers, StartEvents,
       Fail, history
  <2> QED
    BY <1>1, <1>3, <2>1, LockStart
<1>4. ASSUME NEW p \in Daemon, Stream(p) \/ Supervise(p) \/ Shutdown(p) \/ Stop(p) \/ ForceExit(p) \/ Kill(p)
      PROVE  LockParts'
  <2>1. UNCHANGED raced
    BY <1>4 DEF Stream, Supervise, BeginRun, EndRun, CrashLoop, WakeUp, LoopEnds, Shutdown, Stop, Halt,
       StopSubsystem, Close, Release, Unlink, ForceExit, Kill, history
  <2> QED
    BY <1>1, <1>4, <2>1, LockLife
<1>5. ASSUME NEW c \in Cli, Command(c) PROVE LockParts'
  <2>1. ~raced
    BY <1>5 DEF Command, CliStart, Spawn, CliAppears, CliStop, Sigterm, CliGone, CliReap, CliUnlink, history
  <2> QED
    BY <1>1, <1>5, <2>1, LockCommand
<1>6. CASE UNCHANGED vars
  BY <1>1, <1>6 DEF vars, lock, process, operator, history, LockParts, Alone, Named, FirstOfAll, Creator,
     WaitsForOne, ReapsDead, UnlinksAlone, Acquired, PidInFile
<1> QED
  BY <1>2, <1>3, <1>4, <1>5, <1>6 DEF Next

\* While no start overlaps another one or a check-then-unlink, the pidfile names
\* every daemon that has acquired it (pidfile.ts:98-193, cli/src/commands/daemon.ts:142-172).
THEOREM PidFileNames == Spec => []PidFileNamesDaemon
<1>1. Init => LockInv
  BY DEF Init, LockInv, LockParts, Alone, Named, FirstOfAll, Creator, WaitsForOne, ReapsDead, UnlinksAlone,
     Acquired, Acquiring
<1>2. Inv /\ LockInv /\ [Next]_vars => LockInv'
  BY LockKept
<1>3. LockInv => PidFileNamesDaemon
  BY DEF LockInv, LockParts, Named, PidFileNamesDaemon
<1> QED
  BY <1>1, <1>2, <1>3, InvAlways, PTL DEF Spec

=============================================================================
