----------------------------- MODULE DaemonProofs -----------------------------
(***************************************************************************)
(* Proofs about the life of the daemon, for any number of processes, of    *)
(* reapers and of requests, and for any number of faults.                  *)
(***************************************************************************)
EXTENDS Daemon, TLAPS

\* A reaper that runs has a database to query.
ReapersServed ==
    \A d \in Procs, r \in Reapers : reaper[d][r] \in {"idle", "sweep"} => d \in opened

\* Requests are there once the server was, and survive its end only if nobody
\* waited for them any longer.
RequestsKept ==
    \A d \in Procs : Calls(d) # {} =>
       /\ pc[d] \in {"serve", "drain", "return", "join", "exit"}
       /\ pc[d] \in {"return", "join", "exit"} => d \in over

\* Who mints undisturbed mints alone, and who has the token undisturbed has it
\* from a file that nobody is writing any more.
TokensAgree ==
    /\ \A d \in Procs : pc[d] = "write" => file # NoFile
    /\ \A d \in Procs \ raced :
          /\ d \in Minting => Minting = {d}
          /\ pc[d] \in {"bind", "serve", "drain"} =>
                token[d] = file /\ file # NoFile /\ Minting = {}

IInv == TypeOK /\ ReapersServed /\ RequestsKept /\ TokensAgree

\* The initial state satisfies the inductive invariant.
LEMMA InitInv == Init => IInv
BY DaemonConstants DEF Init, IInv, TypeOK, Places, ReapersServed, RequestsKept, TokensAgree,
                       Minting, Calls

\* The end of a process keeps the invariant.
LEMMA EndsInv ==
    ASSUME IInv, NEW d \in Procs, Ends(d), file' = file, faults' \in Nat,
           unit' \in {"absent", "written", "enabled"}
    PROVE  IInv'
<1> USE DEF IInv, Ends
<1>1. /\ pc'[d] = "off" /\ Calls(d)' = {} /\ \A r \in Reapers : reaper'[d][r] = "off"
      /\ \A e \in Procs \ {d} : /\ pc'[e] = pc[e] /\ token'[e] = token[e]
                               /\ reaper'[e] = reaper[e] /\ Calls(e)' = Calls(e)
                               /\ (e \in opened <=> e \in opened') /\ (e \in over <=> e \in over')
                               /\ (e \in raced <=> e \in raced')
  BY DEF TypeOK, Calls
<1>2. TypeOK'
  <2>1. /\ reaper' \in [Procs -> [Reapers -> {"off", "idle", "sweep", "gone"}]]
        /\ token' \in [Procs -> Procs \cup {Empty}]
        /\ working' \in [Procs -> SUBSET Clients] /\ parked' \in [Procs -> SUBSET Clients]
    BY DEF TypeOK
  <2>2. pc' \in [Procs -> Places] /\ \A e \in Procs : pc'[e] = "serve" <=> port' = e
    BY <1>1, DaemonConstants DEF TypeOK, Places
  <2>. QED  BY <2>1, <2>2 DEF TypeOK
<1>3. ReapersServed'
  BY <1>1 DEF ReapersServed
<1>4. RequestsKept'
  BY <1>1 DEF RequestsKept
<1>5. TokensAgree'
  <2>1. Minting' = Minting \ {d}
    BY <1>1 DEF Minting
  <2>. QED  BY <1>1, <2>1 DEF TokensAgree
<1>. QED  BY <1>2, <1>3, <1>4, <1>5

\* What a step of one process that stays does to the others' places.
LEMMA GoesType ==
    ASSUME TypeOK, NEW d \in Procs, NEW from, NEW to \in Places, Goes(d, from, to)
    PROVE  /\ pc[d] = from /\ pc' \in [Procs -> Places] /\ pc'[d] = to
           /\ \A e \in Procs \ {d} : pc'[e] = pc[e]
BY DEF Goes, TypeOK

\* The start of a process keeps the invariant.
LEMMA StartInv ==
    ASSUME IInv, NEW d \in Procs,
           Launch(d) \/ Open(d) \/ ReadToken(d) \/ CreateFile(d) \/ WriteFile(d) \/ StartFails(d)
           \/ Bind(d) \/ Probe(d)
    PROVE  IInv'
<1> USE DEF IInv
<1>1. CASE Launch(d)
  <2>1. /\ UNCHANGED <<opened, done, reaper, token, requests, world>> /\ pc[d] = "off"
        /\ pc' \in [Procs -> Places] /\ pc'[d] = "open" /\ \A e \in Procs \ {d} : pc'[e] = pc[e]
    BY <1>1, GoesType DEF Launch, Places
  <2>2. Minting' = Minting
    BY <2>1 DEF Minting
  <2>3. TypeOK' /\ ReapersServed' /\ RequestsKept'
    BY <2>1 DEF TypeOK, ReapersServed, RequestsKept, Calls, requests, world
  <2>4. TokensAgree'
    BY <2>1, <2>2 DEF TokensAgree, world
  <2>. QED  BY <2>3, <2>4
<1>2. CASE Open(d)
  <2>1. /\ UNCHANGED <<done, token, requests, world>> /\ pc[d] = "open"
        /\ pc' \in [Procs -> Places] /\ pc'[d] = "token" /\ \A e \in Procs \ {d} : pc'[e] = pc[e]
    BY <1>2, GoesType DEF Open, Places
  <2>2. Minting' = Minting
    BY <2>1 DEF Minting
  <2>3. /\ reaper' \in [Procs -> [Reapers -> {"off", "idle", "sweep", "gone"}]]
        /\ opened' = opened \cup {d} /\ \A e \in Procs \ {d} : reaper'[e] = reaper[e]
    BY <1>2 DEF Open, TypeOK
  <2>4. TypeOK' /\ ReapersServed' /\ RequestsKept'
    BY <2>1, <2>3 DEF TypeOK, ReapersServed, RequestsKept, Calls, requests, world
  <2>5. TokensAgree'
    BY <2>1, <2>2 DEF TokensAgree, world
  <2>. QED  BY <2>4, <2>5
<1>3. CASE ReadToken(d)
  <2>1. /\ UNCHANGED <<opened, done, reaper, requests, port, file, unit, faults>> /\ pc[d] = "token"
        /\ \A e \in Procs \ {d} : pc'[e] = pc[e] /\ token'[e] = token[e]
        /\ pc' \in [Procs -> Places] /\ token' \in [Procs -> Procs \cup {Empty}]
        /\ \/ file = NoFile /\ pc'[d] = "mint"
           \/ file # NoFile /\ pc'[d] = "bind" /\ token'[d] = file
    <3>1. /\ UNCHANGED <<opened, done, reaper, requests, port, file, unit, faults>> /\ pc[d] = "token"
          /\ \/ file = NoFile /\ pc' = [pc EXCEPT ![d] = "mint"] /\ token' = token
             \/ /\ file # NoFile /\ pc' = [pc EXCEPT ![d] = "bind"]
                /\ token' = [token EXCEPT ![d] = file]
      BY <1>3 DEF ReadToken
    <3>2. pc \in [Procs -> Places] /\ token \in [Procs -> Procs \cup {Empty}]
          /\ file \in Procs \cup {NoFile, Empty} /\ {"mint", "bind"} \subseteq Places
      BY DEF TypeOK, Places
    <3>3. CASE file = NoFile
      BY <3>1, <3>2, <3>3
    <3>4. CASE file # NoFile
      BY <3>1, <3>2, <3>4
    <3>. QED  BY <3>3, <3>4
  <2>2. /\ raced' \subseteq Procs /\ raced \subseteq raced'
        /\ Minting # {} => d \in raced' /\ (file = NoFile => Minting \subseteq raced')
    BY <1>3 DEF ReadToken, Overlap, Minting, TypeOK
  <2>3. TypeOK' /\ ReapersServed' /\ RequestsKept'
    BY <2>1, <2>2 DEF TypeOK, ReapersServed, RequestsKept, Calls, requests
  <2>4. CASE file = NoFile
    <3>1. Minting' = Minting \cup {d}
      BY <2>1, <2>4 DEF Minting
    <3>. QED  BY <2>1, <2>2, <2>3, <2>4, <3>1 DEF TokensAgree, Minting
  <2>5. CASE file # NoFile
    <3>1. Minting' = Minting
      BY <2>1, <2>5 DEF Minting
    <3>. QED  BY <2>1, <2>2, <2>3, <2>5, <3>1 DEF TokensAgree, Minting
  <2>. QED  BY <2>4, <2>5
<1>4. CASE CreateFile(d)
  <2>1. /\ UNCHANGED <<opened, done, reaper, token, requests, port, unit, faults, raced>>
        /\ file' = Empty /\ pc[d] = "mint" /\ pc' \in [Procs -> Places] /\ pc'[d] = "write"
        /\ \A e \in Procs \ {d} : pc'[e] = pc[e]
    BY <1>4, GoesType DEF CreateFile, Places
  <2>2. Minting' = Minting /\ d \in Minting
    BY <2>1 DEF Minting
  <2>3. TypeOK' /\ ReapersServed' /\ RequestsKept'
    BY <2>1 DEF TypeOK, ReapersServed, RequestsKept, Calls, requests
  <2>4. TokensAgree'
    BY <2>1, <2>2, DaemonConstants DEF TokensAgree
  <2>. QED  BY <2>3, <2>4
<1>5. CASE WriteFile(d)
  <2>1. /\ UNCHANGED <<opened, done, reaper, requests, port, unit, faults, raced>>
        /\ file' = d /\ pc[d] = "write" /\ pc' \in [Procs -> Places] /\ pc'[d] = "bind"
        /\ \A e \in Procs \ {d} : pc'[e] = pc[e]
        /\ token' \in [Procs -> Procs \cup {Empty}] /\ token'[d] = d
    BY <1>5, GoesType DEF WriteFile, Places, TypeOK
  <2>2. Minting' = Minting \ {d} /\ d \in Minting
    BY <2>1 DEF Minting
  <2>3. TypeOK' /\ ReapersServed' /\ RequestsKept'
    BY <2>1 DEF TypeOK, ReapersServed, RequestsKept, Calls, requests
  <2>4. TokensAgree'
    BY <2>1, <2>2, DaemonConstants DEF TokensAgree
  <2>. QED  BY <2>3, <2>4
<1>6. CASE StartFails(d)
  <2>1. /\ UNCHANGED <<opened, done, reaper, token, requests, port, file, unit, raced>>
        /\ pc[d] \in {"token", "mint", "write", "bind"} /\ pc' \in [Procs -> Places]
        /\ pc'[d] = "return" /\ \A e \in Procs \ {d} : pc'[e] = pc[e]
        /\ faults' \in Nat
    BY <1>6 DEF StartFails, Fault, Places, TypeOK
  <2>2. Minting' = Minting \ {d}
    BY <2>1 DEF Minting
  <2>3. TypeOK' /\ ReapersServed' /\ RequestsKept'
    BY <2>1 DEF TypeOK, ReapersServed, RequestsKept, Calls, requests
  <2>4. TokensAgree'
    BY <2>1, <2>2 DEF TokensAgree
  <2>. QED  BY <2>3, <2>4
<1>7. CASE Bind(d) \/ Probe(d)
  <2>1. /\ UNCHANGED <<opened, done, reaper, token, requests, file, unit, faults, raced>>
        /\ pc' \in [Procs -> Places] /\ \A e \in Procs \ {d} : pc'[e] = pc[e]
        /\ \/ pc[d] = "bind" /\ port = Nobody /\ pc'[d] = "serve" /\ port' = d
           \/ pc[d] = "bind" /\ pc'[d] = "probe" /\ port' = port
           \/ pc[d] = "probe" /\ pc'[d] = "return" /\ port' = port
    BY <1>7, GoesType DEF Bind, Probe, Places, world
  <2>2. Minting' = Minting
    BY <2>1 DEF Minting
  <2>3. TypeOK' /\ ReapersServed' /\ RequestsKept'
    BY <2>1, DaemonConstants DEF TypeOK, ReapersServed, RequestsKept, Calls, requests
  <2>4. TokensAgree'
    BY <2>1, <2>2 DEF TokensAgree
  <2>. QED  BY <2>3, <2>4
<1>. QED  BY <1>1, <1>2, <1>3, <1>4, <1>5, <1>6, <1>7

\* The end of a server keeps the invariant.
LEMMA StopInv ==
    ASSUME IInv, NEW d \in Procs,
           Shutdown(d) \/ Drained(d) \/ GraceOver(d) \/ ServeFails(d) \/ Cancel(d) \/ Close(d)
    PROVE  IInv'
<1> USE DEF IInv
<1>1. /\ UNCHANGED <<reaper, token, working, parked, file, unit, raced>>
      /\ pc' \in [Procs -> Places] /\ \A e \in Procs \ {d} : pc'[e] = pc[e]
      /\ \/ pc[d] = "serve" /\ pc'[d] = "drain"
         \/ pc[d] \in {"serve", "drain"} /\ pc'[d] = "return" /\ (Calls(d) = {} \/ d \in over')
         \/ pc[d] = "return" /\ pc'[d] = "join"
         \/ pc[d] = "join" /\ pc'[d] = "exit"
  BY GoesType DEF Shutdown, Drained, GraceOver, ServeFails, Cancel, Close, Places, requests, world
<1>2. Minting' = Minting
  BY <1>1 DEF Minting
<1>3. /\ over \subseteq over' /\ over' \subseteq Procs /\ done' \subseteq Procs /\ opened' \subseteq Procs
      /\ faults' \in Nat
      /\ \/ opened' = opened
         \/ opened' = opened \ {d} /\ \A r \in Reapers : reaper[d][r] = "gone"
  <2>1. CASE Close(d)
    BY <2>1 DEF Close, requests, world, TypeOK
  <2>2. CASE Shutdown(d) \/ Drained(d) \/ Cancel(d)
    BY <2>2 DEF Shutdown, Drained, Cancel, requests, world, TypeOK
  <2>3. CASE GraceOver(d) \/ ServeFails(d)
    BY <2>3 DEF GraceOver, ServeFails, Fault, requests, world, TypeOK
  <2>. QED  BY <2>1, <2>2, <2>3
<1>4. port' \in Procs \cup {Nobody} /\ \A e \in Procs : pc'[e] = "serve" <=> port' = e
  <2>1. CASE pc[d] = "serve"
    <3>1. port' = Nobody
      BY <2>1 DEF Shutdown, ServeFails, Drained, GraceOver, Cancel, Close, Goes
    <3>. QED  BY <1>1, <2>1, <3>1, DaemonConstants DEF TypeOK
  <2>2. CASE pc[d] # "serve"
    <3>1. port' = port
      BY <2>2 DEF Shutdown, ServeFails, Drained, GraceOver, Cancel, Close, Goes, world
    <3>. QED  BY <1>1, <2>2, <3>1 DEF TypeOK
  <2>. QED  BY <2>1, <2>2
<1>5. TypeOK'
  BY <1>1, <1>3, <1>4 DEF TypeOK
<1>6. ReapersServed'
  BY <1>1, <1>3 DEF ReapersServed
<1>7. RequestsKept'
  BY <1>1, <1>3 DEF RequestsKept, Calls
<1>8. TokensAgree'
  BY <1>1, <1>2 DEF TokensAgree
<1>. QED  BY <1>5, <1>6, <1>7, <1>8

\* Requests keep the invariant.
LEMMA ServesInv ==
    ASSUME IInv, NEW d \in Procs, NEW c \in Clients, Serves(d, c)
    PROVE  IInv'
<1> USE DEF IInv
<1>1. /\ UNCHANGED <<process, over, world>>
      /\ working' \in [Procs -> SUBSET Clients] /\ parked' \in [Procs -> SUBSET Clients]
      /\ \A e \in Procs \ {d} : Calls(e)' = Calls(e)
      /\ Calls(d) # {} \/ pc[d] \in {"serve", "drain"}
  <2>1. CASE Accept(d, c)
    BY <2>1 DEF Accept, TypeOK, Calls
  <2>2. CASE Park(d, c)
    BY <2>2 DEF Park, TypeOK, Calls
  <2>3. CASE Wake(d, c)
    BY <2>3 DEF Wake, TypeOK, Calls
  <2>4. CASE Answer(d, c)
    BY <2>4 DEF Answer, TypeOK, Calls
  <2>. QED  BY <2>1, <2>2, <2>3, <2>4 DEF Serves
<1>2. TypeOK' /\ ReapersServed' /\ TokensAgree'
  BY <1>1 DEF TypeOK, ReapersServed, TokensAgree, Minting, process, world
<1>3. RequestsKept'
  BY <1>1 DEF RequestsKept, process
<1>. QED  BY <1>2, <1>3

\* Reapers keep the invariant.
LEMMA ReapersInv ==
    ASSUME IInv, NEW d \in Procs, NEW r \in Reapers,
           Sweep(d, r) \/ SweepEnd(d, r) \/ Leaves(d, r)
    PROVE  IInv'
<1> USE DEF IInv
<1>1. /\ UNCHANGED <<pc, opened, done, token, requests, world>>
      /\ reaper[d][r] \in {"idle", "sweep"}
      /\ \E to \in {"idle", "sweep", "gone"} : reaper' = [reaper EXCEPT ![d][r] = to]
  BY DEF Sweep, SweepEnd, Leaves, Reaps
<1>2. reaper' \in [Procs -> [Reapers -> {"off", "idle", "sweep", "gone"}]]
  BY <1>1 DEF TypeOK
<1>3. \A e \in Procs, s \in Reapers : e # d => reaper'[e][s] = reaper[e][s]
  BY <1>1 DEF TypeOK
<1>4. TypeOK' /\ RequestsKept' /\ TokensAgree'
  BY <1>1, <1>2 DEF TypeOK, RequestsKept, TokensAgree, Minting, Calls, requests, world
<1>5. ReapersServed'
  BY <1>1, <1>3 DEF ReapersServed
<1>. QED  BY <1>4, <1>5

\* Every step keeps the inductive invariant.
LEMMA StepInv == IInv /\ [Next]_vars => IInv'
<1> SUFFICES ASSUME IInv, [Next]_vars PROVE IInv'
  OBVIOUS
<1>1. ASSUME NEW d \in Procs, OpenFails(d) \/ Kill(d) \/ Exit(d)
      PROVE  IInv'
  <2>1. Ends(d) /\ UNCHANGED <<file, unit>> /\ faults' \in Nat
    BY <1>1 DEF OpenFails, Kill, Exit, Fault, IInv, TypeOK
  <2>. QED  BY <2>1, EndsInv DEF IInv, TypeOK
<1>2. ASSUME NEW d \in Procs, Stop(d)
      PROVE  IInv'
  BY <1>2 DEF Stop, Fault, IInv, TypeOK, ReapersServed, RequestsKept, TokensAgree, Minting, Calls,
              requests
<1>3. CASE WriteUnit \/ EnableUnit \/ UNCHANGED vars
  BY <1>3 DEF WriteUnit, EnableUnit, vars, IInv, TypeOK, ReapersServed, RequestsKept, TokensAgree,
              Minting, Calls, process, requests, world
<1>4. CASE Uninstall
  <2>1. CASE pc[Service] = "open"
    BY <1>4, <2>1, EndsInv, DaemonConstants DEF Uninstall, IInv, TypeOK
  <2>2. CASE pc[Service] # "open"
    BY <1>4, <2>2, DaemonConstants
       DEF Uninstall, IInv, TypeOK, ReapersServed, RequestsKept, TokensAgree, Minting, Calls, requests
  <2>. QED  BY <2>1, <2>2
<1>5. ASSUME NEW d \in Procs, Launch(d) \/ Main(d) \/ Fails(d)
      PROVE  IInv'
  BY <1>1, <1>2, <1>5, StartInv, StopInv DEF Main, Fails
<1>. QED  BY <1>3, <1>4, <1>5, ServesInv, ReapersInv DEF Next

-----------------------------------------------------------------------------

\* Every reachable state has its types, and one process at most listens.
THEOREM TypeCorrect == Spec => []TypeOK
<1>1. IInv => TypeOK
  BY DEF IInv
<1>. QED  BY InitInv, StepInv, <1>1, PTL DEF Spec

\* No reaper queries a database that is closed (main.go:106-120), on whichever
\* of its paths runDaemon returns.
THEOREM ReapersJoined == Spec => []NoReaperMidQuery
<1>1. IInv => NoReaperMidQuery
  BY DEF IInv, ReapersServed, NoReaperMidQuery
<1>. QED  BY InitInv, StepInv, <1>1, PTL DEF Spec

\* Processes that come and go beside the one that serves leave it the token it
\* has (server.go:358-386).
THEOREM TokenKept == Spec => []ServesFile
<1>1. IInv => ServesFile
  BY DEF IInv, TokensAgree, ServesFile
<1>. QED  BY InitInv, StepInv, <1>1, PTL DEF Spec

\* The store is closed under a request only after the grace of server.go:150.
THEOREM ClosedLate == Spec => GraceKept
<1>1. IInv => \A d \in Procs : pc[d] = "join" => Calls(d) = {} \/ d \in over
  BY DEF IInv, RequestsKept
<1>2. IInv /\ [Next]_vars =>
         [\A d \in Procs :
            (pc[d] = "join" /\ d \in opened \ opened') => Calls(d) = {} \/ d \in over]_vars
  BY <1>1
<1>. QED  BY <1>2, InitInv, StepInv, PTL DEF Spec, GraceKept
===============================================================================
