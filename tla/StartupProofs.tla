----------------------------- MODULE StartupProofs -----------------------------
(***************************************************************************)
(* What load_or_create_ca guarantees for any number of processes, killed   *)
(* at any step, as long as no two are in it at once; and that what follows *)
(* it is the start of a daemon as InstanceGuard has it.                    *)
(***************************************************************************)
EXTENDS Startup, TLAPS

---------------------------------------------------------------------------
(* The control socket: InstanceGuard on its own                            *)

Up == {"running"} \cup Stopping

\* Listening sockets and ports are held by processes that are where they hold them.
SocketsAreHeld ==
  /\ \A d \in serving : at[d] \in {"listening", "running", "closing"}
  /\ \A p \in Ports : bound[p] # Nobody => at[bound[p]] = "running" /\ portOf[bound[p]] = p

\* A process that starts or stops is alone in it, and while it starts, past its probe,
\* no daemon runs.
OneAtATime ==
  /\ \A d, e \in Daemons : at[d] \in Starting /\ at[e] \in Starting \cup Stopping => d = e
  /\ \A d, e \in Daemons : at[d] \in Up /\ at[e] \in Up => d = e
  /\ \A d, e \in Daemons : at[d] \in Starting \ {"probing"} => at[e] # "running"

\* What is at the path, by where the processes are.
PathIsOwned ==
  \A d \in Daemons :
    /\ at[d] \in {"running", "closing", "checking", "removing", "opening", "listening"} => path = d
    /\ at[d] \in {"running", "closing", "listening"} => d \in serving
    /\ at[d] \in {"probing", "unlinking"} => path # Nobody
    /\ at[d] \in {"replacing", "binding"} => path = Nobody
    /\ at[d] # "failed"

Guarded == TypeOK /\ SocketsAreHeld /\ (~contended => OneAtATime /\ PathIsOwned)

---------------------------------------------------------------------------
LEMMA TypeInit == Init => TypeOK
BY DEF Init, TypeOK, Steps

LEMMA TypeStep == TypeOK /\ [Next]_vars => TypeOK'
<1> SUFFICES ASSUME TypeOK, [Next]_vars PROVE TypeOK' OBVIOUS
<1> USE DEF TypeOK, Steps, Starting, Stopping, Ended
<1>1. CASE UNCHANGED vars
  BY <1>1 DEF vars
<1>2. ASSUME NEW d \in Daemons, Start(d) PROVE TypeOK'
  <2>1. CASE Exists(d) \/ ProbeLive(d) \/ ProbeStale(d) \/ Unlink(d)
    BY <2>1 DEF Exists, ProbeLive, ProbeStale, Unlink, Ends, Goes
  <2>2. CASE RemoveSocket(d) \/ Bind(d) \/ Listen(d)
    BY <2>2 DEF RemoveSocket, Bind, Listen, Ends, Goes
  <2>3. CASE BindPort(d)
    BY <2>3 DEF BindPort, Ends, Goes
  <2> QED BY <1>2, <2>1, <2>2, <2>3 DEF Start
<1>3. ASSUME NEW d \in Daemons, Stop(d) PROVE TypeOK'
  BY <1>3 DEF Stop, StopListener, CloseControl, CheckPath, RemovePath, Goes
<1>4. ASSUME NEW d \in Daemons, Kill(d) PROVE TypeOK'
  BY <1>4 DEF Kill, Ends, Goes
<1> QED BY <1>1, <1>2, <1>3, <1>4 DEF Next

\* Type correctness, for any number of processes and ports.
THEOREM GuardTypeCorrect == Spec => []TypeOK
BY TypeInit, TypeStep, PTL DEF Spec

---------------------------------------------------------------------------
(* One action at a time preserves Guarded                                  *)

LEMMA GuardedInit == Init => Guarded
BY TypeInit, NobodyAssumption
DEF Guarded, Init, SocketsAreHeld, OneAtATime, PathIsOwned, Starting, Stopping, Up

\* A process that ends takes its sockets along and leaves the others as they are.
LEMMA EndsPreserves ==
  ASSUME Guarded, TypeOK', NEW d \in Daemons, NEW from \in Steps,
         NEW how \in {"refused", "exited", "killed"}, Ends(d, from, how)
  PROVE  Guarded'
<1> USE NobodyAssumption DEF Guarded, Ends, Goes, TypeOK
<1>1. SocketsAreHeld'
  BY DEF SocketsAreHeld
<1>2. ASSUME ~contended' PROVE OneAtATime' /\ PathIsOwned'
  BY <1>2 DEF OneAtATime, PathIsOwned, Starting, Stopping, Up
<1> QED BY <1>1, <1>2

\* Looking for the socket: whoever runs is found by it.
LEMMA LookingPreserves ==
  ASSUME Guarded, TypeOK', NEW d \in Daemons, Exists(d) \/ ProbeStale(d)
  PROVE  Guarded'
<1> USE NobodyAssumption DEF Guarded, Goes, TypeOK
<1>1. SocketsAreHeld'
  BY DEF SocketsAreHeld, Exists, ProbeStale
<1>2. ASSUME ~contended', Exists(d) PROVE OneAtATime' /\ PathIsOwned'
  <2>1. ~contended /\ OneAtATime /\ PathIsOwned
    BY <1>2 DEF Exists
  <2>2. \A e \in Daemons : at[e] \notin Starting \cup Stopping
    BY <1>2 DEF Exists
  <2>3. /\ at'[d] = IF path = Nobody THEN "replacing" ELSE "probing"
        /\ path' = path /\ serving' = serving
        /\ \A e \in Daemons \ {d} : at'[e] = at[e]
    BY <1>2 DEF Exists
  <2>4. path = Nobody => \A e \in Daemons : at[e] # "running"
    BY <2>1 DEF PathIsOwned
  <2>5. OneAtATime'
    BY <2>1, <2>2, <2>3, <2>4 DEF OneAtATime, Starting, Stopping, Up
  <2>6. PathIsOwned'
    BY <2>1, <2>2, <2>3 DEF PathIsOwned, Starting, Stopping
  <2> QED BY <2>5, <2>6
<1>3. ASSUME ~contended', ProbeStale(d) PROVE OneAtATime' /\ PathIsOwned'
  BY <1>3 DEF ProbeStale, OneAtATime, PathIsOwned, Starting, Stopping, Up
<1> QED BY <1>1, <1>2, <1>3

\* Taking the path over: no daemon runs whose it could be.
LEMMA TakingPreserves ==
  ASSUME Guarded, TypeOK', NEW d \in Daemons,
         Unlink(d) \/ RemoveSocket(d) \/ Bind(d) \/ Listen(d)
  PROVE  Guarded'
<1> USE NobodyAssumption DEF Guarded, Goes, TypeOK
<1>1. SocketsAreHeld'
  BY DEF SocketsAreHeld, Unlink, RemoveSocket, Bind, Listen, Ends
<1>2. ASSUME ~contended' PROVE ~contended /\ at[d] \in Starting /\ OneAtATime /\ PathIsOwned
  BY <1>2 DEF Unlink, RemoveSocket, Bind, Listen, Ends, Starting
<1>3. ASSUME ~contended', Unlink(d) \/ RemoveSocket(d) PROVE OneAtATime' /\ PathIsOwned'
  BY <1>2, <1>3 DEF Unlink, RemoveSocket, Ends, OneAtATime, PathIsOwned, Starting, Stopping, Up
<1>4. ASSUME ~contended', Bind(d) \/ Listen(d) PROVE OneAtATime' /\ PathIsOwned'
  BY <1>2, <1>4 DEF Bind, Listen, Ends, OneAtATime, PathIsOwned, Starting, Stopping, Up
<1> QED BY <1>1, <1>3, <1>4

\* The port is free, because no daemon runs.
LEMMA BindPortPreserves ==
  ASSUME Guarded, TypeOK', NEW d \in Daemons, BindPort(d)
  PROVE  Guarded'
<1> USE NobodyAssumption DEF Guarded, Goes, TypeOK
<1>1. SocketsAreHeld'
  BY DEF SocketsAreHeld, BindPort, Ends
<1>2. ASSUME ~contended' PROVE bound[portOf[d]] = Nobody
  BY <1>2 DEF BindPort, Ends, SocketsAreHeld, OneAtATime, Starting
<1>3. ASSUME ~contended' PROVE OneAtATime' /\ PathIsOwned'
  BY <1>2, <1>3 DEF BindPort, OneAtATime, PathIsOwned, Starting, Stopping, Up
<1> QED BY <1>1, <1>3

\* A daemon that stops unlinks its own socket.
LEMMA StopPreserves ==
  ASSUME Guarded, TypeOK', NEW d \in Daemons, Stop(d)
  PROVE  Guarded'
<1> USE NobodyAssumption DEF Guarded, Goes, TypeOK
<1>1. SocketsAreHeld'
  <2>1. CASE StopListener(d)
    BY <2>1 DEF SocketsAreHeld, StopListener
  <2>2. CASE CloseControl(d) \/ CheckPath(d) \/ RemovePath(d)
    BY <2>2 DEF SocketsAreHeld, CloseControl, CheckPath, RemovePath
  <2> QED BY <2>1, <2>2 DEF Stop
<1>2. ASSUME ~contended', StopListener(d) PROVE OneAtATime' /\ PathIsOwned'
  <2>1. ~contended /\ OneAtATime /\ PathIsOwned /\ \A e \in Daemons : at[e] \notin Starting
    BY <1>2 DEF StopListener
  <2>2. /\ at[d] = "running" /\ at'[d] = "closing" /\ path' = path /\ serving' = serving
        /\ \A e \in Daemons \ {d} : at'[e] = at[e]
    BY <1>2 DEF StopListener
  <2>3. OneAtATime'
    BY <2>1, <2>2 DEF OneAtATime, Starting, Stopping, Up
  <2>4. PathIsOwned'
    BY <2>1, <2>2 DEF PathIsOwned
  <2> QED BY <2>3, <2>4
<1>3. ASSUME ~contended', CloseControl(d) \/ CheckPath(d) PROVE OneAtATime' /\ PathIsOwned'
  BY <1>3 DEF CloseControl, CheckPath, OneAtATime, PathIsOwned, Starting, Stopping, Up
<1>4. ASSUME ~contended', RemovePath(d) PROVE OneAtATime' /\ PathIsOwned'
  BY <1>4 DEF RemovePath, OneAtATime, PathIsOwned, Starting, Stopping, Up
<1> QED BY <1>1, <1>2, <1>3, <1>4 DEF Stop

LEMMA GuardedStep == Guarded /\ [Next]_vars => Guarded'
<1> SUFFICES ASSUME Guarded, [Next]_vars PROVE Guarded' OBVIOUS
<1>1. TypeOK'
  BY TypeStep DEF Guarded
<1>2. CASE UNCHANGED vars
  BY <1>2 DEF vars, Guarded, TypeOK, SocketsAreHeld, OneAtATime, PathIsOwned
<1>3. ASSUME NEW d \in Daemons, Start(d) PROVE Guarded'
  BY <1>1, <1>3, EndsPreserves, LookingPreserves, TakingPreserves, BindPortPreserves
  DEF Start, ProbeLive, Steps, Starting
<1>4. ASSUME NEW d \in Daemons, Kill(d) PROVE Guarded'
  BY <1>1, <1>4, EndsPreserves DEF Kill, Steps
<1> QED BY <1>1, <1>2, <1>3, <1>4, StopPreserves DEF Next

LEMMA AlwaysGuarded == Spec => []Guarded
BY GuardedInit, GuardedStep, PTL DEF Spec

\* Without an overlap at most one daemon runs, and it is the one that is reached.
THEOREM RunningIsReachable == Spec => []SoleDaemonIsReachable
<1>1. Guarded => SoleDaemonIsReachable
  BY DEF Guarded, OneAtATime, PathIsOwned, SoleDaemonIsReachable, Up
<1> QED BY <1>1, AlwaysGuarded, PTL

\* Without an overlap no start fails.
THEOREM StartsSucceed == Spec => []StaleSocketNeverBlocks
<1>1. Guarded => StaleSocketNeverBlocks
  BY DEF Guarded, PathIsOwned, StaleSocketNeverBlocks
<1> QED BY <1>1, AlwaysGuarded, PTL

---------------------------------------------------------------------------
(* The CA files, and the two together                                      *)

Busy == Loading \cup Generating

CaTypeOK ==
  /\ caAt \in [Daemons -> CaSteps]
  /\ cert \in Daemons \cup {Absent, Torn}
  /\ key \in Daemons \cup {Absent, Torn}
  /\ holds \in [Daemons -> Pairs]
  /\ raced \in BOOLEAN

\* The files are written certificate first, so the key never is ahead of it.
FilesAgree ==
  /\ cert = Absent => key = Absent
  /\ key \in Daemons => cert = key
  /\ key = Torn => cert \in Daemons

\* What the process that loads or generates the CA knows of the files.
FilesByStep ==
  \A d \in Daemons :
    /\ caAt[d] \in {"checking key", "reading cert", "reading key"} => cert # Absent
    /\ caAt[d] \in {"reading cert", "reading key"} => key # Absent
    /\ caAt[d] = "reading key" => cert \in Daemons /\ holds[d].cert = cert
    /\ caAt[d] \in {"opening cert", "filling cert", "opening key"} => key = Absent
    /\ caAt[d] = "filling cert" => cert = Torn
    /\ caAt[d] \in {"opening key", "filling key"} => cert = d
    /\ caAt[d] = "filling key" => key = Torn

\* A process with a CA has the one on disk, and one was refused only over a torn key
\* that nobody is about to fill.
OutcomesByFiles ==
  \A d \in Daemons :
    /\ holds[d].key # Absent => key \in Daemons /\ holds[d] = [cert |-> key, key |-> key]
    /\ caAt[d] = "refused" => key = Torn /\ \A e \in Daemons : caAt[e] # "filling key"

OneInside == \A d, e \in Daemons : caAt[d] \in Busy /\ caAt[e] \in Busy => d = e

Sound ==
  /\ CaTypeOK
  /\ ~raced => OneInside /\ FilesAgree /\ FilesByStep /\ OutcomesByFiles

LEMMA SoundInit == StartupInit => Sound
<1> SUFFICES ASSUME StartupInit PROVE Sound OBVIOUS
<1> USE ContentAssumption DEF StartupInit
<1>1. CaTypeOK
  BY DEF CaTypeOK, CaSteps, Pairs, NoPair
<1>2. OneInside /\ FilesAgree /\ FilesByStep /\ OutcomesByFiles
  BY DEF NoPair, OneInside, FilesAgree, FilesByStep, OutcomesByFiles, Busy, Loading, Generating
<1> QED BY <1>1, <1>2 DEF Sound

LEMMA CaTypeStep ==
  ASSUME CaTypeOK, NEW d \in Daemons, LoadOrCreateCa(d) \/ Export(d) \/ KillEarly(d)
  PROVE  CaTypeOK'
<1> USE DEF CaTypeOK, CaSteps, Loading, Generating, CaGoes, Pairs, NoPair
<1>1. CASE CheckCert(d) \/ CheckKey(d)
  BY <1>1 DEF CheckCert, CheckKey
<1>2. CASE ReadCert(d)
  BY <1>2 DEF ReadCert
<1>3. CASE ReadKey(d)
  BY <1>3 DEF ReadKey
<1>4. CASE OpenCert(d) \/ FillCert(d) \/ OpenKey(d)
  BY <1>4 DEF OpenCert, FillCert, OpenKey
<1>5. CASE FillKey(d)
  BY <1>5 DEF FillKey
<1>6. CASE Export(d)
  BY <1>6 DEF Export
<1>7. CASE KillEarly(d)
  BY <1>7 DEF KillEarly
<1> QED BY <1>1, <1>2, <1>3, <1>4, <1>5, <1>6, <1>7 DEF LoadOrCreateCa

---------------------------------------------------------------------------
(* One action at a time preserves Sound                                    *)

\* Looking for the files begins only where nobody else is inside.
LEMMA CheckingPreserves ==
  ASSUME Sound, CaTypeOK', NEW d \in Daemons, CheckCert(d) \/ CheckKey(d)
  PROVE  Sound'
<1> USE ContentAssumption DEF Sound, CaTypeOK, CaGoes, Pairs, NoPair, Busy, Loading, Generating
<1>1. CASE CheckCert(d)
  <2> SUFFICES ASSUME ~raced' PROVE OneInside' /\ FilesAgree' /\ FilesByStep' /\ OutcomesByFiles'
    OBVIOUS
  <2>1. OneInside /\ FilesAgree /\ FilesByStep /\ OutcomesByFiles
    BY <1>1 DEF CheckCert
  <2>2. OneInside' /\ FilesAgree'
    BY <1>1, <2>1 DEF CheckCert, OneInside, FilesAgree
  <2>3. FilesByStep'
    BY <1>1, <2>1 DEF CheckCert, FilesAgree, FilesByStep
  <2>4. OutcomesByFiles'
    BY <1>1, <2>1 DEF CheckCert, OutcomesByFiles
  <2> QED BY <2>2, <2>3, <2>4
<1>2. CASE CheckKey(d)
  BY <1>2 DEF CheckKey, OneInside, FilesAgree, FilesByStep, OutcomesByFiles
<1> QED BY <1>1, <1>2

\* A certificate next to a key is whole, and a key that is whole is its own.
LEMMA ReadingPreserves ==
  ASSUME Sound, CaTypeOK', NEW d \in Daemons, ReadCert(d) \/ ReadKey(d)
  PROVE  Sound'
<1> SUFFICES ASSUME ~raced' PROVE OneInside' /\ FilesAgree' /\ FilesByStep' /\ OutcomesByFiles'
  BY DEF Sound
<1>1. CaTypeOK /\ OneInside /\ FilesAgree /\ FilesByStep /\ OutcomesByFiles
  BY DEF Sound, ReadCert, ReadKey
<1> USE ContentAssumption DEF CaTypeOK, CaGoes
<1>2. CASE ReadCert(d)
  <2>1. cert \in Daemons
    BY <1>1, <1>2 DEF ReadCert, FilesAgree, FilesByStep
  <2>2. /\ caAt' = [caAt EXCEPT ![d] = "reading key"] /\ caAt[d] = "reading cert"
        /\ holds' = [holds EXCEPT ![d] = [cert |-> cert, key |-> Absent]]
        /\ UNCHANGED <<cert, key>>
    BY <1>2, <2>1 DEF ReadCert
  <2>3. OneInside' /\ FilesAgree'
    BY <1>1, <2>2 DEF OneInside, FilesAgree, Busy, Loading, Generating
  <2>4. FilesByStep' /\ OutcomesByFiles'
    BY <1>1, <2>1, <2>2 DEF FilesByStep, OutcomesByFiles
  <2> QED BY <2>3, <2>4
<1>3. CASE ReadKey(d) /\ key \in Daemons
  <2>1. /\ caAt' = [caAt EXCEPT ![d] = "ready"]
        /\ holds' = [holds EXCEPT ![d] = [cert |-> key, key |-> key]]
        /\ UNCHANGED <<cert, key>>
    BY <1>1, <1>3 DEF ReadKey, FilesAgree, FilesByStep
  <2> QED
    BY <1>1, <1>3, <2>1
    DEF OneInside, FilesAgree, FilesByStep, OutcomesByFiles, Busy, Loading, Generating
<1>4. CASE ReadKey(d) /\ key \notin Daemons
  <2>1. /\ caAt' = [caAt EXCEPT ![d] = "refused"] /\ caAt[d] = "reading key"
        /\ holds' = [holds EXCEPT ![d] = NoPair]
        /\ UNCHANGED <<cert, key>>
        /\ key = Torn
    BY <1>1, <1>4 DEF ReadKey, FilesByStep
  <2>2. \A e \in Daemons : caAt'[e] # "filling key"
    BY <1>1, <2>1 DEF OneInside, Busy, Loading, Generating
  <2>3. OneInside' /\ FilesAgree' /\ FilesByStep'
    BY <1>1, <2>1 DEF OneInside, FilesAgree, FilesByStep, Busy, Loading, Generating
  <2>4. OutcomesByFiles'
    BY <1>1, <2>1, <2>2 DEF OutcomesByFiles, NoPair
  <2> QED BY <2>3, <2>4
<1> QED BY <1>2, <1>3, <1>4

\* What is generated replaces only what nobody has loaded.
LEMMA WritingPreserves ==
  ASSUME Sound, CaTypeOK', NEW d \in Daemons,
         OpenCert(d) \/ FillCert(d) \/ OpenKey(d) \/ FillKey(d)
  PROVE  Sound'
<1> USE ContentAssumption DEF Sound, CaTypeOK, CaGoes, Pairs, NoPair, Busy, Loading, Generating
<1>1. CASE OpenCert(d)
  <2> SUFFICES ASSUME ~raced' PROVE OneInside' /\ FilesAgree' /\ FilesByStep' /\ OutcomesByFiles'
    OBVIOUS
  <2>1. OneInside /\ FilesAgree /\ FilesByStep /\ OutcomesByFiles
    BY <1>1 DEF OpenCert
  <2>2. OneInside' /\ FilesAgree'
    BY <1>1, <2>1 DEF OpenCert, OneInside, FilesAgree, FilesByStep
  <2>3. FilesByStep'
    BY <1>1, <2>1 DEF OpenCert, OneInside, FilesByStep
  <2>4. OutcomesByFiles'
    BY <1>1, <2>1 DEF OpenCert, FilesByStep, OutcomesByFiles
  <2> QED BY <2>2, <2>3, <2>4
<1>2. CASE FillCert(d)
  <2> SUFFICES ASSUME ~raced' PROVE OneInside' /\ FilesAgree' /\ FilesByStep' /\ OutcomesByFiles'
    OBVIOUS
  <2>1. OneInside /\ FilesAgree /\ FilesByStep /\ OutcomesByFiles
    BY <1>2 DEF FillCert
  <2>2. OneInside' /\ FilesAgree'
    BY <1>2, <2>1 DEF FillCert, OneInside, FilesAgree, FilesByStep
  <2>3. FilesByStep'
    BY <1>2, <2>1 DEF FillCert, OneInside, FilesByStep
  <2>4. OutcomesByFiles'
    BY <1>2, <2>1 DEF FillCert, FilesByStep, OutcomesByFiles
  <2> QED BY <2>2, <2>3, <2>4
<1>3. CASE OpenKey(d)
  <2> SUFFICES ASSUME ~raced' PROVE OneInside' /\ FilesAgree' /\ FilesByStep' /\ OutcomesByFiles'
    OBVIOUS
  <2>1. OneInside /\ FilesAgree /\ FilesByStep /\ OutcomesByFiles
    BY <1>3 DEF OpenKey
  <2>2. OneInside' /\ FilesAgree'
    BY <1>3, <2>1 DEF OpenKey, OneInside, FilesAgree, FilesByStep
  <2>3. FilesByStep'
    BY <1>3, <2>1 DEF OpenKey, OneInside, FilesByStep
  <2>4. OutcomesByFiles'
    BY <1>3, <2>1 DEF OpenKey, FilesByStep, OutcomesByFiles
  <2> QED BY <2>2, <2>3, <2>4
<1>4. CASE FillKey(d)
  <2> SUFFICES ASSUME ~raced' PROVE OneInside' /\ FilesAgree' /\ FilesByStep' /\ OutcomesByFiles'
    OBVIOUS
  <2>1. OneInside /\ FilesAgree /\ FilesByStep /\ OutcomesByFiles
    BY <1>4 DEF FillKey
  <2>2. OneInside' /\ FilesAgree'
    BY <1>4, <2>1 DEF FillKey, OneInside, FilesAgree, FilesByStep
  <2>3. FilesByStep'
    BY <1>4, <2>1 DEF FillKey, OneInside, FilesByStep
  <2>4. OutcomesByFiles'
    BY <1>4, <2>1 DEF FillKey, FilesByStep, OutcomesByFiles
  <2> QED BY <2>2, <2>3, <2>4
<1> QED BY <1>1, <1>2, <1>3, <1>4

\* A process that ends leaves the files as they are.
LEMMA EndingPreserves ==
  ASSUME Sound, CaTypeOK', NEW d \in Daemons, Export(d) \/ KillEarly(d)
  PROVE  Sound'
<1>1. PICK to \in {"exported", "killed"} :
        /\ caAt' = [caAt EXCEPT ![d] = to]
        /\ holds' \in {holds, [holds EXCEPT ![d] = NoPair]}
        /\ UNCHANGED <<cert, key, raced>>
  BY DEF Export, KillEarly, CaGoes
<1>2. OneInside /\ FilesAgree => OneInside' /\ FilesAgree'
  BY <1>1 DEF Sound, CaTypeOK, OneInside, FilesAgree, Busy, Loading, Generating
<1>3. FilesByStep => FilesByStep'
  BY <1>1 DEF Sound, CaTypeOK, FilesByStep
<1>4. OutcomesByFiles => OutcomesByFiles'
  <2>1. \A e \in Daemons : holds'[e] = holds[e] \/ holds'[e].key = Absent
    BY <1>1 DEF Sound, CaTypeOK, NoPair
  <2>2. \A e \in Daemons : caAt'[e] = caAt[e] \/ caAt'[e] \notin {"refused", "filling key"}
    BY <1>1 DEF Sound, CaTypeOK
  <2> QED BY <1>1, <2>1, <2>2 DEF OutcomesByFiles
<1> QED BY <1>1, <1>2, <1>3, <1>4 DEF Sound

LEMMA SoundStep == Sound /\ [StartupNext]_startupVars => Sound'
<1> SUFFICES ASSUME Sound, [StartupNext]_startupVars PROVE Sound' OBVIOUS
<1>1. CASE UNCHANGED caVars
  BY <1>1 DEF caVars, Sound, CaTypeOK, OneInside, FilesAgree, FilesByStep, OutcomesByFiles
<1>2. ASSUME NEW d \in Daemons, LoadOrCreateCa(d) \/ Export(d) \/ KillEarly(d) PROVE Sound'
  <2>1. CaTypeOK'
    BY <1>2, CaTypeStep DEF Sound
  <2> QED BY <1>2, <2>1, CheckingPreserves, ReadingPreserves, WritingPreserves, EndingPreserves
          DEF LoadOrCreateCa
<1> QED BY <1>1, <1>2 DEF StartupNext, startupVars

LEMMA AlwaysSound == StartupSpec => []Sound
BY SoundInit, SoundStep, PTL DEF StartupSpec

---------------------------------------------------------------------------
\* Unless two processes look for it at once, the CA that a process has is the one on
\* disk, certificate and key of one pair.
THEOREM AuthorityIsOne == StartupSpec => []OneAuthority
<1>1. Sound => OneAuthority
  BY DEF Sound, FilesAgree, OutcomesByFiles, OneAuthority
<1> QED BY <1>1, AlwaysSound, PTL

\* Unless two processes look for it at once, only a torn key keeps one from its CA.
THEOREM OnlyTornKeyRefuses == StartupSpec => []InterruptedWriteIsRepaired
<1>1. Sound => InterruptedWriteIsRepaired
  BY DEF Sound, OutcomesByFiles, InterruptedWriteIsRepaired
<1> QED BY <1>1, AlwaysSound, PTL

\* With the CA in front of it a daemon's start is still that of InstanceGuard.
THEOREM StartupRefinesGuard == StartupSpec => Spec
<1>1. StartupInit => Init
  BY DEF StartupInit
<1>2. [StartupNext]_startupVars => [Next]_vars
  BY DEF StartupNext, startupVars, vars, Next
<1> QED BY <1>1, <1>2, PTL DEF StartupSpec, Spec
================================================================================
