------------------------------- MODULE Startup -------------------------------
(***************************************************************************)
(* tls/ca.py, and the processes that use it: before a process becomes a    *)
(* daemon (InstanceGuard), or prints the certificate and ends (`ca export` *)
(* in cli.py), it loads the CA from the state directory, or generates one. *)
(* Certificate and key are two files, written one after the other, and a   *)
(* process may be killed at any step.                                      *)
(***************************************************************************)
EXTENDS InstanceGuard

CONSTANTS Absent, Torn   \* a file that is not there, or was truncated and not yet filled

ASSUME ContentAssumption == {Absent, Torn} \cap Daemons = {} /\ Absent # Torn

VARIABLES
  caAt,   \* [Daemons -> CaSteps]: where each process is in load_or_create_ca
  cert,   \* what secondeye-ca.pem contains: who generated it, Absent or Torn
  key,    \* the same of secondeye-ca.key
  holds,  \* [Daemons -> Pairs]: what each process has read or made, of either file
  raced   \* two processes have been in load_or_create_ca at once

caVars == <<caAt, cert, key, holds, raced>>
startupVars == <<vars, caVars>>

Loading == {"checking key", "reading cert", "reading key"}
Generating == {"opening cert", "filling cert", "opening key", "filling key"}
Pairs == [cert : Daemons \cup {Absent}, key : Daemons \cup {Absent}]
NoPair == [cert |-> Absent, key |-> Absent]
CaSteps == {"new", "ready", "refused", "killed", "exported"} \cup Loading \cup Generating

StartupInit ==
  /\ Init
  /\ caAt = [d \in Daemons |-> "new"]
  /\ cert = Absent
  /\ key = Absent
  /\ holds = [d \in Daemons |-> NoPair]
  /\ raced = FALSE

CaGoes(d, from, to) == caAt[d] = from /\ caAt' = [caAt EXCEPT ![d] = to]

---------------------------------------------------------------------------
(* load_or_create_ca                                                       *)

\* cert_path.exists(); its result shows in what the certificate is by then.
CheckCert(d) ==
  /\ CaGoes(d, "new", IF cert = Absent THEN "opening cert" ELSE "checking key")
  /\ raced' = (raced \/ \E e \in Daemons : caAt[e] \in Loading \cup Generating)
  /\ UNCHANGED <<cert, key, holds>>

\* Mutant of CheckKey: a certificate alone is taken for a CA.
CheckNothing(d) ==
  /\ CaGoes(d, "checking key", "reading cert")
  /\ UNCHANGED <<cert, key, holds, raced>>

\* Mutant of CheckKey: a certificate that is there is kept, and given a new key.
KeepCert(d) ==
  /\ CaGoes(d, "checking key", IF key = Absent THEN "opening key" ELSE "reading cert")
  /\ UNCHANGED <<cert, key, holds, raced>>

\* Anything less than both files is replaced.
CheckKey(d) ==
  /\ CaGoes(d, "checking key", IF key = Absent THEN "opening cert" ELSE "reading cert")
  /\ UNCHANGED <<cert, key, holds, raced>>

\* _load_ca: a file that was cut short is no PEM.
ReadCert(d) ==
  /\ CaGoes(d, "reading cert", IF cert \in Daemons THEN "reading key" ELSE "refused")
  /\ holds' = [holds EXCEPT ![d] = IF cert \in Daemons THEN [cert |-> cert, key |-> Absent]
                                   ELSE NoPair]
  /\ UNCHANGED <<cert, key, raced>>

ReadKey(d) ==
  /\ CaGoes(d, "reading key", IF key \in Daemons THEN "ready" ELSE "refused")
  /\ holds' = [holds EXCEPT ![d] = IF key \in Daemons THEN [cert |-> holds[d].cert, key |-> key]
                                   ELSE NoPair]
  /\ UNCHANGED <<cert, key, raced>>

\* _generate_ca: each file is opened, which truncates it, and then filled.
OpenCert(d) ==
  /\ CaGoes(d, "opening cert", "filling cert")
  /\ cert' = Torn
  /\ UNCHANGED <<key, holds, raced>>

FillCert(d) ==
  /\ CaGoes(d, "filling cert", "opening key")
  /\ cert' = d
  /\ UNCHANGED <<key, holds, raced>>

OpenKey(d) ==
  /\ CaGoes(d, "opening key", "filling key")
  /\ key' = Torn
  /\ UNCHANGED <<cert, holds, raced>>

FillKey(d) ==
  /\ CaGoes(d, "filling key", "ready")
  /\ key' = d
  /\ holds' = [holds EXCEPT ![d] = [cert |-> d, key |-> d]]
  /\ UNCHANGED <<cert, raced>>

KillEarly(d) ==
  /\ \E from \in Loading \cup Generating : CaGoes(d, from, "killed")
  /\ holds' = [holds EXCEPT ![d] = NoPair]
  /\ UNCHANGED <<cert, key, raced>>

LoadOrCreateCa(d) ==
  \/ CheckCert(d) \/ CheckKey(d) \/ ReadCert(d) \/ ReadKey(d)
  \/ OpenCert(d) \/ FillCert(d) \/ OpenKey(d) \/ FillKey(d)

\* _cmd_ca_export prints the certificate and ends.
Export(d) ==
  /\ at[d] = "new"
  /\ CaGoes(d, "ready", "exported")
  /\ UNCHANGED <<cert, key, holds, raced>>

StartupNext ==
  \E d \in Daemons :
    \/ (LoadOrCreateCa(d) \/ Export(d) \/ KillEarly(d)) /\ UNCHANGED vars
    \/ caAt[d] = "ready" /\ (Start(d) \/ Stop(d) \/ Kill(d)) /\ UNCHANGED caVars

StartupSpec == StartupInit /\ [][StartupNext]_startupVars

---------------------------------------------------------------------------
(* Properties                                                              *)

\* README: the CA is generated "on first run [...] every subsequent run reuses it".
\* Unless two processes looked for it at once, whatever was killed while it was
\* being written: the certificate and key that a process ever used or exported are
\* of one pair, and that pair is still the one on disk.
OneAuthority ==
  ~raced => \A d \in Daemons : holds[d].key # Absent =>
    /\ holds[d] = [cert |-> cert, key |-> key]
    /\ cert = key

\* A kill while the CA is written keeps later processes from having one in a single
\* case: the key's file was open and not yet filled.
InterruptedWriteIsRepaired ==
  ~raced => \A d \in Daemons : caAt[d] = "refused" => key = Torn
===============================================================================
