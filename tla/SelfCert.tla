------------------------------ MODULE SelfCert ------------------------------
(***************************************************************************)
(* transport.SelfCert, called by Config.ClientSelfCert when the process    *)
(* starts with automatic TLS: the pair of files it finds is used again,    *)
(* otherwise a fresh pair is written, the certificate first, and the call  *)
(* starts over.  The process may crash between any two calls of the        *)
(* operating system and is started again, and a write may stop short:      *)
(* SelfCert looks neither at the error of pem.Encode nor, when it finds a  *)
(* file, at its content.  Nobody else writes or removes the files.         *)
(***************************************************************************)
EXTENDS Naturals

CONSTANTS
  MaxPairs,   \* bound on the key pairs generated over all starts
  MaxCrashes  \* bound on crashes

ASSUME CertBounds == MaxPairs \in Nat \ {0} /\ MaxCrashes \in Nat

VARIABLES
  pc,        \* where the process is
  pairs,     \* key pairs generated so far; the last one is the one in memory
  cert, key, \* the files: the pair each was opened for, and whether it is all there
  crashes,
  torn       \* history: the pairs of which a file was not written in full

certVars == <<pc, pairs, cert, key, crashes, torn>>

Absent == [of |-> 0, whole |-> FALSE]   \* there is no such file
Opened == [of |-> pairs, whole |-> FALSE]

CertInit ==
  /\ pc = "stat" /\ pairs = 0 /\ crashes = 0
  /\ cert = Absent /\ key = Absent /\ torn = {}

\* Mistake: the certificate alone is enough.
CertPresent == cert.of > 0

\* errcert == nil && errkey == nil
PairPresent == cert.of > 0 /\ key.of > 0

Stat ==
  /\ pc = "stat"
  /\ pc' = IF PairPresent THEN "use" ELSE "generate"
  /\ UNCHANGED <<pairs, cert, key, crashes, torn>>

\* The serial number, the key and the certificate are made in memory.
Generate ==
  /\ pc = "generate" /\ pairs < MaxPairs
  /\ pairs' = pairs + 1
  /\ pc' = "cert"
  /\ UNCHANGED <<cert, key, crashes, torn>>

\* An error from making the directory or the pair, or from opening a file: the
\* caller ends the process (logger.Fatal).
Fail ==
  /\ pc \in {"stat", "generate", "cert", "key"}
  /\ pc' = "down"
  /\ UNCHANGED <<pairs, cert, key, crashes, torn>>

\* os.Create truncates a certificate that is there.
CreateCert ==
  /\ pc = "cert"
  /\ cert' = Opened
  /\ pc' = "encodeCert"
  /\ UNCHANGED <<pairs, key, crashes, torn>>

\* pem.Encode, whose error is not looked at.
EncodeCert ==
  /\ pc = "encodeCert"
  /\ \/ cert' = [cert EXCEPT !.whole = TRUE] /\ torn' = torn
     \/ cert' = cert /\ torn' = torn \cup {pairs}
  /\ pc' = "key"
  /\ UNCHANGED <<pairs, key, crashes>>

\* The key is opened with O_CREATE and O_TRUNC.
OpenKey ==
  /\ pc = "key"
  /\ key' = Opened
  /\ pc' = "encodeKey"
  /\ UNCHANGED <<pairs, cert, crashes, torn>>

\* pem.Encode, and SelfCert calls itself.
EncodeKey ==
  /\ pc = "encodeKey"
  /\ \/ key' = [key EXCEPT !.whole = TRUE] /\ torn' = torn
     \/ key' = key /\ torn' = torn \cup {pairs}
  /\ pc' = "stat"
  /\ UNCHANGED <<pairs, cert, crashes>>

\* A crash between opening a file and writing it leaves the file empty.
Crash ==
  /\ pc # "down" /\ crashes < MaxCrashes
  /\ crashes' = crashes + 1
  /\ torn' = IF pc \in {"encodeCert", "encodeKey"} THEN torn \cup {pairs} ELSE torn
  /\ pc' = "down"
  /\ UNCHANGED <<pairs, cert, key>>

Restart ==
  /\ pc = "down"
  /\ pc' = "stat"
  /\ UNCHANGED <<pairs, cert, key, crashes, torn>>

CertNext ==
  \/ Stat \/ Generate \/ Fail \/ Crash \/ Restart
  \/ CreateCert \/ EncodeCert \/ OpenKey \/ EncodeKey

CertSpec == CertInit /\ [][CertNext]_certVars

-----------------------------------------------------------------------------

\* SelfCert: whatever earlier starts left behind, the two files it hands out were
\* made for the same pair, and both are all there unless a write of that very pair
\* was cut short.  A start that died between the files is not taken up where it
\* ended, because its private key is lost.  One that died after opening key.pem is:
\* its pair is handed out from then on although the key is empty.
PairMatches ==
  pc = "use" =>
    /\ key.of > 0 /\ cert.of = key.of
    /\ key.of \notin torn => cert.whole /\ key.whole

=============================================================================
