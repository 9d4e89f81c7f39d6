------------------------------- MODULE CaStore -------------------------------
(***************************************************************************)
(* The certification authority of the proxy: two files in the working      *)
(* directory, read or written one after the other by every start           *)
(* (load_or_create_ca). A start has a thread of its own, which "Parar" does *)
(* not reach before it listens, so a second start may run beside the first. *)
(* The program may be killed between any two steps.                        *)
(*                                                                         *)
(* A key stands for its pair and for every certificate signed with it: the *)
(* parameters of the CA are fixed (ca_params). The pair that a start       *)
(* generates has that start's number.                                      *)
(***************************************************************************)
EXTENDS Integers

CONSTANTS
  MaxKeys,   (* bound on the starts of the proxy                           *)
  Torn       (* content of a file that is open for writing, or was left so *)

KeyPair == 1..MaxKeys
NoPair == 0

VARIABLES
  certFile,  (* quarry-ca.pem                                              *)
  keyFile,   (* quarry-ca.key.pem                                          *)
  launch,    (* where the thread of each start stands                      *)
  signs,     (* the key its certificates of hosts are signed with          *)
  current,   (* the start whose handle the panel holds                     *)
  mixed,     (* history: two starts were at work at once, before `first`   *)
  first,     (* history: the key of the first start that succeeded alone   *)
  firstCert  (* history: the certificate's file at that moment             *)

files  == <<certFile, keyFile>>
pairs  == <<first, firstCert>>
caVars == <<files, launch, signs, current, mixed, pairs>>

Generating == {"generated", "certOpen", "certWritten", "keyOpen"}
Starting   == {"begun", "reading"} \cup Generating

CaTypeOK ==
  /\ certFile \in KeyPair \cup {NoPair, Torn} /\ keyFile \in KeyPair \cup {NoPair, Torn}
  /\ launch \in [KeyPair -> Starting \cup {"new", "serving", "over"}]
  /\ signs \in [KeyPair -> KeyPair \cup {NoPair}] /\ current \in KeyPair \cup {NoPair}
  /\ mixed \in BOOLEAN
  /\ first \in KeyPair \cup {NoPair} /\ firstCert \in KeyPair \cup {NoPair, Torn}

CaInit ==
  /\ certFile = NoPair /\ keyFile = NoPair
  /\ launch = [s \in KeyPair |-> "new"] /\ signs = [s \in KeyPair |-> NoPair]
  /\ current = NoPair /\ mixed = FALSE /\ first = NoPair /\ firstCert = NoPair

\* The thread of s goes from one step to the next.
Moves(s, from, to) == launch[s] = from /\ launch' = [launch EXCEPT ![s] = to]

\* proxy::start, which the panel calls only without a handle
StartCa(s) ==
  /\ current = NoPair /\ \A t \in 1..(s - 1) : launch[t] # "new"
  /\ Moves(s, "new", "begun")
  /\ current' = s
  /\ mixed' = (mixed \/ (first = NoPair /\ \E t \in KeyPair : launch[t] \in Starting))
  /\ UNCHANGED <<files, signs, pairs>>

\* A plausible bug: a new pair replaces a saved one that is whole.
GenerateAlways(s) ==
  /\ Moves(s, "begun", "generated")
  /\ UNCHANGED <<files, signs, current, mixed, pairs>>

\* Both files are looked for; a pair is generated when one is missing.
Look(s) ==
  /\ Moves(s, "begun", IF certFile # NoPair /\ keyFile # NoPair THEN "reading" ELSE "generated")
  /\ UNCHANGED <<files, signs, current, mixed, pairs>>

\* The pair is in use: serve signs with it.
Serve(s, k) ==
  /\ signs' = [signs EXCEPT ![s] = k]
  /\ IF first = NoPair /\ \A t \in KeyPair \ {s} : launch[t] \in {"new", "over"}
     THEN first' = k /\ firstCert' = certFile
     ELSE UNCHANGED pairs

\* The saved key signs a new certificate. One that does not parse is an error.
Load(s) ==
  /\ keyFile \in KeyPair
  /\ Moves(s, "reading", "serving") /\ Serve(s, keyFile)
  /\ UNCHANGED <<files, current, mixed>>

\* fs::write of the certificate, then of the key: each file is emptied first.
WriteCert(s) ==
  /\ \/ Moves(s, "generated", "certOpen") /\ certFile' = Torn
     \/ Moves(s, "certOpen", "certWritten") /\ certFile' = s
  /\ UNCHANGED <<keyFile, signs, current, mixed, pairs>>

WriteKey(s) ==
  /\ \/ Moves(s, "certWritten", "keyOpen") /\ keyFile' = Torn /\ UNCHANGED <<signs, pairs>>
     \/ Moves(s, "keyOpen", "serving") /\ keyFile' = s /\ Serve(s, s)
  /\ UNCHANGED <<certFile, current, mixed>>

\* Any step of serve may fail, and the thread of a start whose handle is dropped
\* ends once it listens.
LaunchEnds(s) ==
  /\ launch[s] \in Starting \cup {"serving"}
  /\ launch' = [launch EXCEPT ![s] = "over"]
  /\ UNCHANGED <<files, signs, current, mixed, pairs>>

\* "Parar"
DropHandle ==
  /\ current # NoPair /\ current' = NoPair
  /\ UNCHANGED <<files, launch, signs, mixed, pairs>>

\* The program is killed, every thread with it.
Crash ==
  /\ launch' = [s \in KeyPair |-> IF launch[s] = "new" THEN "new" ELSE "over"]
  /\ current' = NoPair
  /\ UNCHANGED <<files, signs, mixed, pairs>>

CaNext ==
  \/ \E s \in KeyPair :
       StartCa(s) \/ Look(s) \/ Load(s) \/ WriteCert(s) \/ WriteKey(s) \/ LaunchEnds(s)
  \/ DropHandle \/ Crash

CaSpec == CaInit /\ [][CaNext]_caVars

-----------------------------------------------------------------------------
\* "Gera/persiste uma CA propria": once a start has succeeded with no other thread
\* of the proxy alive, both files stay as they are and every later start signs with
\* the same key, through crashes, failed writes and starts that overlap. The two
\* files are of one pair unless two starts had run at once before that: then the
\* certificate may be of another pair than the key, and stays so.
CaStable ==
  first # NoPair =>
    /\ keyFile = first /\ certFile = firstCert
    /\ \A s \in KeyPair : launch[s] = "serving" => signs[s] = first
    /\ ~mixed => firstCert = first
=============================================================================
