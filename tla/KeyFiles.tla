------------------------------ MODULE KeyFiles ------------------------------
(***************************************************************************)
(* The files that the commands of pool-psi-cli share (main.rs): keygen     *)
(* creates a key file and writes it, public-key reads it and writes a pk   *)
(* file, serve reads the key and lookup the pk.  Every command is a        *)
(* process of its own, and may be killed between any two of its steps.     *)
(*                                                                         *)
(* A key file is a sequence of bytes; each keygen that creates one has a   *)
(* file of its own, which the path leads to until it is removed.           *)
(***************************************************************************)
EXTENDS Statements

CONSTANTS
    Keygens,        \* bound: the runs of keygen
    KeyOf,          \* bound: the key that each of them samples
    None, Truncated \* no value; a file that was emptied

ASSUME KeyFilesAssumption == KeyOf \in [Keygens -> [Coords -> Bit]]

VARIABLES
    path,       \* the key file, named by the keygen that created it
    bytes,      \* the bytes in each key file
    pos,        \* where each keygen writes next
    file,       \* the file that each keygen has open
    keygen,     \* what each keygen does
    pub,        \* what public-key is about to write
    pkfile,     \* None, Truncated, or a pk and its proof
    sk,         \* the key that serve loaded
    pk,         \* the VerifiedKey that lookup loaded
    removed     \* history: a whole key was removed

keys == <<path, bytes, pos, file, keygen>>
disk == <<keys, pub, pkfile>>
files == <<disk, sk, pk, removed>>

\* For each keygen.
All(x) == [g \in Keygens |-> x]

FilesInit ==
    /\ path = None /\ bytes = All(<<>>) /\ pos = All(0) /\ file = All(None) /\ keygen = All("new")
    /\ pub = None /\ pkfile = None /\ sk = None /\ pk = None /\ removed = FALSE

----------------------------------------------------------------------------
(* keygen.                                                                 *)

\* SecretKey::random, then open: it creates the file, or fails.
KeygenBroken(g) ==
    LET f == IF path = None THEN g ELSE path IN
    /\ keygen[g] = "new"
    /\ path' = f /\ bytes' = [bytes EXCEPT ![f] = <<>>] /\ file' = [file EXCEPT ![g] = f]
    /\ keygen' = [keygen EXCEPT ![g] = "writing"]
    /\ UNCHANGED <<pos, pub, pkfile, sk, pk, removed>>
Keygen(g) ==
    /\ keygen[g] = "new"
    /\ \/ /\ path = None /\ path' = g
          /\ file' = [file EXCEPT ![g] = g] /\ keygen' = [keygen EXCEPT ![g] = "writing"]
       \/ /\ path # None /\ keygen' = [keygen EXCEPT ![g] = "failed"]
          /\ UNCHANGED <<path, file>>
    /\ UNCHANGED <<bytes, pos, pub, pkfile, sk, pk, removed>>

\* External: count bytes of a key, written to a file from a position on.
Written(old, key, at, count) ==
    [i \in 1 .. (IF Len(old) > at + count THEN Len(old) ELSE at + count) |->
        IF i \in at + 1 .. at + count THEN key[i] ELSE IF i <= Len(old) THEN old[i] ELSE 0]

\* write_all: one or more writes.
WriteKey(g) == \E count \in 1 .. N - pos[g] :
    /\ keygen[g] = "writing"
    /\ bytes' = [bytes EXCEPT ![file[g]] = Written(@, KeyOf[g], pos[g], count)]
    /\ pos' = [pos EXCEPT ![g] = @ + count]
    /\ keygen' = [keygen EXCEPT ![g] = IF pos[g] + count = N THEN "done" ELSE "writing"]
    /\ UNCHANGED <<path, file, pub, pkfile, sk, pk, removed>>

KillKeygen(g) ==
    /\ keygen[g] = "writing" /\ keygen' = [keygen EXCEPT ![g] = "failed"]
    /\ UNCHANGED <<path, bytes, pos, file, pub, pkfile, sk, pk, removed>>

----------------------------------------------------------------------------
(* read_key: exactly N bytes, each a bit.                                  *)

Readable(content) == Len(content) = N /\ \A i \in Coords : content[i] <= 1

ReadKeyOk == path # None /\ Readable(bytes[path])
read_key  == bytes[path]

\* The operator removes the key file, to make room for another.
RemoveKey ==
    /\ path # None /\ path' = None
    /\ removed' = (removed \/ ReadKeyOk)
    /\ UNCHANGED <<bytes, pos, file, keygen, pub, pkfile, sk, pk>>

----------------------------------------------------------------------------
(* public-key.                                                             *)

setup(key) == [pk |-> KeyCommitment(key), proof |-> prove(SetupStatement(key), SetupHolds(SetupStatement(key), key))]

\* Read the key, and prove.
PublicKey ==
    /\ pub = None /\ ReadKeyOk
    /\ pub' = setup(read_key)
    /\ UNCHANGED <<keys, pkfile, sk, pk, removed>>

\* fs::write: the file is emptied, then written.
TruncatePk ==
    /\ pub # None
    /\ pkfile' = Truncated
    /\ UNCHANGED <<keys, pub, sk, pk, removed>>

WritePk ==
    /\ pub # None /\ pkfile = Truncated
    /\ pkfile' = pub /\ pub' = None
    /\ UNCHANGED <<keys, sk, pk, removed>>

KillPublicKey ==
    /\ pub # None
    /\ pub' = None
    /\ UNCHANGED <<keys, pkfile, sk, pk, removed>>

----------------------------------------------------------------------------
(* serve and lookup load what they need, or end with an error.             *)

Serve ==
    /\ sk = None /\ ReadKeyOk
    /\ sk' = read_key
    /\ UNCHANGED <<disk, pk, removed>>

\* read_pk and VerifiedKey::verify.
Lookup ==
    /\ pk = None /\ pkfile \notin {None, Truncated}
    /\ verify([pk |-> pkfile.pk], pkfile.proof)
    /\ pk' = pkfile.pk
    /\ UNCHANGED <<disk, sk, removed>>

FilesNext ==
    \/ \E g \in Keygens : Keygen(g) \/ WriteKey(g) \/ KillKeygen(g)
    \/ RemoveKey \/ PublicKey \/ TruncatePk \/ WritePk \/ KillPublicKey \/ Serve \/ Lookup

\* keygen's "Never over an existing key", with read_key's test of the length: a key in use, the
\* server's or the one that pk commits to, was sampled whole by one keygen, however keygens
\* overlap, are killed half way, or are run again.
WholeKeys ==
    /\ sk # None => sk \in {KeyOf[g] : g \in Keygens}
    /\ pk # None => pk.value \in {KeyOf[g] : g \in Keygens}
=============================================================================
