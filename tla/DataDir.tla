-------------------------------- MODULE DataDir --------------------------------
(***************************************************************************)
(* The files of the data directory that outlive a program: the certificate *)
(* and the key of the CA (internal/proxy/ca/ca.go), and the saved session  *)
(* (internal/ownerfile, capture.SaveFile).  Several programs share the     *)
(* directory; any of them may be killed between two system calls, and the  *)
(* machine may lose power.                                                 *)
(*                                                                         *)
(* A certificate and a key are known by the number of the pair they were   *)
(* generated in, a session by the number of the save that put it in place. *)
(* A system call that fails as the CA's files are written ends the program *)
(* (so Crash stands for it too); one that fails as they are read does not: *)
(* the program creates a pair, as if there were none.                      *)
(***************************************************************************)
EXTENDS Integers

CONSTANTS
    Programs,   \* programs that share the directory
    Faults,     \* what else may go wrong: "overlap", two programs start at a
                \* time; "torn", a power failure spoils files never synced
    MaxPairs,   \* bound on the pairs generated
    MaxSaves    \* bound on the sessions put in place

ASSUME DataDirAssumption ==
    /\ Faults \subseteq {"overlap", "torn"}
    /\ MaxPairs \in Nat
    /\ MaxSaves \in Nat

VARIABLES
    cert, key,  \* ca.pem and ca.key
    pairs,      \* how many pairs were generated
    pc,         \* where each program is
    mine,       \* the pair each program holds in memory
    unread,     \* history variable: the keys that were there when a program
                \* failed to read the pair, and replaced it
    temp,       \* the temporary file of each program's save
    commit,     \* the number of each program's save, once in place
    session,    \* the session file as a reader finds it
    found,      \* what a reader may find instead after a power failure
    acked       \* the latest save that was reported as successful

caVars == <<cert, key, pairs, mine, unread>>
saveVars == <<temp, commit, session, found, acked>>
vars == <<caVars, pc, saveVars>>

\* What a file of the CA holds when it holds no pair's half.
Absent == 0
Partial == -1

Whole(half) == half > 0

Loading == {"readCert", "readKey", "generate", "writeCert", "truncKey", "writeKey"}
Saving == {"write", "sync", "rename", "syncDir"}

Init ==
    /\ cert = Absent /\ key = Absent
    /\ pairs = 0 /\ unread = {}
    /\ pc = [p \in Programs |-> "down"]
    /\ mine = [p \in Programs |-> [cert |-> Absent, key |-> Absent]]
    /\ temp = [p \in Programs |-> "none"]
    /\ commit = [p \in Programs |-> 0]
    /\ session = [save |-> 0, whole |-> TRUE]
    /\ found = {session}
    /\ acked = 0

Goto(p, label) == pc' = [pc EXCEPT ![p] = label]

-----------------------------------------------------------------------------
(* The CA: LoadOrCreate, as a program starts.                              *)

Start(p) ==
    /\ pc[p] = "down"
    /\ "overlap" \in Faults \/ \A q \in Programs : pc[q] \notin Loading
    /\ Goto(p, "readCert")
    /\ UNCHANGED <<caVars, saveVars>>

ReadCert(p) ==
    /\ pc[p] = "readCert"
    /\ mine' = [mine EXCEPT ![p].cert = cert]
    /\ Goto(p, IF cert = Absent THEN "generate" ELSE "readKey")
    /\ UNCHANGED <<cert, key, pairs, unread, saveVars>>

\* load takes any two halves that parse; whether they belong together is not
\* looked at.
ReadKey(p) ==
    /\ pc[p] = "readKey"
    /\ mine' = [mine EXCEPT ![p].key = key]
    /\ Goto(p, IF Whole(mine[p].cert) /\ Whole(key) THEN "up" ELSE "generate")
    /\ UNCHANGED <<cert, key, pairs, unread, saveVars>>

\* Any error of reading either file sends LoadOrCreate to create, whatever the files
\* hold.
ReadFails(p) ==
    /\ pc[p] \in {"readCert", "readKey"}
    /\ Goto(p, "generate")
    /\ unread' = unread \cup {key}
    /\ UNCHANGED <<cert, key, pairs, mine, saveVars>>

\* Mutation: only the half that is missing is created.
WriteMissing(p) ==
    /\ pc[p] = "generate"
    /\ pairs < MaxPairs
    /\ pairs' = pairs + 1
    /\ mine' = [mine EXCEPT ![p] = [cert |-> pairs', key |-> pairs']]
    /\ IF Whole(cert)
       THEN Goto(p, "truncKey") /\ UNCHANGED cert
       ELSE Goto(p, "writeCert") /\ cert' = Partial
    /\ UNCHANGED <<key, unread, saveVars>>

\* create generates a pair, and WriteFile truncates the certificate's file.
Generate(p) ==
    /\ pc[p] = "generate"
    /\ pairs < MaxPairs
    /\ pairs' = pairs + 1
    /\ mine' = [mine EXCEPT ![p] = [cert |-> pairs', key |-> pairs']]
    /\ cert' = Partial
    /\ Goto(p, "writeCert")
    /\ UNCHANGED <<key, unread, saveVars>>

WriteCert(p) ==
    /\ pc[p] = "writeCert"
    /\ cert' = mine[p].cert
    /\ Goto(p, "truncKey")
    /\ UNCHANGED <<key, pairs, mine, unread, saveVars>>

TruncKey(p) ==
    /\ pc[p] = "truncKey"
    /\ key' = Partial
    /\ Goto(p, "writeKey")
    /\ UNCHANGED <<cert, pairs, mine, unread, saveVars>>

WriteKey(p) ==
    /\ pc[p] = "writeKey"
    /\ key' = mine[p].key
    /\ Goto(p, "up")
    /\ UNCHANGED <<cert, pairs, mine, unread, saveVars>>

Load(p) ==
    \/ Start(p) \/ ReadCert(p) \/ ReadKey(p) \/ ReadFails(p)
    \/ Generate(p) \/ WriteCert(p) \/ TruncKey(p) \/ WriteKey(p)

-----------------------------------------------------------------------------
(* A session: WriteFunc, from the UI's loop.                               *)

SetTemp(p, content) == temp' = [temp EXCEPT ![p] = content]

\* CreateTemp and Chmod.
BeginSave(p) ==
    /\ pc[p] = "up"
    /\ session.save < MaxSaves
    /\ Goto(p, "write")
    /\ SetTemp(p, "part")
    /\ UNCHANGED <<caVars, commit, session, found, acked>>

\* The callback has written everything it has to.
WriteTemp(p) ==
    /\ pc[p] = "write"
    /\ Goto(p, "sync")
    /\ SetTemp(p, "whole")
    /\ UNCHANGED <<caVars, commit, session, found, acked>>

SyncTemp(p) ==
    /\ pc[p] = "sync"
    /\ Goto(p, "rename")
    /\ SetTemp(p, "synced")
    /\ UNCHANGED <<caVars, commit, session, found, acked>>

\* Mutation: the file is renamed before it is synced.
RenameFirst(p) ==
    /\ pc[p] = "sync"
    /\ Goto(p, "syncDir")
    /\ session' = [save |-> session.save + 1, whole |-> temp[p] # "part"]
    /\ found' = found \cup {[session' EXCEPT !.whole = temp[p] = "synced"]}
    /\ commit' = [commit EXCEPT ![p] = session.save + 1]
    /\ SetTemp(p, "none")
    /\ UNCHANGED <<caVars, acked>>

\* Rename.  Readers see the new session at once; the disk may keep either
\* directory entry until the directory is synced, and of a file that was never
\* synced only a part.
Rename(p) ==
    /\ pc[p] = "rename"
    /\ Goto(p, "syncDir")
    /\ session' = [save |-> session.save + 1, whole |-> temp[p] # "part"]
    /\ found' = found \cup {[session' EXCEPT !.whole = temp[p] = "synced"]}
    /\ commit' = [commit EXCEPT ![p] = session.save + 1]
    /\ SetTemp(p, "none")
    /\ UNCHANGED <<caVars, acked>>

\* What the disk keeps of the session once its directory is synced.
Kept == {x \in found : x.save = session.save}

\* syncParent, and the save is reported as successful.
SyncDir(p) ==
    /\ pc[p] = "syncDir"
    /\ Goto(p, "up")
    /\ found' = Kept
    /\ acked' = IF commit[p] > acked THEN commit[p] ELSE acked
    /\ UNCHANGED <<caVars, temp, commit, session>>

\* An error of any of these calls is reported; a file that is not in place yet
\* is removed.
SaveFails(p) ==
    /\ pc[p] \in Saving
    /\ Goto(p, "up")
    /\ SetTemp(p, "none")
    /\ UNCHANGED <<caVars, commit, session, found, acked>>

Save(p) ==
    \/ BeginSave(p) \/ WriteTemp(p) \/ SyncTemp(p) \/ Rename(p) \/ SyncDir(p)
    \/ SaveFails(p)

-----------------------------------------------------------------------------
\* The program is killed, or ends; a temporary file may stay behind, under a
\* name that no later save uses.
Crash(p) ==
    /\ pc[p] # "down"
    /\ Goto(p, "down")
    /\ SetTemp(p, "none")
    /\ UNCHANGED <<caVars, commit, session, found, acked>>

\* The machine loses power: the session becomes one of those that may be
\* found; a file of the CA, which nobody syncs, may be spoilt.
PowerFails ==
    /\ pc' = [p \in Programs |-> "down"]
    /\ temp' = [p \in Programs |-> "none"]
    /\ session' \in found
    /\ found' = {session'}
    /\ cert' \in {cert} \cup (IF "torn" \in Faults THEN {Partial} ELSE {})
    /\ key' \in {key} \cup (IF "torn" \in Faults THEN {Partial} ELSE {})
    /\ UNCHANGED <<pairs, mine, unread, commit, acked>>

Next ==
    \/ \E p \in Programs : Load(p) \/ Save(p) \/ Crash(p)
    \/ PowerFails

Spec == Init /\ [][Next]_vars

-----------------------------------------------------------------------------
(* Properties.                                                             *)

TypeOK ==
    /\ cert \in Int /\ key \in Int
    /\ pairs \in Nat
    /\ pc \in [Programs -> {"down", "up"} \cup Loading \cup Saving]
    /\ mine \in [Programs -> [cert : Int, key : Int]]
    /\ unread \subseteq Int
    /\ temp \in [Programs -> {"none", "part", "whole", "synced"}]
    /\ commit \in [Programs -> Nat]
    /\ session \in [save : Nat, whole : BOOLEAN]
    /\ found \subseteq [save : Nat, whole : BOOLEAN]
    /\ acked \in Nat

Up(p) == pc[p] \in {"up"} \cup Saving

\* A program that is up signs with the key of the certificate that its child
\* is told to trust, the one in the file, wherever earlier programs were killed,
\* unless some program failed to read that key or the certificate beside it and
\* replaced them
\* (LoadOrCreate; TestLeafChainsToCA: "leaf does not verify against CA").
ChildTrusts ==
    \A p \in Programs : Up(p) /\ mine[p].key \notin unread =>
        /\ mine[p].key = mine[p].cert
        /\ cert = mine[p].cert

\* A CA that is there is kept ("reads a CA from dir, generating and persisting a new
\* one if none exists").  The code does not keep this: any error of load, also one of
\* reading a whole file, has create overwrite it.
KeptIfThere == [][Whole(cert) /\ Whole(key) => cert' = cert]_vars

\* Whenever the session is read, also after a crash or a power failure in the
\* middle of a save, it is a complete one, and not older than one whose save
\* was reported as successful (WriteFunc: "atomically renames", "a successful
\* rename is followed by a parent-directory fsync for crash durability").
SavedIsFound ==
    \A x \in found \cup {session} : x.whole /\ x.save >= acked

==============================================================================
