------------------------------ MODULE Profile -------------------------------
(***************************************************************************)
(* What the application keeps on disk: identity.json                       *)
(* (identity/storage.rs) and contacts.db (contacts/), under the calls of   *)
(* api.rs.  Calls that write run on the one thread of the user interface;  *)
(* async calls load the identity beside it.  A save truncates the file and *)
(* then writes it, and the process, or the disk, may fail in between.      *)
(***************************************************************************)
EXTENDS Integers, FiniteSets

CONSTANTS
    Names,        \* display names a user chooses
    Contacts,     \* fingerprints a user adds
    Calls,        \* async calls in flight together
    MaxKeys,      \* bound: keypairs generated over a behaviour
    MaxFaults     \* bound: crashes and failed saves

ASSUME ProfileAssumption ==
    /\ "Unnamed" \notin Names
    /\ MaxKeys \in Nat /\ MaxFaults \in Nat

Keys == 1 .. MaxKeys
Identity == [key : Keys, name : Names \cup {"Unnamed"}]
Nobody == [key |-> 0, name |-> "Unnamed"]  \* no identity

VARIABLES
    file,      \* identity.json: "absent", "empty" or "json"
    stored,    \* the identity in it, when it is readable
    upc,       \* the user interface's call: where it is
    op,        \* and which it is: "reset" or "rename"
    arg,       \* the name it was given
    mem,       \* the identity it has in memory
    naming,    \* the name has not been entered yet
    told,      \* what the last call returned: an identity, or Nobody for an error
    hit,       \* a fault struck that call
    keys,      \* keypairs generated
    faults,
    book,      \* contacts.db: the public key on file for each contact
    cpc,       \* the async calls
    seen,      \* the identity each loaded
    quiet,     \* no write and no crash since the call began
    target     \* the contact it connects to, or a transfer call's None

disk == <<file, stored>>
ui == <<upc, op, arg, mem, naming, told, hit>>
async == <<cpc, seen, quiet, target>>
bounds == <<keys, faults>>
vars == <<disk, ui, async, bounds, book>>

None == "none"
NoKey == "empty string"
\* contact.public_key: what api_add_contact stores, or the hex of 32 bytes.
PublicKeys == {NoKey, "32 bytes"}

Init ==
    /\ file = "absent" /\ stored = Nobody
    /\ upc = "idle" /\ op = "reset" /\ arg = "Unnamed" /\ mem = Nobody
    /\ naming = FALSE /\ told = Nobody /\ hit = FALSE
    /\ keys = 0 /\ faults = 0
    /\ book = [c \in {} |-> NoKey]
    /\ cpc = [r \in Calls |-> "idle"] /\ seen = [r \in Calls |-> Nobody]
    /\ quiet = [r \in Calls |-> FALSE] /\ target = [r \in Calls |-> None]

Disturbed == [r \in Calls |-> FALSE]

-----------------------------------------------------------------------------
(* The user interface: api_reset_identity and api_set_display_name.        *)

Answer(identity) == upc' = "idle" /\ told' = identity

StartOp(which) ==
    /\ upc = "idle" /\ upc' = which
    /\ which = "reset" => keys < MaxKeys
    /\ op' = which /\ arg' \in Names /\ naming' = TRUE
    /\ mem' = Nobody /\ told' = Nobody /\ hit' = FALSE
    /\ quiet' = Disturbed
    /\ UNCHANGED <<disk, bounds, book, cpc, seen, target>>

\* Mutant: reset overwrites the file instead of removing it first.
Remove_Skipped ==
    /\ upc = "reset" /\ upc' = "load"
    /\ UNCHANGED <<disk, op, arg, mem, naming, told, hit, async, bounds, book>>

\* reset(): path.exists() and remove_file.
Remove ==
    /\ upc = "reset" /\ upc' = "load"
    /\ file' = "absent" /\ stored' = Nobody
    /\ UNCHANGED <<op, arg, mem, naming, told, hit, async, bounds, book>>

\* load_or_create(None) of a reset: a file that is there is loaded, if it can be.
LoadOrCreate ==
    /\ upc = "load"
    /\ IF file = "empty"
       THEN Answer(Nobody) /\ UNCHANGED <<mem, keys>>
       ELSE /\ upc' = "save" /\ UNCHANGED told
            /\ keys' = IF file = "absent" THEN keys + 1 ELSE keys
            /\ mem' = IF file = "absent" THEN [key |-> keys', name |-> "Unnamed"]
                                         ELSE stored
    /\ UNCHANGED <<disk, op, arg, naming, hit, faults, async, book>>

\* load() of a rename: an unreadable or missing identity is an error.
LoadForRename ==
    /\ upc = "rename"
    /\ \/ /\ file = "json"
          /\ mem' = [stored EXCEPT !.name = arg]
          /\ naming' = FALSE /\ upc' = "save" /\ UNCHANGED told
       \/ /\ file # "json"
          /\ Answer(Nobody) /\ UNCHANGED <<mem, naming>>
    /\ UNCHANGED <<disk, op, arg, hit, bounds, async, book>>

\* Mutant: the file is removed and made anew, and its readers keep the old one.
Truncate_Removes ==
    /\ upc = "save" /\ upc' = "write"
    /\ file' = "absent" /\ UNCHANGED stored
    /\ UNCHANGED <<op, arg, mem, naming, told, hit, async, bounds, book>>

\* std::fs::write opens with truncation ...
Truncate ==
    /\ upc = "save" /\ upc' = "write"
    /\ file' = "empty" /\ stored' = Nobody
    /\ UNCHANGED <<op, arg, mem, naming, told, hit, async, bounds, book>>

\* Mutant: the identity with the name is returned and not saved.
Write_Once ==
    /\ upc = "write"
    /\ file' = "json" /\ stored' = mem
    /\ mem' = [mem EXCEPT !.name = arg] /\ naming' = FALSE
    /\ Answer(mem')
    /\ UNCHANGED <<op, arg, hit, async, bounds, book>>

\* ... and writes.  A reset saves a second time, with the name.
Write ==
    /\ upc = "write"
    /\ file' = "json" /\ stored' = mem
    /\ \/ /\ naming
          /\ mem' = [mem EXCEPT !.name = arg] /\ naming' = FALSE
          /\ upc' = "save" /\ UNCHANGED told
       \/ /\ ~naming
          /\ Answer(mem) /\ UNCHANGED <<mem, naming>>
    /\ UNCHANGED <<op, arg, hit, async, bounds, book>>

\* Opening or writing fails (a full disk); the call returns the error.
SaveFails ==
    /\ upc \in {"save", "write"} /\ faults < MaxFaults
    /\ faults' = faults + 1 /\ hit' = TRUE
    /\ Answer(Nobody)
    /\ UNCHANGED <<disk, op, arg, mem, naming, async, keys, book>>

\* The process dies and is started again: the files are what is left.
Crash ==
    /\ faults < MaxFaults /\ faults' = faults + 1
    /\ hit' = TRUE /\ upc' = "idle" /\ told' = Nobody
    /\ cpc' = [r \in Calls |-> "idle"] /\ seen' = [r \in Calls |-> Nobody]
    /\ quiet' = Disturbed
    /\ UNCHANGED <<disk, op, arg, mem, naming, target, keys, book>>

\* api_get_identity: None for a missing file and for an unreadable one.
GetIdentity ==
    /\ upc = "idle" /\ told' = stored
    /\ UNCHANGED <<disk, upc, op, arg, mem, naming, hit, async, bounds, book>>

-----------------------------------------------------------------------------
(* Contacts.  Each is one transaction of sqlite.                           *)

\* api_add_contact: refused if the fingerprint is there; no key is known.
AddContact(c) ==
    /\ upc = "idle" /\ c \notin DOMAIN book
    /\ book' = [d \in DOMAIN book \cup {c} |-> IF d = c THEN NoKey ELSE book[d]]
    /\ UNCHANGED <<disk, ui, async, bounds>>

RemoveContact(c) ==
    /\ upc = "idle" /\ c \in DOMAIN book
    /\ book' = [d \in DOMAIN book \ {c} |-> book[d]]
    /\ UNCHANGED <<disk, ui, async, bounds>>

-----------------------------------------------------------------------------
(* Async calls.                                                            *)

Goto(r, where) == cpc' = [cpc EXCEPT ![r] = where]

\* A transfer call, or api_connect_to_contact for contact c.
StartCall(r, c) ==
    /\ cpc[r] = "idle" /\ Goto(r, "exists")
    /\ seen' = [seen EXCEPT ![r] = Nobody]
    /\ quiet' = [quiet EXCEPT ![r] = (upc = "idle" /\ told # Nobody)]
    /\ target' = [target EXCEPT ![r] = c]
    /\ UNCHANGED <<disk, ui, bounds, book>>

\* load(): path.exists() ...
LoadExists(r) ==
    /\ cpc[r] = "exists"
    /\ Goto(r, IF file = "absent" THEN "failed" ELSE "read")
    /\ UNCHANGED <<disk, ui, seen, quiet, target, bounds, book>>

\* ... then reading and parsing, each of which may find it gone by then.
LoadRead(r) ==
    /\ cpc[r] = "read"
    /\ seen' = [seen EXCEPT ![r] = stored]
    /\ Goto(r, IF file = "json" THEN "loaded" ELSE "failed")
    /\ UNCHANGED <<disk, ui, quiet, target, bounds, book>>

\* connect_to_contact, for a contact that is still listed and whose key has 32
\* bytes: look it up, announce the caller, punch and connect; any of it may fail.
ConnectContact(r) ==
    /\ cpc[r] = "loaded" /\ target[r] # None
    /\ \/ Goto(r, "failed")
       \/ /\ target[r] \in DOMAIN book /\ book[target[r]] # NoKey
          /\ Goto(r, "connected")
    /\ UNCHANGED <<disk, ui, seen, quiet, target, bounds, book>>

Return(r) ==
    /\ cpc[r] \in {"failed", "connected"} \/ (cpc[r] = "loaded" /\ target[r] = None)
    /\ Goto(r, "idle")
    /\ quiet' = [quiet EXCEPT ![r] = FALSE]
    /\ target' = [target EXCEPT ![r] = None]
    /\ seen' = [seen EXCEPT ![r] = Nobody]
    /\ UNCHANGED <<disk, ui, bounds, book>>

UIStep == Remove \/ LoadOrCreate \/ LoadForRename \/ Truncate \/ Write
Next ==
    \/ StartOp("reset") \/ StartOp("rename")
    \/ GetIdentity \/ UIStep \/ SaveFails \/ Crash
    \/ \E c \in Contacts : AddContact(c) \/ RemoveContact(c)
    \/ \E r \in Calls :
          \/ \E c \in Contacts \cup {None} : StartCall(r, c)
          \/ LoadExists(r) \/ LoadRead(r) \/ ConnectContact(r) \/ Return(r)

Spec == Init /\ [][Next]_vars
\* The thread of the user interface runs a call to its end.
FairSpec == Spec /\ WF_vars(UIStep)

-----------------------------------------------------------------------------
(* Properties.                                                             *)

UIStates == {"idle", "reset", "rename", "load", "save", "write"}
CallStates == {"idle", "exists", "read", "loaded", "failed", "connected"}
Loadable == Identity \cup {Nobody}

TypeOK ==
    /\ file \in {"absent", "empty", "json"}
    /\ stored \in Loadable /\ (stored # Nobody <=> file = "json")
    /\ upc \in UIStates /\ op \in {"reset", "rename"}
    /\ arg \in Names \cup {"Unnamed"}
    /\ mem \in Loadable /\ told \in Loadable
    /\ naming \in BOOLEAN /\ hit \in BOOLEAN
    /\ keys \in 0 .. MaxKeys /\ faults \in 0 .. MaxFaults
    /\ DOMAIN book \subseteq Contacts
    /\ \A c \in DOMAIN book : book[c] \in PublicKeys
    /\ cpc \in [Calls -> CallStates] /\ seen \in [Calls -> Loadable]
    /\ quiet \in [Calls -> BOOLEAN]
    /\ target \in [Calls -> Contacts \cup {None}]

\* A call that begins after the user interface was told an identity, and that
\* no write and no crash overlaps, loads that identity, key and name: what
\* api_reset_identity returns is what it left in the file, over two saves
\* (api.rs:157-167, identity/storage.rs:54-99).
QuietLoadsSucceed ==
    \A r \in Calls :
        quiet[r] /\ cpc[r] \in {"loaded", "failed", "connected"} => seen[r] = told

\* A reset ends with a readable identity whatever was in the file before, one
\* left empty by an interrupted save included, unless a fault strikes the reset
\* itself (identity/storage.rs:93-99).
ResetHeals == (upc = "reset") ~> (file = "json" \/ hit)

=============================================================================
