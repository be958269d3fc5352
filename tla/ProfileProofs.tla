---------------------------- MODULE ProfileProofs ----------------------------
(***************************************************************************)
(* Proofs about Profile, for any names, contacts, calls and bounds.        *)
(*                                                                         *)
(* What a call answers is compared with what async calls load, so the      *)
(* invariant has to follow the file between the two: an identity that was  *)
(* told is the one in the file until a write begins or the process dies,   *)
(* and either forgets what was told.                                       *)
(***************************************************************************)
EXTENDS Profile, TLAPS

\* A save has an identity to write, and a reset a key to generate.
WriteInv ==
    /\ upc \in {"save", "write"} => mem \in Identity
    /\ upc \in {"reset", "load"} => keys < MaxKeys

\* What was told is in the file, and what an undisturbed call has loaded.
ToldInv ==
    /\ told # Nobody => upc = "idle" /\ told = stored
    /\ \A r \in Calls : quiet[r] => told # Nobody
    /\ QuietLoadsSucceed

Inv == TypeOK /\ WriteInv /\ ToldInv

-----------------------------------------------------------------------------
LEMMA NobodyIsNoIdentity == Nobody \in Loadable /\ Nobody \notin Identity
BY DEF Nobody, Loadable, Identity, Keys

\* A user's name makes an identity of an identity.
LEMMA NamedIdentity ==
    \A i \in Identity, n \in Names \cup {"Unnamed"} : [i EXCEPT !.name = n] \in Identity
BY DEF Identity

LEMMA InitInv == Init => Inv
<1> SUFFICES ASSUME Init PROVE Inv
  OBVIOUS
<1> USE DEF Init
<1>1. TypeOK
  <2>1. keys \in 0 .. MaxKeys /\ faults \in 0 .. MaxFaults
    BY ProfileAssumption
  <2>2. DOMAIN book = {}
    OBVIOUS
  <2>3. QED
    BY <2>1, <2>2, NobodyIsNoIdentity DEF TypeOK, UIStates, CallStates
<1>2. WriteInv
  BY DEF WriteInv
<1>3. ToldInv
  BY DEF ToldInv, QuietLoadsSucceed
<1>4. QED
  BY <1>1, <1>2, <1>3 DEF Inv

-----------------------------------------------------------------------------
(* The user interface.                                                      *)

LEMMA InterfaceKeepsInv ==
    ASSUME Inv, \/ \E which \in {"reset", "rename"} : StartOp(which)
                \/ GetIdentity \/ UIStep \/ SaveFails \/ Crash
    PROVE  Inv'
<1>n. Nobody \in Loadable /\ Nobody \notin Identity /\ Identity \subseteq Loadable
  BY NobodyIsNoIdentity DEF Loadable
<1>i. /\ TypeOK /\ WriteInv /\ ToldInv
      /\ MaxKeys \in Nat /\ MaxFaults \in Nat
  BY ProfileAssumption DEF Inv
<1>q. upc # "idle" => told = Nobody /\ \A r \in Calls : ~quiet[r]
  BY <1>i DEF ToldInv
<1> USE DEF disk, ui, async, bounds
<1>1. ASSUME NEW which \in {"reset", "rename"}, StartOp(which) PROVE Inv'
  <2>1. TypeOK'
    BY <1>n, <1>i, <1>1 DEF StartOp, TypeOK, UIStates, Disturbed
  <2>2. WriteInv' /\ ToldInv'
    BY <1>i, <1>1 DEF StartOp, WriteInv, ToldInv, QuietLoadsSucceed, Disturbed
  <2>3. QED
    BY <2>1, <2>2 DEF Inv
<1>2. CASE GetIdentity
  <2>1. TypeOK' /\ WriteInv'
    BY <1>i, <1>2 DEF GetIdentity, TypeOK, WriteInv
  <2>2. ToldInv'
    BY <1>i, <1>2 DEF GetIdentity, ToldInv, QuietLoadsSucceed
  <2>3. QED
    BY <2>1, <2>2 DEF Inv
<1>3. CASE Remove
  <2>1. TypeOK' /\ WriteInv'
    BY <1>n, <1>i, <1>3 DEF Remove, TypeOK, UIStates, WriteInv
  <2>2. ToldInv'
    BY <1>i, <1>q, <1>3 DEF Remove, ToldInv, QuietLoadsSucceed
  <2>3. QED
    BY <2>1, <2>2 DEF Inv
<1>4. CASE LoadOrCreate
  <2>1. CASE file = "empty"
    <3>1. upc' = "idle" /\ told' = Nobody
          /\ UNCHANGED <<disk, op, arg, mem, naming, hit, bounds, async, book>>
      BY <1>4, <2>1 DEF LoadOrCreate, Answer
    <3>2. QED
      BY <1>n, <1>i, <1>q, <1>4, <3>1
      DEF LoadOrCreate, Inv, TypeOK, UIStates, WriteInv, ToldInv, QuietLoadsSucceed
  <2>2. CASE file # "empty"
    <3>1. /\ upc = "load" /\ upc' = "save"
          /\ keys' = IF file = "absent" THEN keys + 1 ELSE keys
          /\ mem' = IF file = "absent" THEN [key |-> keys', name |-> "Unnamed"] ELSE stored
          /\ UNCHANGED <<disk, op, arg, naming, told, hit, faults, async, book>>
      BY <1>4, <2>2 DEF LoadOrCreate
    <3>2. keys' \in 0 .. MaxKeys /\ (file = "absent" => keys' \in Keys)
      BY <1>i, <3>1 DEF TypeOK, WriteInv, Keys
    <3>3. mem' \in Identity
      <4>1. CASE file = "absent"
        BY <3>1, <3>2, <4>1 DEF Identity
      <4>2. CASE file # "absent"
        <5>1. file = "json"
          BY <1>i, <2>2, <4>2 DEF TypeOK
        <5>2. stored \in Identity
          BY <1>i, <5>1 DEF TypeOK, Loadable
        <5>3. QED
          BY <3>1, <4>2, <5>2
      <4>3. QED
        BY <4>1, <4>2
    <3>4. TypeOK' /\ WriteInv'
      BY <1>n, <1>i, <3>1, <3>2, <3>3 DEF TypeOK, UIStates, WriteInv
    <3>5. ToldInv'
      BY <1>i, <1>q, <3>1 DEF ToldInv, QuietLoadsSucceed
    <3>6. QED
      BY <3>4, <3>5 DEF Inv
  <2>3. QED
    BY <2>1, <2>2
<1>5. CASE LoadForRename
  <2>1. CASE file = "json"
    <3>1. /\ upc = "rename" /\ upc' = "save" /\ naming' = FALSE
          /\ mem' = [stored EXCEPT !.name = arg]
          /\ UNCHANGED <<disk, op, arg, told, hit, bounds, async, book>>
      BY <1>5, <2>1 DEF LoadForRename
    <3>2. stored \in Identity /\ arg \in Names \cup {"Unnamed"}
      BY <1>i, <2>1 DEF TypeOK, Loadable
    <3>3. mem' \in Identity
      BY <3>1, <3>2, NamedIdentity
    <3>4. TypeOK' /\ WriteInv'
      BY <1>n, <1>i, <3>1, <3>3 DEF TypeOK, UIStates, WriteInv
    <3>5. ToldInv'
      BY <1>i, <1>q, <3>1 DEF ToldInv, QuietLoadsSucceed
    <3>6. QED
      BY <3>4, <3>5 DEF Inv
  <2>2. CASE file # "json"
    <3>1. upc' = "idle" /\ told' = Nobody /\ upc = "rename"
          /\ UNCHANGED <<disk, op, arg, mem, naming, hit, bounds, async, book>>
      BY <1>5, <2>2 DEF LoadForRename, Answer
    <3>2. QED
      BY <1>n, <1>i, <1>q, <3>1
      DEF Inv, TypeOK, UIStates, WriteInv, ToldInv, QuietLoadsSucceed
  <2>3. QED
    BY <2>1, <2>2
<1>6. CASE Truncate
  <2>1. TypeOK' /\ WriteInv'
    BY <1>n, <1>i, <1>6 DEF Truncate, TypeOK, UIStates, WriteInv
  <2>2. ToldInv'
    BY <1>i, <1>q, <1>6 DEF Truncate, ToldInv, QuietLoadsSucceed
  <2>3. QED
    BY <2>1, <2>2 DEF Inv
<1>7. CASE Write
  <2>1. mem \in Identity /\ mem # Nobody /\ arg \in Names \cup {"Unnamed"}
    BY <1>n, <1>i, <1>7 DEF Write, WriteInv, TypeOK
  <2>2. /\ file' = "json" /\ stored' = mem /\ upc = "write"
        /\ \/ /\ mem' = [mem EXCEPT !.name = arg] /\ naming' = FALSE
              /\ upc' = "save" /\ UNCHANGED told
           \/ upc' = "idle" /\ told' = mem /\ UNCHANGED <<mem, naming>>
        /\ UNCHANGED <<op, arg, hit, async, bounds, book>>
    BY <1>7 DEF Write, Answer
  <2>3. mem' \in Identity
    BY <2>1, <2>2, NamedIdentity
  <2>4. TypeOK' /\ WriteInv'
    BY <1>n, <1>i, <2>1, <2>2, <2>3 DEF TypeOK, UIStates, WriteInv
  <2>5. ToldInv'
    BY <1>i, <1>q, <2>2 DEF ToldInv, QuietLoadsSucceed
  <2>6. QED
    BY <2>4, <2>5 DEF Inv
<1>8. CASE SaveFails
  <2>1. TypeOK' /\ WriteInv'
    BY <1>n, <1>i, <1>8 DEF SaveFails, Answer, TypeOK, UIStates, WriteInv
  <2>2. ToldInv'
    BY <1>i, <1>q, <1>8 DEF SaveFails, Answer, ToldInv, QuietLoadsSucceed
  <2>3. QED
    BY <2>1, <2>2 DEF Inv
<1>9. CASE Crash
  <2>1. TypeOK'
    BY <1>n, <1>i, <1>9 DEF Crash, TypeOK, UIStates, CallStates, Disturbed
  <2>2. WriteInv' /\ ToldInv'
    BY <1>i, <1>9 DEF Crash, WriteInv, ToldInv, QuietLoadsSucceed, Disturbed
  <2>3. QED
    BY <2>1, <2>2 DEF Inv
<1>10. QED
  BY <1>1, <1>2, <1>3, <1>4, <1>5, <1>6, <1>7, <1>8, <1>9 DEF UIStep

-----------------------------------------------------------------------------
(* Contacts and async calls.                                                *)

LEMMA ContactsKeepInv ==
    ASSUME Inv, NEW c \in Contacts, AddContact(c) \/ RemoveContact(c)
    PROVE  Inv'
<1>1. /\ DOMAIN book' \subseteq Contacts /\ \A d \in DOMAIN book' : book'[d] \in PublicKeys
      /\ UNCHANGED <<disk, ui, async, bounds>>
  <2>1. DOMAIN book \subseteq Contacts /\ \A d \in DOMAIN book : book[d] \in PublicKeys
    BY DEF Inv, TypeOK
  <2>2. NoKey \in PublicKeys
    BY DEF PublicKeys
  <2>3. QED
    BY <2>1, <2>2 DEF AddContact, RemoveContact
<1>2. QED
  BY <1>1
  DEF Inv, TypeOK, WriteInv, ToldInv, QuietLoadsSucceed, disk, ui, async, bounds

LEMMA CallsKeepInv ==
    ASSUME Inv, NEW r \in Calls,
           \/ \E c \in Contacts \cup {None} : StartCall(r, c)
           \/ LoadExists(r) \/ LoadRead(r) \/ ConnectContact(r) \/ Return(r)
    PROVE  Inv'
<1>i. TypeOK /\ WriteInv /\ ToldInv
  BY DEF Inv
<1>t. /\ cpc \in [Calls -> CallStates] /\ seen \in [Calls -> Loadable]
      /\ quiet \in [Calls -> BOOLEAN] /\ target \in [Calls -> Contacts \cup {None}]
      /\ stored \in Loadable /\ Nobody \in Loadable
  BY <1>i, NobodyIsNoIdentity DEF TypeOK
<1> DEFINE Frame == UNCHANGED <<disk, ui, bounds, book>>
<1>f. ASSUME Frame, cpc' \in [Calls -> CallStates], seen' \in [Calls -> Loadable],
             quiet' \in [Calls -> BOOLEAN], target' \in [Calls -> Contacts \cup {None}]
      PROVE  TypeOK' /\ WriteInv'
  BY <1>i, <1>f DEF TypeOK, WriteInv, disk, ui, bounds
<1>1. ASSUME NEW c \in Contacts \cup {None}, StartCall(r, c) PROVE Inv'
  <2>1. TypeOK' /\ WriteInv'
    BY <1>t, <1>f, <1>1 DEF StartCall, Goto, CallStates
  <2>2. ToldInv'
    BY <1>i, <1>t, <1>1
    DEF StartCall, Goto, ToldInv, QuietLoadsSucceed, disk, ui
  <2>3. QED
    BY <2>1, <2>2 DEF Inv
<1>2. CASE LoadExists(r)
  <2>1. TypeOK' /\ WriteInv'
    BY <1>t, <1>f, <1>2 DEF LoadExists, Goto, CallStates
  <2>2. quiet[r] => file = "json"
    BY <1>i DEF ToldInv, TypeOK
  <2>3. ToldInv'
    BY <1>i, <1>t, <1>2, <2>2
    DEF LoadExists, Goto, ToldInv, QuietLoadsSucceed, disk, ui
  <2>4. QED
    BY <2>1, <2>3 DEF Inv
<1>3. CASE LoadRead(r)
  <2>1. TypeOK' /\ WriteInv'
    BY <1>t, <1>f, <1>3 DEF LoadRead, Goto, CallStates
  <2>2. ToldInv'
    BY <1>i, <1>t, <1>3
    DEF LoadRead, Goto, ToldInv, QuietLoadsSucceed, disk, ui
  <2>3. QED
    BY <2>1, <2>2 DEF Inv
<1>4. CASE ConnectContact(r)
  <2>1. /\ cpc[r] = "loaded" /\ cpc' \in [Calls -> CallStates]
        /\ \E where \in {"failed", "connected"} : cpc' = [cpc EXCEPT ![r] = where]
        /\ UNCHANGED <<disk, ui, seen, quiet, target, bounds, book>>
    BY <1>t, <1>4 DEF ConnectContact, Goto, CallStates
  <2>2. TypeOK' /\ WriteInv'
    BY <1>f, <1>t, <2>1
  <2>3. ToldInv'
    BY <1>i, <1>t, <2>1 DEF ToldInv, QuietLoadsSucceed, disk, ui
  <2>4. QED
    BY <2>2, <2>3 DEF Inv
<1>5. CASE Return(r)
  <2>1. None \in Contacts \cup {None}
    OBVIOUS
  <2>2. TypeOK' /\ WriteInv'
    BY <1>t, <1>f, <1>5, <2>1 DEF Return, Goto, CallStates
  <2>3. ToldInv'
    BY <1>i, <1>t, <1>5
    DEF Return, Goto, ToldInv, QuietLoadsSucceed, disk, ui
  <2>4. QED
    BY <2>2, <2>3 DEF Inv
<1>6. QED
  BY <1>1, <1>2, <1>3, <1>4, <1>5

LEMMA NextKeepsInv == Inv /\ [Next]_vars => Inv'
<1> SUFFICES ASSUME Inv, [Next]_vars PROVE Inv'
  OBVIOUS
<1>1. CASE UNCHANGED vars
  BY <1>1
  DEF Inv, TypeOK, WriteInv, ToldInv, QuietLoadsSucceed, vars, disk, ui, async, bounds
<1>2. CASE Next
  BY <1>2, InterfaceKeepsInv, ContactsKeepInv, CallsKeepInv DEF Next
<1>3. QED
  BY <1>1, <1>2

LEMMA Invariance == Spec => []Inv
BY InitInv, NextKeepsInv, PTL DEF Spec

\* The profile is well formed: in particular identity.json parses exactly when
\* a whole identity was written (identity/storage.rs:54-99).
THEOREM TypeCorrect == Spec => []TypeOK
<1>1. Inv => TypeOK
  BY DEF Inv
<1>2. QED
  BY <1>1, Invariance, PTL

\* A call that begins after the user interface was told an identity, and that
\* no write and no crash overlaps, loads that identity (api.rs:157-167,
\* identity/storage.rs:54-99).
THEOREM QuietLoads == Spec => []QuietLoadsSucceed
<1>1. Inv => QuietLoadsSucceed
  BY DEF Inv, ToldInv
<1>2. QED
  BY <1>1, Invariance, PTL

=============================================================================
