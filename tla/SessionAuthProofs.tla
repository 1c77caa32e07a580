------------------------- MODULE SessionAuthProofs -------------------------
(***************************************************************************)
(* Proofs about SessionAuth for any processes, requests, logins and        *)
(* irregularities.                                                         *)
(***************************************************************************)
EXTENDS SessionAuth, TLAPS

USE SessionAuthAssumption

-----------------------------------------------------------------------------
(* What is written into the document                                       *)

FieldNames == {"status", "creds", "tok", "at"}

\* Some fields of the document, none of which takes a login or the credentials away.
IsFields(f) ==
    /\ f = [x \in DOMAIN f |-> f[x]] /\ DOMAIN f \subseteq FieldNames
    /\ "status" \in DOMAIN f => f["status"] \in Statuses
    /\ "creds" \in DOMAIN f => f["creds"] = TRUE
    /\ "tok" \in DOMAIN f => f["tok"] \in 1 .. MaxLogins
    /\ "at" \in DOMAIN f => f["at"] \in 1 .. MaxLogins

LEMMA Absent == None \notin Entry /\ None \notin Document /\ Bare \in Document
  BY DEF None, Entry, Document, Statuses, Bare, NoLogin

\* The document the fields are set in.
Base(d) == IF d = None THEN Bare ELSE d

LEMMA Written ==
    ASSUME NEW f, IsFields(f), NEW d \in Document \cup {None}
    PROVE  LET w == Over(f, Base(d)) IN
           /\ w \in Document
           /\ w.status = IF "status" \in DOMAIN f THEN f["status"] ELSE Base(d).status
           /\ w.creds <=> "creds" \in DOMAIN f \/ Base(d).creds
           /\ w.tok = IF "tok" \in DOMAIN f THEN f["tok"] ELSE Base(d).tok
           /\ w.at = IF "at" \in DOMAIN f THEN f["at"] ELSE Base(d).at
<1> DEFINE b == Base(d)
           w == Over(f, b)
<1>1. b \in Document
  BY Absent DEF Base
<1>2. DOMAIN b = FieldNames
  BY <1>1 DEF Document, FieldNames
<1>3. w = [x \in FieldNames |-> IF x \in DOMAIN f THEN f[x] ELSE b[x]]
  BY <1>2 DEF Over, IsFields
<1> HIDE DEF w, b
<1>4. /\ w.status = IF "status" \in DOMAIN f THEN f["status"] ELSE b.status
      /\ w.tok = IF "tok" \in DOMAIN f THEN f["tok"] ELSE b.tok
      /\ w.at = IF "at" \in DOMAIN f THEN f["at"] ELSE b.at
      /\ w.creds = IF "creds" \in DOMAIN f THEN f["creds"] ELSE b.creds
  BY <1>3 DEF FieldNames
<1>5. /\ b.status \in Statuses /\ b.creds \in BOOLEAN
      /\ b.tok \in 0 .. MaxLogins /\ b.at \in 0 .. MaxLogins
  BY <1>1 DEF Document
<1>6. /\ w.status \in Statuses /\ w.tok \in 0 .. MaxLogins /\ w.at \in 0 .. MaxLogins
  BY <1>4, <1>5 DEF IsFields
<1>7. w.creds \in BOOLEAN /\ (w.creds <=> "creds" \in DOMAIN f \/ b.creds)
  BY <1>4, <1>5 DEF IsFields
<1>8. w = [status |-> w.status, creds |-> w.creds, tok |-> w.tok, at |-> w.at]
  BY <1>3 DEF FieldNames
<1>9. w \in Document
  BY <1>6, <1>7, <1>8 DEF Document
<1>10. QED
  BY <1>4, <1>7, <1>9 DEF w, b

LEMMA ValuedFields ==
    ASSUME NEW e \in Entry
    PROVE  /\ IsFields(Valued(e))
           /\ "creds" \in DOMAIN Valued(e) <=> e.creds
           /\ "tok" \in DOMAIN Valued(e) <=> e.tok # NoLogin
           /\ "at" \in DOMAIN Valued(e) <=> e.at # NoLogin
           /\ e.tok # NoLogin => Valued(e)["tok"] = e.tok
           /\ e.at # NoLogin => Valued(e)["at"] = e.at
  BY DEF Valued, IsFields, FieldNames, Entry, NoLogin

\* What persist_session_state writes: with KeepsAuth the document's own login, otherwise
\* the entry's.
LEMMA PayloadFields ==
    ASSUME NEW e \in Entry, NEW d \in Document \cup {None}
    PROVE  LET f == Payload(e, d) IN
           /\ IsFields(f)
           /\ e.creds => "creds" \in DOMAIN f
           /\ KeepsAuth(e, d) =>
                /\ "tok" \in DOMAIN f /\ f["tok"] = d.tok
                /\ d.at # NoLogin => "at" \in DOMAIN f /\ f["at"] = d.at
           /\ ~KeepsAuth(e, d) =>
                /\ "tok" \in DOMAIN f <=> e.tok # NoLogin
                /\ "at" \in DOMAIN f <=> e.at # NoLogin
                /\ e.tok # NoLogin => f["tok"] = e.tok
                /\ e.at # NoLogin => f["at"] = e.at
<1> DEFINE v == Valued(e)
<1>1. CASE KeepsAuth(e, d)
  <2> DEFINE h == [x \in {"status", "tok"} \cup {y \in {"at"} : d.at # NoLogin} |->
                      IF x = "status" THEN "authenticated" ELSE d[x]]
  <2>1. d \in Document /\ d.tok \in 1 .. MaxLogins /\ d.at \in 0 .. MaxLogins
    BY <1>1 DEF KeepsAuth, Document, NoLogin
  <2>2. Payload(e, d) = Over(h, v)
    BY <1>1 DEF Payload
  <2>3. /\ DOMAIN h \subseteq {"status", "tok", "at"}
        /\ "status" \in DOMAIN h /\ "tok" \in DOMAIN h
        /\ "at" \in DOMAIN h <=> d.at # NoLogin
        /\ h["status"] = "authenticated" /\ h["tok"] = d.tok
        /\ d.at # NoLogin => h["at"] = d.at
    OBVIOUS
  <2>4. /\ DOMAIN Payload(e, d) = DOMAIN h \cup DOMAIN v
        /\ Payload(e, d) = [x \in DOMAIN Payload(e, d) |-> Payload(e, d)[x]]
        /\ \A x \in DOMAIN Payload(e, d) :
            Payload(e, d)[x] = IF x \in DOMAIN h THEN h[x] ELSE v[x]
    BY <2>2 DEF Over
  <2> HIDE DEF h, v
  <2>5. /\ IsFields(v)
        /\ e.creds => "creds" \in DOMAIN v
    BY ValuedFields DEF v
  <2>6. IsFields(Payload(e, d))
    <3>1. DOMAIN Payload(e, d) \subseteq FieldNames
      BY <2>3, <2>4, <2>5 DEF IsFields, FieldNames
    <3>2. "status" \in DOMAIN Payload(e, d) => Payload(e, d)["status"] \in Statuses
      BY <2>3, <2>4 DEF Statuses
    <3>3. "creds" \in DOMAIN Payload(e, d) => Payload(e, d)["creds"] = TRUE
      BY <2>3, <2>4, <2>5 DEF IsFields
    <3>4. "tok" \in DOMAIN Payload(e, d) => Payload(e, d)["tok"] \in 1 .. MaxLogins
      BY <2>1, <2>3, <2>4
    <3>5. "at" \in DOMAIN Payload(e, d) => Payload(e, d)["at"] \in 1 .. MaxLogins
      BY <2>1, <2>3, <2>4, <2>5 DEF IsFields, NoLogin
    <3>6. QED
      BY <2>4, <3>1, <3>2, <3>3, <3>4, <3>5 DEF IsFields
  <2>7. QED
    BY <1>1, <2>3, <2>4, <2>5, <2>6
<1>2. CASE ~KeepsAuth(e, d)
  <2>1. CASE Payload(e, d) = v
    BY <1>2, <2>1, ValuedFields
  <2>2. CASE /\ e.status = "credentials_received" /\ e.tok = NoLogin
             /\ Payload(e, d) = [x \in DOMAIN v \ {"status"} |-> e[x]]
    <3> DEFINE f == Payload(e, d)
    <3>1. v = [x \in DOMAIN v |-> e[x]]
      BY DEF Valued
    <3>2. DOMAIN f = DOMAIN v \ {"status"} /\ \A x \in DOMAIN f : f[x] = v[x]
      BY <2>2, <3>1
    <3>3. f = [x \in DOMAIN f |-> f[x]]
      BY <2>2
    <3> HIDE DEF f, v
    <3>4. /\ IsFields(v)
          /\ "creds" \in DOMAIN v <=> e.creds
          /\ "tok" \in DOMAIN v <=> e.tok # NoLogin
          /\ "at" \in DOMAIN v <=> e.at # NoLogin
          /\ e.tok # NoLogin => v["tok"] = e.tok
          /\ e.at # NoLogin => v["at"] = e.at
      BY ValuedFields DEF v
    <3>5. IsFields(f)
      BY <3>2, <3>3, <3>4 DEF IsFields
    <3>6. QED
      BY <1>2, <3>2, <3>4, <3>5 DEF f
  <2>3. QED
    BY <1>2, <2>1, <2>2 DEF Payload
<1>3. QED
  BY <1>1, <1>2
-----------------------------------------------------------------------------
(* The inductive invariant: types and the flow of a request                *)

PCs == Answers \cup {"idle", "stop", "lookup", "configuration", "configured", "fetch", "fetched",
                     "restore", "ready", "login", "logged", "persist", "harden", "early",
                     "check", "final"}

Globals ==
    /\ irregular \in Irregular
    /\ doc \in Document \cup {None}
    /\ logins \in 0 .. MaxLogins /\ confirmed \in 0 .. MaxLogins
    /\ issued \in BOOLEAN /\ started \in BOOLEAN /\ deleted \in BOOLEAN

\* Only an open request holds the entry that is in sessions_store.
Memory ==
    /\ store \in [Processes -> Entry \cup {None}]
    /\ held \in [Requests -> Entry \cup {None}]
    /\ same \in [Requests -> BOOLEAN]
    /\ \A c \in Requests : same[c] => ~At(c, "idle") /\ held[c] = Mine(c)

Locals ==
    /\ pc \in [Requests -> PCs]
    /\ op \in [Requests -> Operations \cup {"none", "credentials"}]
    /\ on \in [Requests -> Processes \cup {Nowhere}]
    /\ got \in [Requests -> Document \cup {None}]
    /\ login \in [Requests -> 0 .. MaxLogins]
    /\ owed \in [Requests -> BOOLEAN]
    /\ out = [c \in Requests |-> out[c]]
    /\ \A c \in Requests : IsFields(out[c])
    /\ \A c \in Requests : ~At(c, "idle") => on[c] \in Processes

\* What the place of a request says of its locals.
Flow ==
    \A c \in Requests :
        /\ At(c, "idle") => login[c] = NoLogin
        /\ At(c, "stop") => op[c] = "stop"
        /\ pc[c] \in {"login", "logged", "harden"} => op[c] = "totp"
        /\ pc[c] \in {"logged", "harden"} \/ (At(c, "persist") /\ op[c] = "totp") =>
            login[c] # NoLogin
        /\ pc[c] \in {"configuration", "configured"} => held[c] # None
        /\ At(c, "restore") => Stored(got[c])
        /\ login[c] <= logins

TypeInv == Globals /\ Memory /\ Locals /\ Flow

LEMMA TypeInvTypes == TypeInv => TypeOK
  BY DEF TypeInv, TypeOK, Globals, Memory, Locals, IsFields, FieldNames
-----------------------------------------------------------------------------
(* sessions_store                                                          *)

\* Whether an entry is new or put back, all that changes is what c holds and what the store
\* has: another request that holds the entry put back sees it as it was.
Puts(c, e) ==
    /\ store' = [store EXCEPT ![on[c]] = e]
    /\ held' = [held EXCEPT ![c] = e]
    /\ same' \in [Requests -> BOOLEAN]
    /\ \A d \in Requests : same'[d] => \/ d = c
                                       \/ same[d] /\ on[d] # on[c]
                                       \/ ~At(d, "idle") /\ on[d] = on[c] /\ held[d] = e

LEMMA PutsIs ==
    ASSUME Memory, NEW c \in Requests
    PROVE  /\ \A e : Renew(c, e) => Puts(c, e)
           /\ PutBack(c) => Puts(c, held[c])
<1>1. ASSUME NEW e, Renew(c, e) PROVE Puts(c, e)
  <2>1. /\ store' = [store EXCEPT ![on[c]] = e]
        /\ held' = [d \in Requests |-> IF d \in {} \cup {c} THEN e ELSE held[d]]
        /\ same' = [d \in Requests |-> d \in {} \cup {c} \/ (same[d] /\ on[d] # on[c])]
    BY <1>1 DEF Renew, Replace
  <2>2. held' = [held EXCEPT ![c] = e]
    BY <2>1 DEF Memory
  <2>3. same' \in [Requests -> BOOLEAN]
    BY <2>1
  <2>4. \A d \in Requests : same'[d] => d = c \/ (same[d] /\ on[d] # on[c])
    BY <2>1
  <2>5. QED
    BY <2>1, <2>2, <2>3, <2>4 DEF Puts
<1>2. ASSUME PutBack(c) PROVE Puts(c, held[c])
  <2>1. PICK others \in SUBSET Twins(c) : Replace(c, held[c], others)
    BY <1>2 DEF PutBack
  <2>2. /\ store' = [store EXCEPT ![on[c]] = held[c]]
        /\ held' = [d \in Requests |-> IF d \in others \cup {c} THEN held[c] ELSE held[d]]
        /\ same' = [d \in Requests |-> d \in others \cup {c} \/ (same[d] /\ on[d] # on[c])]
    BY <2>1 DEF Replace
  <2>3. \A d \in others : ~At(d, "idle") /\ on[d] = on[c] /\ held[d] = held[c]
    BY DEF Twins
  <2>4. held' = [held EXCEPT ![c] = held[c]]
    BY <2>2, <2>3 DEF Memory
  <2>5. same' \in [Requests -> BOOLEAN]
    BY <2>2
  <2>6. \A d \in Requests : same'[d] => d \in others \/ d = c \/ (same[d] /\ on[d] # on[c])
    BY <2>2
  <2>7. QED
    BY <2>2, <2>3, <2>4, <2>5, <2>6 DEF Puts
<1>3. QED
  BY <1>1, <1>2

Moves(c, e) == Keep \/ Drop(c) \/ Change(c, e) \/ Puts(c, e)

\* Whatever c does to the entries, the requests that hold the one in the store see it.
LEMMA Moved ==
    ASSUME Memory, Locals, NEW c \in Requests, ~At(c, "idle"),
           NEW a, a # "idle", Goto(c, a), UNCHANGED on,
           NEW e \in Entry \cup {None}, Moves(c, e)
    PROVE  Memory'
<1> USE DEF At, Mine, Goto
<1>1. on[c] \in Processes /\ pc' = [pc EXCEPT ![c] = a] /\ \A d \in Requests :
        pc[d] # "idle" => pc'[d] # "idle"
  BY DEF Locals
<1>2. CASE Keep
  BY <1>1, <1>2 DEF Memory, Keep
<1>3. CASE Drop(c)
  BY <1>1, <1>3 DEF Memory, Drop
<1>4. CASE Change(c, e)
  <2>1. /\ store' \in [Processes -> Entry \cup {None}]
        /\ held' \in [Requests -> Entry \cup {None}]
        /\ same' \in [Requests -> BOOLEAN]
    BY <1>1, <1>4 DEF Memory, Change
  <2>2. ASSUME NEW d \in Requests, same'[d] PROVE pc'[d] # "idle" /\ held'[d] = store'[on'[d]]
    <3>1. same[d] /\ pc[d] # "idle" /\ held[d] = store[on[d]] /\ on[d] \in Processes
      BY <1>4, <2>2 DEF Memory, Change, Locals
    <3>2. QED
      BY <1>1, <1>4, <3>1 DEF Change, Memory
  <2>3. QED
    BY <2>1, <2>2 DEF Memory
<1>5. CASE Puts(c, e)
  <2>1. /\ store' \in [Processes -> Entry \cup {None}]
        /\ held' \in [Requests -> Entry \cup {None}]
    BY <1>1, <1>5 DEF Memory, Puts
  <2>2. same' \in [Requests -> BOOLEAN]
    BY <1>5 DEF Memory, Puts
  <2>3. ASSUME NEW d \in Requests, same'[d] PROVE pc'[d] # "idle" /\ held'[d] = store'[on'[d]]
    <3>1. CASE d = c
      BY <1>1, <1>5, <3>1 DEF Puts, Memory, Locals
    <3>2. CASE d # c /\ ~At(d, "idle") /\ on[d] = on[c] /\ held[d] = e
      BY <1>1, <1>5, <3>2 DEF Puts, Memory
    <3>3. CASE d # c /\ same[d] /\ on[d] # on[c]
      <4>1. same[d] /\ on[d] # on[c]
        BY <3>3
      <4>2. pc[d] # "idle" /\ held[d] = store[on[d]] /\ on[d] \in Processes
        BY <4>1 DEF Memory, Locals
      <4>3. QED
        BY <1>1, <1>5, <3>3, <4>1, <4>2 DEF Puts, Memory
    <3>4. QED
      BY <1>5, <2>3, <3>1, <3>2, <3>3 DEF Puts
  <2>4. QED
    BY <2>1, <2>2, <2>3 DEF Memory
<1>6. QED
  BY <1>2, <1>3, <1>4, <1>5 DEF Moves
-----------------------------------------------------------------------------
(* Types and flow are kept                                                 *)

LEMMA WriteTypes ==
    ASSUME Globals, NEW f, IsFields(f), Write(f)
    PROVE  /\ doc' \in Document \cup {None}
           /\ ~May("mongo") => doc' = Over(f, Base(doc)) /\ doc' \in Document
<1>1. Over(f, Base(doc)) \in Document
  BY Written DEF Globals
<1>2. QED
  BY <1>1 DEF Write, Base, Globals

LEMMA FoundTypes ==
    ASSUME NEW d \in Document \cup {None}, NEW x \in Found(d)
    PROVE  /\ x \in Document \cup {None}
           /\ ~May("mongo") => x = d
  BY DEF Found

LEMMA NoFieldsTypes == IsFields(NoFields) /\ DOMAIN NoFields = {}
  BY DEF IsFields, NoFields, FieldNames

LEMMA InitTypeInv == Init => TypeInv
<1> SUFFICES ASSUME Init PROVE TypeInv
  OBVIOUS
<1>1. Globals
  <2>1. issued \in BOOLEAN /\ started \in BOOLEAN /\ deleted \in BOOLEAN
    BY DEF Init
  <2>2. logins \in 0 .. MaxLogins /\ confirmed \in 0 .. MaxLogins
    BY DEF Init, NoLogin, SessionAuthAssumption
  <2>3. QED
    BY <2>1, <2>2 DEF Init, Globals
<1>2. Memory
  BY DEF Init, Memory
<1>3. Locals
  BY NoFieldsTypes DEF Init, Locals, PCs, Answers, Operations, NoLogin, At
<1>4. Flow
  BY DEF Init, Flow, At, NoLogin
<1>5. QED
  BY <1>1, <1>2, <1>3, <1>4 DEF TypeInv

LEMMA BeginTypeInv ==
    ASSUME TypeInv, NEW c \in Requests, NEW p \in Processes, NEW o \in Operations, Begin(c, p, o)
    PROVE  TypeInv'
<1> USE DEF TypeInv, Begin, At, Goto, history
<1>1. Globals'
  BY DEF Globals
<1>2. Memory'
  <2>1. ~same[c]
    BY DEF Memory
  <2>2. \A d \in Requests : same'[d] => d # c /\ pc'[d] = pc[d] /\ on'[d] = on[d]
    BY <2>1 DEF Memory, Locals
  <2>3. QED
    BY <2>2 DEF Memory, Mine
<1>3. Locals'
  <2>1. owed' \in [Requests -> BOOLEAN]
    BY DEF Locals
  <2>2. QED
    BY <2>1 DEF Locals, PCs, Operations
<1>4. Flow'
  BY DEF Flow, Locals
<1>5. QED
  BY <1>1, <1>2, <1>3, <1>4

LEMMA CredentialsTypeInv ==
    ASSUME TypeInv, NEW c \in Requests, NEW p \in Processes, Credentials(c, p)
    PROVE  TypeInv'
<1> DEFINE e == [status |-> "credentials_received", creds |-> TRUE, tok |-> NoLogin,
                 at |-> NoLogin, broker |-> FALSE]
<1>1. e \in Entry /\ IsFields(Payload(e, doc))
  <2>1. e \in Entry
    BY DEF Entry, Statuses, NoLogin
  <2>2. QED
    BY <2>1, PayloadFields DEF TypeInv, Globals
<1>2. /\ store' = [store EXCEPT ![p] = e] /\ out' = [out EXCEPT ![c] = Payload(e, doc)]
  BY DEF Credentials
<1> HIDE DEF e
<1> USE DEF TypeInv, Credentials, At, Goto, history
<1>3. \A d \in Requests : pc[d] = "idle" /\ ~same[d]
  BY DEF Open, Memory
<1>4. Globals'
  BY DEF Globals
<1>5. Memory'
  BY <1>1, <1>2, <1>3 DEF Memory
<1>6. Locals'
  BY <1>1, <1>2 DEF Locals, PCs, Operations
<1>7. Flow'
  BY <1>3 DEF Flow, Locals
<1>8. QED
  BY <1>4, <1>5, <1>6, <1>7

\* Requests are answered, or end with their process.
LEMMA ForgetTypeInv ==
    ASSUME TypeInv, NEW ended, Forget(ended), UNCHANGED <<irregular, doc, logins, history>>,
           \/ UNCHANGED store
           \/ \E p \in Processes :
                store' = [store EXCEPT ![p] = None] /\ ended = {d \in Open : on[d] = p}
    PROVE  TypeInv'
<1> USE DEF TypeInv, At, history
<1>1. Globals'
  BY DEF Globals
<1>2. Memory'
  <2>1. /\ held' \in [Requests -> Entry \cup {None}]
        /\ store' \in [Processes -> Entry \cup {None}]
    BY DEF Forget, Memory
  <2>2. same' \in [Requests -> BOOLEAN]
    BY DEF Forget, Memory
  <2>3. ASSUME NEW d \in Requests, same'[d] PROVE pc'[d] # "idle" /\ held'[d] = store'[on'[d]]
    <3>1. d \notin ended /\ same[d]
      BY <2>3 DEF Forget
    <3>2. pc'[d] = pc[d] /\ held'[d] = held[d] /\ on'[d] = on[d]
      BY <3>1 DEF Forget
    <3>3. pc[d] # "idle" /\ held[d] = store[on[d]] /\ on[d] \in Processes
      BY <3>1 DEF Memory, Locals, Mine
    <3>4. store'[on[d]] = store[on[d]]
      BY <3>1, <3>3 DEF Open, Memory
    <3>5. QED
      BY <3>2, <3>3, <3>4
  <2>4. QED
    BY <2>1, <2>2, <2>3 DEF Memory, Mine
<1>3. Locals'
  <2>1. owed' \in [Requests -> BOOLEAN]
    BY DEF Locals, Forget
  <2>2. out' = [d \in Requests |-> out'[d]] /\ \A d \in Requests : IsFields(out'[d])
    BY NoFieldsTypes DEF Locals, Forget
  <2>3. QED
    BY <2>1, <2>2 DEF Locals, Forget, PCs, NoLogin
<1>4. Flow'
  BY DEF Flow, Locals, Globals, Forget, NoLogin
<1>5. QED
  BY <1>1, <1>2, <1>3, <1>4

\* The entry that Populate may put in the store is the document's.
LEMMA Populated ==
    ASSUME Memory, Locals, NEW c \in Requests, got[c] # None, Populate(c)
    PROVE  \/ Keep /\ held[c] # None /\ (held[c].status = "authenticated" \/ ~Stored(got[c]))
           \/ \E e \in Entry :
                /\ Puts(c, e)
                /\ e.tok = got[c].tok /\ e.at = got[c].at
                /\ Stored(got[c]) => e.status = "authenticated"
<1> DEFINE e == [status |-> IF Stored(got[c]) THEN "authenticated" ELSE got[c].status,
                 creds |-> got[c].creds, tok |-> got[c].tok, at |-> got[c].at, broker |-> FALSE]
<1>1. got[c] \in Document
  BY DEF Locals
<1>2. e \in Entry
  BY <1>1 DEF Document, Entry, Statuses
<1>3. \/ Puts(c, e)
      \/ Keep /\ held[c] # None /\ (held[c].status = "authenticated" \/ ~Stored(got[c]))
  <2>1. Renew(c, e) => Puts(c, e)
    BY PutsIs
  <2> HIDE DEF Puts
  <2>2. QED
    BY <2>1 DEF Populate
<1>4. e.tok = got[c].tok /\ e.at = got[c].at /\ (Stored(got[c]) => e.status = "authenticated")
  OBVIOUS
<1> HIDE DEF e
<1>5. QED
  BY <1>2, <1>3, <1>4

LEMMA RestoredTypes == \A d \in Document : Restored(d) \in Entry
  BY DEF Restored, Document, Entry, Statuses

LEMMA LookupTypeInv ==
    ASSUME TypeInv, NEW c \in Requests, Lookup(c)
    PROVE  TypeInv'
<1> USE DEF TypeInv, Lookup, At, Goto, history, local
<1>1. Globals'
  BY DEF Globals
<1>2. Memory'
  <2>1. Mine(c) \in Entry \cup {None}
    BY DEF Memory, Locals, Mine
  <2>2. held' \in [Requests -> Entry \cup {None}] /\ same' \in [Requests -> BOOLEAN]
    BY <2>1 DEF Memory
  <2>3. \A d \in Requests : same'[d] => d = c \/ same[d]
    BY DEF Memory
  <2>4. \A d \in Requests : same'[d] => pc'[d] # "idle" /\ held'[d] = store'[on'[d]]
    BY <2>3 DEF Memory, Locals, Mine
  <2>5. QED
    BY <2>2, <2>4 DEF Memory, Mine
<1>3. Locals'
  BY DEF Locals, PCs
<1>4. Flow'
  BY DEF Flow, Locals, Memory, Ready
<1>5. QED
  BY <1>1, <1>2, <1>3, <1>4

LEMMA FetchTypeInv ==
    ASSUME TypeInv, NEW c \in Requests, Fetch(c)
    PROVE  TypeInv'
<1> USE DEF TypeInv, Fetch, At, Goto, Reply, history
<1>1. Globals'
  BY DEF Globals
<1>2. Memory'
  <2>1. \A d \in Requests : pc[d] # "idle" => pc'[d] # "idle"
    BY DEF Locals
  <2>2. QED
    BY <2>1 DEF Memory, Mine
<1>3. Locals'
  BY DEF Locals, Globals, PCs, Answers
<1>4. Flow'
  BY DEF Flow, Locals
<1>5. QED
  BY <1>1, <1>2, <1>3, <1>4

\* What get_or_restore_session does to the entries and where it goes.
LEMMA ReturnTypeInv ==
    ASSUME TypeInv, NEW c \in Requests, ~At(c, "idle"),
           NEW e \in Entry \cup {None}, Keep \/ Puts(c, e),
           UNCHANGED <<irregular, doc, logins, history, op, on, out, login, owed>>,
           \/ Return(c)
           \/ Goto(c, "restore") /\ UNCHANGED got /\ Stored(got[c])
    PROVE  TypeInv'
<1> USE DEF TypeInv, At, Goto, Return, history
<1>1. Globals'
  BY DEF Globals
<1>2. Memory'
  BY Moved DEF Moves
<1>3. Locals'
  BY DEF Locals, PCs
<1>4. Flow'
  <2>1. \A d \in Requests : d # c => held'[d] = held[d]
    BY DEF Keep, Puts, Memory
  <2>2. QED
    BY <2>1 DEF Flow, Locals
<1>5. QED
  BY <1>1, <1>2, <1>3, <1>4

LEMMA GetOrRestoreTypeInv ==
    ASSUME TypeInv, NEW c \in Requests, GetOrRestore(c)
    PROVE  TypeInv'
<1>1. held[c] \in Entry \cup {None} /\ got[c] \in Document \cup {None} /\ None \in Entry \cup {None}
  BY DEF TypeInv, Locals, Memory
<1>2. CASE Lookup(c)
  BY <1>2, LookupTypeInv
<1>3. CASE Fetch(c)
  BY <1>3, FetchTypeInv
<1>4. CASE Configured(c)
  <2>1. ~At(c, "idle")
    BY <1>4 DEF Configured, At
  <2>2. QED
    BY <1>1, <1>4, <2>1, PutsIs, ReturnTypeInv DEF Configured, TypeInv
<1>5. CASE Fetched(c)
  <2>1. ~At(c, "idle")
    BY <1>5 DEF Fetched, At
  <2>2. CASE got[c] = None \/ Stored(got[c])
    BY <1>1, <1>5, <2>1, <2>2, ReturnTypeInv DEF Fetched, Stored
  <2>3. CASE got[c] # None /\ ~Stored(got[c])
    <3>1. Return(c) /\ Populate(c)
      BY <1>5, <2>3 DEF Fetched
    <3>2. \E e \in Entry \cup {None} : Keep \/ Puts(c, e)
      BY <1>1, <2>3, <3>1, Populated DEF TypeInv
    <3>3. QED
      BY <1>5, <2>1, <3>1, <3>2, ReturnTypeInv DEF Fetched
  <2>4. QED
    BY <2>2, <2>3
<1>6. CASE Restore(c)
  <2>1. ~At(c, "idle") /\ got[c] # None
    BY <1>6 DEF Restore, At, TypeInv, Flow, Stored
  <2>2. \E e \in Entry \cup {None} : Keep \/ Puts(c, e)
    <3>1. CASE Renew(c, Restored(got[c]))
      BY <1>1, <2>1, <3>1, RestoredTypes, PutsIs DEF TypeInv
    <3>2. CASE Populate(c)
      BY <1>1, <2>1, <3>2, Populated DEF TypeInv
    <3>3. QED
      BY <1>6, <3>1, <3>2 DEF Restore
  <2>3. QED
    BY <1>6, <2>1, <2>2, ReturnTypeInv DEF Restore
<1>7. QED
  BY <1>2, <1>3, <1>4, <1>5, <1>6 DEF GetOrRestore

\* Nobody else loses the entry it holds.
LEMMA HeldKept ==
    ASSUME Memory, NEW c \in Requests, NEW e \in Entry, Moves(c, e)
    PROVE  \A d \in Requests : d # c /\ held[d] # None => held'[d] # None
  BY Absent DEF Memory, Moves, Keep, Drop, Change, Puts

\* A step of an open request that moves on and leaves the entries to Moves.
LEMMA StepTypeInv ==
    ASSUME TypeInv, NEW c \in Requests, ~At(c, "idle"), NEW a \in PCs, a # "idle", Goto(c, a),
           a \notin {"configuration", "configured", "restore", "stop"},
           a \in {"login", "logged", "harden"} => op[c] = "totp",
           a \in {"logged", "harden"} \/ (a = "persist" /\ op[c] = "totp") =>
                login'[c] # NoLogin,
           NEW e \in Entry, Moves(c, e),
           UNCHANGED <<irregular, op, on, got>>,
           Globals', owed' \in [Requests -> BOOLEAN],
           \/ UNCHANGED out
           \/ \E f : IsFields(f) /\ out' = [out EXCEPT ![c] = f],
           \/ UNCHANGED <<login, logins>>
           \/ logins' = logins + 1 /\ login' = [login EXCEPT ![c] = logins + 1]
    PROVE  TypeInv'
<1> USE DEF TypeInv, At, Goto
<1>1. Memory'
  BY Moved
<1>2. /\ login' \in [Requests -> 0 .. MaxLogins]
      /\ \A d \in Requests : login'[d] <= logins' /\ (d # c => login'[d] = login[d])
  BY DEF Locals, Globals, Flow, SessionAuthAssumption
<1>3. out' = [d \in Requests |-> out'[d]] /\ \A d \in Requests : IsFields(out'[d])
  BY DEF Locals
<1>4. Locals'
  <2>1. pc' \in [Requests -> PCs] /\ \A d \in Requests : pc'[d] # "idle" => pc[d] # "idle"
    BY DEF Locals
  <2>2. QED
    BY <1>2, <1>3, <2>1 DEF Locals
<1>5. Flow'
  <2>1. ASSUME NEW d \in Requests, d # c
        PROVE  /\ pc'[d] = pc[d] /\ op'[d] = op[d] /\ login'[d] = login[d] /\ got'[d] = got[d]
               /\ held[d] # None => held'[d] # None
    BY <1>2, <2>1, HeldKept DEF Locals
  <2>2. pc'[c] = a /\ op'[c] = op[c]
    BY DEF Locals
  <2>3. ASSUME NEW d \in Requests
        PROVE  /\ pc'[d] = "idle" => login'[d] = NoLogin
               /\ pc'[d] = "stop" => op'[d] = "stop"
               /\ pc'[d] \in {"login", "logged", "harden"} => op'[d] = "totp"
               /\ pc'[d] \in {"logged", "harden"} \/ (pc'[d] = "persist" /\ op'[d] = "totp") =>
                    login'[d] # NoLogin
               /\ pc'[d] \in {"configuration", "configured"} => held'[d] # None
               /\ pc'[d] = "restore" => Stored(got'[d])
    <3>1. CASE d = c
      BY <2>2, <3>1
    <3>2. CASE d # c
      BY <2>1, <3>2 DEF Flow
    <3>3. QED
      BY <3>1, <3>2
  <2>4. QED
    BY <1>2, <2>3 DEF Flow
<1>6. QED
  BY <1>1, <1>4, <1>5

LEMMA SomeEntry == \E e \in Entry : TRUE
<1>1. [status |-> "none", creds |-> FALSE, tok |-> 0, at |-> 0, broker |-> FALSE] \in Entry
  BY DEF Entry, Statuses, SessionAuthAssumption
<1>2. QED
  BY <1>1

\* Totp, the check of the credentials, and StartCheck, which only drop the entry.
LEMMA DropTypeInv ==
    ASSUME TypeInv, NEW c \in Requests, ~At(c, "idle"), NEW a \in PCs, Goto(c, a),
           a \in {"over", "denied", "nobroker", "login", "final"},
           a = "login" => op[c] = "totp",
           Drop(c), UNCHANGED <<irregular, doc, logins, history, local>>
    PROVE  TypeInv'
<1>1. Globals'
  BY DEF TypeInv, Globals, history
<1>2. owed' \in [Requests -> BOOLEAN] /\ UNCHANGED <<op, on, got, out, login, owed>>
  BY DEF TypeInv, Locals, local
<1>3. QED
  BY <1>1, <1>2, SomeEntry, StepTypeInv DEF Moves

LEMMA AuthenticateTypeInv ==
    ASSUME TypeInv, NEW c \in Requests, Authenticate(c)
    PROVE  TypeInv'
<1>1. CASE Totp(c)
  <2>1. ~At(c, "idle") /\ op[c] = "totp" /\ Drop(c) /\ (Goto(c, "over") \/ Goto(c, "login"))
    BY <1>1 DEF Totp, At, Reply
  <2>2. "over" \in PCs /\ "login" \in PCs
    BY DEF PCs, Answers
  <2>3. QED
    BY <1>1, <2>1, <2>2, DropTypeInv DEF Totp
<1>2. CASE Login(c)
  <2>1. ~At(c, "idle") /\ op[c] = "totp" /\ Keep /\ UNCHANGED <<irregular, op, on, got, out, owed>>
    BY <1>2 DEF Login, At, Keep, TypeInv, Flow
  <2>2. "over" \in PCs /\ "logged" \in PCs
    BY DEF PCs, Answers
  <2>3. Globals' /\ owed' \in [Requests -> BOOLEAN]
    BY <1>2 DEF Login, TypeInv, Globals, Locals, history, SessionAuthAssumption
  <2>4. CASE Goto(c, "over") /\ UNCHANGED <<logins, login>>
    BY <2>1, <2>2, <2>3, <2>4, SomeEntry, StepTypeInv DEF Moves
  <2>5. CASE /\ Goto(c, "logged") /\ logins' = logins + 1
             /\ login' = [login EXCEPT ![c] = logins + 1]
    <3>1. login'[c] # NoLogin
      BY <2>5 DEF TypeInv, Globals, Locals, NoLogin
    <3>2. QED
      BY <2>1, <2>2, <2>3, <2>5, <3>1, SomeEntry, StepTypeInv DEF Moves
  <2>6. QED
    BY <1>2, <2>4, <2>5 DEF Login, Reply
<1>3. CASE Logged(c)
  <2>1. /\ ~At(c, "idle") /\ op[c] = "totp" /\ login[c] # NoLogin /\ on[c] \in Processes
        /\ UNCHANGED <<irregular, op, on, got, login, logins>>
    BY <1>3 DEF Logged, At, TypeInv, Flow, Locals
  <2>2. "over" \in PCs /\ "persist" \in PCs
    BY DEF PCs, Answers
  <2>3. Globals' /\ owed' \in [Requests -> BOOLEAN]
    BY <1>3 DEF Logged, TypeInv, Globals, Locals, history
  <2>4. CASE Mine(c) = None
    <3>1. Goto(c, "over") /\ Keep /\ UNCHANGED out
      BY <1>3, <2>4 DEF Logged, Reply
    <3>2. QED
      BY <2>1, <2>2, <2>3, <3>1, SomeEntry, StepTypeInv DEF Moves
  <2>5. CASE Mine(c) # None
    <3> DEFINE e == [Mine(c) EXCEPT !.status = "authenticated", !.tok = login[c],
                                    !.at = login[c], !.broker = TRUE]
    <3>1. e \in Entry
      <4>1. Mine(c) \in Entry /\ login[c] \in 0 .. MaxLogins
        BY <2>1, <2>5 DEF TypeInv, Memory, Mine, Locals
      <4>2. QED
        BY <4>1 DEF Entry, Statuses
    <3>2. Change(c, e) /\ Goto(c, "persist")
      BY <1>3, <2>5 DEF Logged
    <3>3. \E d \in Found(doc) : out' = [out EXCEPT ![c] = Payload(e, d)]
      BY <1>3, <2>5 DEF Logged
    <3> HIDE DEF e
    <3>4. \E f : IsFields(f) /\ out' = [out EXCEPT ![c] = f]
      BY <3>1, <3>3, FoundTypes, PayloadFields DEF TypeInv, Globals
    <3>5. QED
      BY <2>1, <2>2, <2>3, <3>1, <3>2, <3>4, StepTypeInv DEF Moves
  <2>6. QED
    BY <2>4, <2>5
<1>4. CASE Persist(c)
  <2>1. /\ ~At(c, "idle") /\ Drop(c) /\ UNCHANGED <<irregular, op, on, got, login, logins>>
        /\ op[c] = "totp" => login[c] # NoLogin
    BY <1>4 DEF Persist, At, TypeInv, Flow
  <2>2. "over" \in PCs /\ "harden" \in PCs
    BY DEF PCs, Answers
  <2>3. Globals'
    <3>1. IsFields(out[c]) /\ Write(out[c]) /\ doc' \in Document \cup {None}
      BY <1>4, WriteTypes DEF TypeInv, Locals, Persist
    <3>2. issued' \in BOOLEAN
      BY <1>4 DEF Persist
    <3>3. QED
      BY <1>4, <3>1, <3>2 DEF TypeInv, Globals, Persist
  <2>4. owed' \in [Requests -> BOOLEAN] /\ out' = [out EXCEPT ![c] = NoFields]
    BY <1>4 DEF Persist, TypeInv, Locals
  <2>5. \E f : IsFields(f) /\ out' = [out EXCEPT ![c] = f]
    BY <2>4, NoFieldsTypes
  <2>6. CASE op[c] = "totp" /\ Goto(c, "harden")
    BY <2>1, <2>2, <2>3, <2>4, <2>5, <2>6, SomeEntry, StepTypeInv DEF Moves
  <2>7. CASE Goto(c, "over")
    BY <2>1, <2>2, <2>3, <2>4, <2>5, <2>7, SomeEntry, StepTypeInv DEF Moves
  <2>8. QED
    BY <1>4, <2>6, <2>7 DEF Persist, Reply
<1>5. CASE Harden(c)
  <2> DEFINE f == [status |-> "authenticated", at |-> login[c], tok |-> login[c]]
  <2>1. /\ ~At(c, "idle") /\ Keep /\ UNCHANGED <<irregular, op, on, got, out, login, logins>>
        /\ login[c] \in 1 .. MaxLogins
    BY <1>5 DEF Harden, At, TypeInv, Flow, Keep, Locals, NoLogin
  <2>2. IsFields(f)
    BY <2>1 DEF IsFields, FieldNames, Statuses
  <2>3. Write(f)
    BY <1>5 DEF Harden
  <2> HIDE DEF f
  <2>4. doc' \in Document \cup {None}
    BY <2>2, <2>3, WriteTypes DEF TypeInv
  <2>5. Globals' /\ owed' \in [Requests -> BOOLEAN]
    BY <1>5, <2>1, <2>4 DEF Harden, TypeInv, Globals, Locals
  <2>6. Goto(c, "over") /\ "over" \in PCs
    BY <1>5 DEF Harden, Reply, PCs, Answers
  <2>7. QED
    BY <2>1, <2>5, <2>6, SomeEntry, StepTypeInv DEF Moves
<1>6. QED
  BY <1>1, <1>2, <1>3, <1>4, <1>5 DEF Authenticate

LEMMA StartTypeInv ==
    ASSUME TypeInv, NEW c \in Requests, StartTrading(c)
    PROVE  TypeInv'
<1>1. {"over", "denied", "nobroker", "early", "check", "final"} \subseteq PCs
  BY DEF PCs, Answers
<1>2. CASE Start(c)
  <2>1. /\ ~At(c, "idle") /\ Keep /\ UNCHANGED <<irregular, op, on, got, out, login, logins>>
        /\ Globals' /\ owed' \in [Requests -> BOOLEAN]
    BY <1>2 DEF Start, At, Keep, TypeInv, Globals, Locals, history
  <2>2. Goto(c, "denied") \/ Goto(c, "early")
    BY <1>2 DEF Start, Reply
  <2>3. QED
    BY <1>1, <2>1, <2>2, SomeEntry, StepTypeInv DEF Moves
<1>3. CASE StartPersist(c)
  <2>1. /\ ~At(c, "idle") /\ Keep /\ UNCHANGED <<irregular, op, on, got, out, login, logins>>
        /\ owed' \in [Requests -> BOOLEAN]
    BY <1>3 DEF StartPersist, At, Keep, TypeInv, Locals
  <2>2. Goto(c, "check") \/ Goto(c, "over")
    BY <1>3 DEF StartPersist, Reply
  <2>3. Globals'
    <3>1. doc' \in Document \cup {None}
      BY <1>3, NoFieldsTypes, WriteTypes DEF StartPersist, TypeInv
    <3>2. started' \in BOOLEAN
      BY <1>3 DEF StartPersist, TypeInv, Globals
    <3>3. QED
      BY <1>3, <3>1, <3>2 DEF StartPersist, TypeInv, Globals
  <2>4. QED
    BY <1>1, <2>1, <2>2, <2>3, SomeEntry, StepTypeInv DEF Moves
<1>4. CASE StartCheck(c)
  <2>1. ~At(c, "idle") /\ Drop(c) /\ (Goto(c, "denied") \/ Goto(c, "nobroker") \/ Goto(c, "final"))
    BY <1>4 DEF StartCheck, At, Reply
  <2>2. QED
    BY <1>1, <1>4, <2>1, DropTypeInv DEF StartCheck
<1>5. QED
  BY <1>2, <1>3, <1>4 DEF StartTrading

LEMMA StatusTypes == \A e \in Entry, t \in Statuses : [e EXCEPT !.status = t] \in Entry
  BY DEF Entry

LEMMA StopTypeInv ==
    ASSUME TypeInv, NEW c \in Requests, Stop(c)
    PROVE  TypeInv'
<1>1. /\ ~At(c, "idle") /\ op[c] = "stop" /\ on[c] \in Processes
      /\ UNCHANGED <<irregular, op, on, got, login, logins>>
  BY DEF Stop, At, TypeInv, Flow, Locals
<1>2. "over" \in PCs /\ "persist" \in PCs
  BY DEF PCs, Answers
<1>3. CASE Mine(c) = None
  <2>1. Goto(c, "over") /\ Keep /\ UNCHANGED out
    BY <1>3 DEF Stop, Reply
  <2>2. Globals' /\ owed' \in [Requests -> BOOLEAN]
    BY <1>3 DEF Stop, TypeInv, Globals, Locals, history
  <2>3. QED
    BY <1>1, <1>2, <2>1, <2>2, SomeEntry, StepTypeInv DEF Moves
<1>4. CASE Mine(c) # None
  <2> DEFINE e == [Mine(c) EXCEPT !.status = "stopped"]
  <2>1. e \in Entry
    <3>1. Mine(c) \in Entry
      BY <1>1, <1>4 DEF TypeInv, Memory, Mine
    <3>2. QED
      BY <3>1, StatusTypes DEF Statuses
  <2>2. /\ Change(c, e) /\ Goto(c, "persist") /\ Write(NoFields)
        /\ \E d \in Found(doc') : out' = [out EXCEPT ![c] = Payload(e, d)]
    BY <1>4 DEF Stop
  <2> HIDE DEF e
  <2>3. doc' \in Document \cup {None}
    BY <2>2, NoFieldsTypes, WriteTypes DEF TypeInv
  <2>4. Globals'
    BY <2>3 DEF Stop, TypeInv, Globals, history
  <2>5. owed' \in [Requests -> BOOLEAN]
    BY <1>4 DEF Stop, Excuse, TypeInv, Locals
  <2>6. \E f : IsFields(f) /\ out' = [out EXCEPT ![c] = f]
    BY <2>1, <2>2, <2>3, FoundTypes, PayloadFields
  <2>7. QED
    BY <1>1, <1>2, <2>1, <2>2, <2>4, <2>5, <2>6, StepTypeInv DEF Moves
<1>5. QED
  BY <1>3, <1>4

\* What becomes of the entry when a session is finalized.
LEMMA FinalizedEntry ==
    ASSUME TypeInv, NEW c \in Requests, NEW t \in {"stopped", "authenticated"}, Finalize(c, t)
    PROVE  \/ Keep
           \/ /\ Mine(c) # None /\ [Mine(c) EXCEPT !.status = t] \in Entry
              /\ Change(c, [Mine(c) EXCEPT !.status = t])
           \/ \E e \in Entry : Puts(c, e) /\ (e.at = e.tok \/ (held[c] # None /\ e.at = held[c].at /\ e.tok = held[c].tok))
<1>1. on[c] \in Processes /\ Mine(c) \in Entry \cup {None} /\ held[c] \in Entry \cup {None}
  BY DEF Finalize, At, TypeInv, Locals, Memory, Mine
<1>2. t \in Statuses
  BY DEF Statuses
<1>3. CASE Mine(c) # None
  BY <1>1, <1>2, <1>3, StatusTypes DEF Finalize
<1>4. CASE Mine(c) = None /\ held[c] # None
  <2>1. Puts(c, [held[c] EXCEPT !.status = t])
    BY <1>4, PutsIs DEF Finalize, TypeInv
  <2>2. /\ [held[c] EXCEPT !.status = t] \in Entry
        /\ [held[c] EXCEPT !.status = t].at = held[c].at
        /\ [held[c] EXCEPT !.status = t].tok = held[c].tok
    BY <1>1, <1>2, <1>4 DEF Entry
  <2>3. QED
    BY <1>4, <2>1, <2>2
<1>5. CASE Mine(c) = None /\ held[c] = None /\ t = "stopped"
  <2> DEFINE e == Over([broker |-> FALSE, status |-> "stopped"], Bare)
  <2>1. Puts(c, e)
    BY <1>5, PutsIs DEF Finalize, TypeInv
  <2>2. e = [status |-> "stopped", creds |-> FALSE, tok |-> NoLogin, at |-> NoLogin,
             broker |-> FALSE]
    <3> DEFINE r == [broker |-> FALSE, status |-> "stopped"]
               five == {"status", "creds", "tok", "at", "broker"}
    <3>1. DOMAIN r = {"broker", "status"} /\ DOMAIN Bare = {"status", "creds", "tok", "at"}
      BY DEF Bare
    <3>2. DOMAIN r \cup DOMAIN Bare = five
      BY <3>1
    <3>3. e = [x \in five |-> IF x \in DOMAIN r THEN r[x] ELSE Bare[x]]
      BY <3>2 DEF Over
    <3>4. e = [x \in five |-> IF x = "status" THEN "stopped" ELSE IF x = "broker" THEN FALSE
                              ELSE Bare[x]]
      BY <3>1, <3>3
    <3> HIDE DEF e
    <3>5. QED
      BY <3>4 DEF Bare
  <2>3. e \in Entry /\ e.at = e.tok
    <3>1. NoLogin \in 0 .. MaxLogins
      BY DEF NoLogin, SessionAuthAssumption
    <3> HIDE DEF e
    <3>2. QED
      BY <2>2, <3>1 DEF Entry, Statuses
  <2>4. QED
    BY <2>1, <2>3
<1>6. CASE Mine(c) = None /\ held[c] = None /\ t # "stopped"
  BY <1>6 DEF Finalize
<1>7. QED
  BY <1>3, <1>4, <1>5, <1>6

LEMMA FinalizeTypeInv ==
    ASSUME TypeInv, NEW c \in Requests, NEW t \in {"stopped", "authenticated"}, Finalize(c, t)
    PROVE  TypeInv'
<1>1. /\ ~At(c, "idle") /\ op[c] = "finalize" /\ Goto(c, "persist")
      /\ UNCHANGED <<irregular, op, on, got, login, logins>>
  BY DEF Finalize, At
<1>2. "persist" \in PCs
  BY DEF PCs
<1>3. Globals' /\ owed' \in [Requests -> BOOLEAN]
  <2>1. confirmed' \in 0 .. MaxLogins
    BY DEF Finalize, TypeInv, Globals, NoLogin, SessionAuthAssumption
  <2>2. owed' \in [Requests -> BOOLEAN]
    BY DEF Finalize, TypeInv, Locals
  <2>3. UNCHANGED <<irregular, doc, logins, issued, started, deleted>>
    BY DEF Finalize
  <2>4. QED
    BY <2>1, <2>2, <2>3 DEF TypeInv, Globals
<1>4. IsFields([status |-> t]) /\ out' = [out EXCEPT ![c] = [status |-> t]]
  BY DEF Finalize, IsFields, FieldNames, Statuses
<1>5. \E e \in Entry : Moves(c, e)
  BY FinalizedEntry, SomeEntry DEF Moves
<1>6. QED
  BY <1>1, <1>2, <1>3, <1>4, <1>5, StepTypeInv

LEMMA MarkStoppedTypeInv ==
    ASSUME TypeInv, MarkStopped
    PROVE  TypeInv'
<1> USE DEF TypeInv, MarkStopped, history, local
<1>1. Globals'
  BY DEF Globals, Document, Statuses
<1>2. Memory' /\ Locals' /\ Flow'
  BY DEF Memory, Locals, Flow, Mine, At
<1>3. QED
  BY <1>1, <1>2

LEMMA DeleteTypeInv ==
    ASSUME TypeInv, NEW p \in Processes, Delete(p)
    PROVE  TypeInv'
<1> USE DEF TypeInv, Delete, At
<1>1. Globals'
  BY DEF Globals
<1>2. Memory'
  <2>1. same' \in [Requests -> BOOLEAN]
    BY DEF Memory
  <2>2. ASSUME NEW d \in Requests, same'[d] PROVE pc'[d] # "idle" /\ held'[d] = store'[on'[d]]
    <3>1. same[d] /\ on[d] # p
      BY <2>2
    <3>2. pc[d] # "idle" /\ held[d] = store[on[d]] /\ on[d] \in Processes
      BY <3>1 DEF Memory, Locals, Mine
    <3>3. QED
      BY <3>1, <3>2 DEF Memory
  <2>3. QED
    BY <2>1, <2>2 DEF Memory, Mine
<1>3. Locals' /\ Flow'
  BY DEF Locals, Flow
<1>4. QED
  BY <1>1, <1>2, <1>3

LEMMA NextTypeInv ==
    ASSUME TypeInv, [Next]_vars
    PROVE  TypeInv'
<1>1. ASSUME NEW c \in Requests, Done(c) PROVE TypeInv'
  BY <1>1, ForgetTypeInv DEF Done
<1>2. ASSUME NEW p \in Processes, Crash(p) PROVE TypeInv'
  BY <1>2, ForgetTypeInv DEF Crash
<1>3. CASE UNCHANGED vars
  BY <1>3 DEF vars, history, local, TypeInv, Globals, Memory, Locals, Flow, Mine, At
<1>4. CASE Next
  BY <1>1, <1>2, <1>4, BeginTypeInv, CredentialsTypeInv, GetOrRestoreTypeInv,
     AuthenticateTypeInv, StartTypeInv, StopTypeInv, FinalizeTypeInv, MarkStoppedTypeInv,
     DeleteTypeInv DEF Next
<1>5. QED
  BY <1>3, <1>4
-----------------------------------------------------------------------------
(* The inductive invariant: what the document and the requests know        *)

\* Once the client has its id the document has the credentials, and once it has been
\* told of a login the document has that.
Kept ==
    /\ \A c \in Requests :
        /\ At(c, "idle") \/ issued \/ (At(c, "persist") /\ op[c] = "credentials")
        /\ At(c, "persist") /\ op[c] = "credentials" => "creds" \in DOMAIN out[c]
    /\ confirmed # NoLogin => issued
    /\ issued /\ ~deleted /\ ~May("mongo") => doc # None /\ doc.creds
    /\ confirmed # NoLogin /\ ~deleted /\ ~May("mongo") =>
        doc.tok # NoLogin /\ doc.at # NoLogin

\* A token and its time are never parted, in an entry, a document or what is written.
PairedEntry(e) == e # None => e.at = e.tok

PairedFields(f) ==
    /\ "tok" \in DOMAIN f <=> "at" \in DOMAIN f
    /\ "tok" \in DOMAIN f => f["tok"] = f["at"]

Paired ==
    /\ PairedEntry(doc)
    /\ \A p \in Processes : PairedEntry(store[p])
    /\ \A c \in Requests :
        PairedEntry(held[c]) /\ PairedEntry(got[c]) /\ PairedFields(out[c])

\* One request at a time, and what it is about to write is no older than the login that
\* the client has been told of.
Newest ==
    /\ confirmed <= logins
    /\ ~May("overlap") =>
        /\ \A c, d \in Requests : ~At(c, "idle") /\ ~At(d, "idle") => c = d
        /\ \A c \in Requests : login[c] # NoLogin => login[c] = logins
    /\ ~deleted /\ ~May("overlap") /\ ~May("mongo") =>
        /\ doc # None => doc.tok >= confirmed
        /\ \A c \in Requests : At(c, "persist") /\ "tok" \in DOMAIN out[c] =>
            out[c]["tok"] >= confirmed

\* An entry that start_trading lets pass.
Good(e) ==
    /\ e # None /\ e.status = "authenticated"
    /\ May("broker") \/ (e.broker /\ e.tok # NoLogin)

\* How far a start that is owed an answer has come.
OnItsWay(c) ==
    /\ ~At(c, "denied")
    /\ At(c, "nobroker") => May("broker")
    /\ pc[c] \in {"configuration", "configured"} => Good(held[c]) /\ Mine(c) # None
    /\ pc[c] \in {"fetch", "fetched", "restore"} /\ held[c] # None => Mine(c) # None
    /\ pc[c] \in {"fetched", "restore"} => Stored(got[c])
    /\ pc[c] \in {"ready", "early", "check"} => Good(held[c])
    /\ At(c, "ready") => Mine(c) # None

Served ==
    \A c \in Requests : owed[c] /\ ~May("mongo") =>
        confirmed # NoLogin /\ ~deleted /\ OnItsWay(c)

AuthInv == TypeInv /\ Kept /\ Paired /\ Newest /\ Served
-----------------------------------------------------------------------------
(* Tokens and their times                                                  *)

LEMMA PairedWrite ==
    ASSUME TypeInv, Paired, NEW f, IsFields(f), PairedFields(f), Write(f)
    PROVE  PairedEntry(doc')
<1>1. Base(doc).at = Base(doc).tok
  BY DEF Paired, PairedEntry, Base, Bare
<1>2. CASE doc' = Over(f, Base(doc))
  BY <1>1, <1>2, Written DEF PairedFields, PairedEntry, TypeInv, Globals
<1>3. QED
  BY <1>2 DEF Write, Base, Paired

LEMMA PairedPayload ==
    ASSUME NEW e \in Entry, NEW d \in Document \cup {None}, PairedEntry(e), PairedEntry(d)
    PROVE  PairedFields(Payload(e, d)) /\ IsFields(Payload(e, d))
<1>1. e.at = e.tok
  BY Absent DEF PairedEntry
<1>2. KeepsAuth(e, d) => d # None /\ d.tok # NoLogin /\ d.at = d.tok
  BY DEF KeepsAuth, PairedEntry
<1>3. QED
  BY <1>1, <1>2, PayloadFields DEF PairedFields

LEMMA PairedNothing == PairedEntry(None) /\ PairedFields(NoFields)
  BY NoFieldsTypes DEF PairedEntry, PairedFields

\* A step keeps the pairs when what it puts somewhere is paired.
LEMMA StepPaired ==
    ASSUME TypeInv, Paired, NEW c \in Requests, PairedEntry(doc'),
           NEW e, PairedEntry(e), Moves(c, e),
           \/ UNCHANGED got
           \/ \E x : PairedEntry(x) /\ got' = [got EXCEPT ![c] = x],
           \/ UNCHANGED out
           \/ \E f : PairedFields(f) /\ out' = [out EXCEPT ![c] = f]
    PROVE  Paired'
<1>1. \A p \in Processes : PairedEntry(store'[p])
  BY DEF Moves, Keep, Drop, Change, Puts, TypeInv, Memory, Paired
<1>2. ASSUME NEW d \in Requests PROVE PairedEntry(held'[d])
  BY PairedNothing DEF Moves, Keep, Drop, Change, Puts, TypeInv, Memory, Paired
<1>3. ASSUME NEW d \in Requests PROVE PairedEntry(got'[d])
  BY DEF Paired, TypeInv, Locals
<1>4. ASSUME NEW d \in Requests PROVE PairedFields(out'[d])
  <2>1. CASE UNCHANGED out
    BY <2>1 DEF Paired
  <2>2. ASSUME NEW f, PairedFields(f), out' = [out EXCEPT ![c] = f] PROVE PairedFields(out'[d])
    <3>1. out'[d] = f \/ out'[d] = out[d]
      BY <2>2 DEF TypeInv, Locals
    <3>2. QED
      BY <2>2, <3>1 DEF Paired
  <2>3. QED
    BY <2>1, <2>2
<1>5. QED
  BY <1>1, <1>2, <1>3, <1>4 DEF Paired

LEMMA GetOrRestorePaired ==
    ASSUME TypeInv, Paired, NEW c \in Requests, GetOrRestore(c)
    PROVE  Paired'
<1>1. /\ PairedEntry(doc) /\ PairedEntry(held[c]) /\ PairedEntry(got[c])
      /\ got[c] \in Document \cup {None}
  BY DEF Paired, TypeInv, Locals
<1>2. CASE Lookup(c)
  <2>1. PairedEntry(Mine(c))
    BY <1>2 DEF Lookup, At, Paired, TypeInv, Locals, Mine
  <2>2. QED
    BY <1>2, <2>1 DEF Lookup, Paired, TypeInv, Memory, history, local
<1>3. CASE Fetch(c)
  <2>1. got' = got \/ got' = [got EXCEPT ![c] = doc]
    BY <1>3 DEF Fetch
  <2>2. Keep /\ UNCHANGED <<doc, out>>
    BY <1>3 DEF Fetch, Keep
  <2>3. QED
    BY <1>1, <2>1, <2>2, StepPaired DEF Moves
<1>4. ASSUME got[c] # None, Populate(c)
      PROVE  \E e : PairedEntry(e) /\ Moves(c, e)
  <2>1. got[c].at = got[c].tok
    BY <1>1, <1>4 DEF PairedEntry
  <2>2. QED
    BY <1>4, <2>1, Populated, PairedNothing DEF TypeInv, Moves, PairedEntry
<1>5. ASSUME NEW e, PairedEntry(e), Moves(c, e),
             UNCHANGED <<doc, out>>, Return(c) \/ UNCHANGED got
      PROVE  Paired'
  <2>1. PairedEntry(doc') /\ (UNCHANGED got \/ got' = [got EXCEPT ![c] = None])
    BY <1>1, <1>5 DEF Return
  <2>2. QED
    BY <1>5, <2>1, PairedNothing, StepPaired
<1>6. CASE Configured(c)
  <2>1. Keep \/ Puts(c, held[c])
    BY <1>6, PutsIs DEF Configured, TypeInv
  <2>2. UNCHANGED <<doc, out>> /\ Return(c)
    BY <1>6 DEF Configured
  <2>3. QED
    BY <1>1, <1>5, <2>1, <2>2 DEF Moves
<1>7. CASE Fetched(c)
  <2>1. UNCHANGED <<doc, out>> /\ (Return(c) \/ UNCHANGED got)
    BY <1>7 DEF Fetched
  <2>2. Keep \/ (got[c] # None /\ Populate(c))
    BY <1>7 DEF Fetched
  <2>3. QED
    BY <1>4, <1>5, <2>1, <2>2, PairedNothing DEF Moves
<1>8. CASE Restore(c)
  <2>1. got[c] # None
    BY <1>8 DEF Restore, TypeInv, Flow, Stored
  <2>2. PairedEntry(Restored(got[c]))
    BY <1>1, <2>1 DEF Restored, PairedEntry
  <2>3. UNCHANGED <<doc, out>> /\ Return(c)
    BY <1>8 DEF Restore
  <2>4. Puts(c, Restored(got[c])) \/ Populate(c)
    BY <1>8, PutsIs DEF Restore, TypeInv
  <2>5. QED
    BY <1>4, <1>5, <2>1, <2>2, <2>3, <2>4 DEF Moves
<1>9. QED
  BY <1>2, <1>3, <1>6, <1>7, <1>8 DEF GetOrRestore

\* What is written for an entry after reading the document, or nothing.
LEMMA PairedSnapshot ==
    ASSUME NEW c \in Requests, NEW e \in Entry, PairedEntry(e),
           NEW x \in Document \cup {None}, PairedEntry(x),
           \E d \in Found(x) : out' = [out EXCEPT ![c] = Payload(e, d)]
    PROVE  \E f : PairedFields(f) /\ out' = [out EXCEPT ![c] = f]
<1>1. PICK d \in Found(x) : out' = [out EXCEPT ![c] = Payload(e, d)]
  OBVIOUS
<1>2. d \in Document \cup {None} /\ PairedEntry(d)
  BY PairedNothing DEF Found
<1>3. QED
  BY <1>1, <1>2, PairedPayload

LEMMA AuthenticatePaired ==
    ASSUME TypeInv, Paired, NEW c \in Requests, Authenticate(c)
    PROVE  Paired'
<1>1. PairedEntry(doc) /\ doc \in Document \cup {None}
  BY DEF Paired, TypeInv, Globals
<1>2. CASE Totp(c) \/ Login(c)
  <2>1. Drop(c) \/ Keep
    BY <1>2 DEF Totp, Login, Keep
  <2>2. UNCHANGED <<doc, got, out>>
    BY <1>2 DEF Totp, Login, local
  <2>3. QED
    BY <1>1, <2>1, <2>2, PairedNothing, StepPaired DEF Moves
<1>3. CASE Logged(c)
  <2>1. UNCHANGED <<doc, got>>
    BY <1>3 DEF Logged
  <2>2. CASE Mine(c) = None
    <3>1. Keep /\ UNCHANGED out
      BY <1>3, <2>2 DEF Logged
    <3>2. QED
      BY <1>1, <2>1, <3>1, PairedNothing, StepPaired DEF Moves
  <2>3. CASE Mine(c) # None
    <3> DEFINE e == [Mine(c) EXCEPT !.status = "authenticated", !.tok = login[c],
                                    !.at = login[c], !.broker = TRUE]
    <3>1. Mine(c) \in Entry /\ login[c] \in 0 .. MaxLogins
      BY <1>3, <2>3 DEF Logged, At, TypeInv, Locals, Memory, Mine
    <3>2. e \in Entry /\ e.at = e.tok
      BY <3>1 DEF Entry, Statuses
    <3>3. Change(c, e) /\ \E d \in Found(doc) : out' = [out EXCEPT ![c] = Payload(e, d)]
      BY <1>3, <2>3 DEF Logged
    <3> HIDE DEF e
    <3>4. PairedEntry(e)
      BY <3>2 DEF PairedEntry
    <3>5. QED
      BY <1>1, <2>1, <3>2, <3>3, <3>4, PairedSnapshot, StepPaired DEF Moves
  <2>4. QED
    BY <2>2, <2>3
<1>4. CASE Persist(c)
  <2>1. IsFields(out[c]) /\ PairedFields(out[c]) /\ Write(out[c])
    BY <1>4 DEF Persist, TypeInv, Locals, Paired
  <2>2. Drop(c) /\ UNCHANGED got /\ out' = [out EXCEPT ![c] = NoFields]
    BY <1>4 DEF Persist
  <2>3. QED
    BY <2>1, <2>2, PairedWrite, PairedNothing, StepPaired DEF Moves
<1>5. CASE Harden(c)
  <2> DEFINE f == [status |-> "authenticated", at |-> login[c], tok |-> login[c]]
  <2>1. login[c] \in 1 .. MaxLogins
    BY <1>5 DEF Harden, At, TypeInv, Flow, Locals, NoLogin
  <2>2. IsFields(f) /\ PairedFields(f) /\ Write(f)
    BY <1>5, <2>1 DEF Harden, IsFields, FieldNames, Statuses, PairedFields
  <2> HIDE DEF f
  <2>3. Keep /\ UNCHANGED <<got, out>>
    BY <1>5 DEF Harden, Keep
  <2>4. QED
    BY <2>2, <2>3, PairedWrite, PairedNothing, StepPaired DEF Moves
<1>6. QED
  BY <1>2, <1>3, <1>4, <1>5 DEF Authenticate

LEMMA StartPaired ==
    ASSUME TypeInv, Paired, NEW c \in Requests, StartTrading(c)
    PROVE  Paired'
<1>1. UNCHANGED <<got, out>> /\ (Keep \/ Drop(c))
  BY DEF StartTrading, Start, StartPersist, StartCheck, Keep, local
<1>2. UNCHANGED doc \/ Write(NoFields)
  BY DEF StartTrading, Start, StartPersist, StartCheck
<1>3. PairedEntry(doc')
  BY <1>2, NoFieldsTypes, PairedNothing, PairedWrite DEF Paired
<1>4. QED
  BY <1>1, <1>3, PairedNothing, StepPaired DEF Moves

LEMMA StopPaired ==
    ASSUME TypeInv, Paired, NEW c \in Requests, Stop(c)
    PROVE  Paired'
<1>1. UNCHANGED got
  BY DEF Stop
<1>2. CASE Mine(c) = None
  <2>1. Keep /\ UNCHANGED <<doc, out>>
    BY <1>2 DEF Stop
  <2>2. QED
    BY <1>1, <2>1, PairedNothing, StepPaired DEF Moves, Paired
<1>3. CASE Mine(c) # None
  <2> DEFINE e == [Mine(c) EXCEPT !.status = "stopped"]
  <2>1. Mine(c) \in Entry /\ Mine(c).at = Mine(c).tok
    BY <1>3 DEF Stop, At, TypeInv, Locals, Memory, Mine, Paired, PairedEntry
  <2>2. e \in Entry /\ e.at = e.tok
    BY <2>1 DEF Entry, Statuses
  <2>3. /\ Change(c, e) /\ Write(NoFields)
        /\ \E d \in Found(doc') : out' = [out EXCEPT ![c] = Payload(e, d)]
    BY <1>3 DEF Stop
  <2> HIDE DEF e
  <2>4. PairedEntry(e) /\ PairedEntry(doc') /\ doc' \in Document \cup {None}
    BY <2>2, <2>3, NoFieldsTypes, PairedNothing, PairedWrite, WriteTypes DEF PairedEntry, TypeInv
  <2>5. QED
    BY <1>1, <2>2, <2>3, <2>4, PairedSnapshot, StepPaired DEF Moves
<1>4. QED
  BY <1>2, <1>3

LEMMA FinalizePaired ==
    ASSUME TypeInv, Paired, NEW c \in Requests, NEW t \in {"stopped", "authenticated"},
           Finalize(c, t)
    PROVE  Paired'
<1>1. PairedEntry(doc') /\ UNCHANGED got /\ out' = [out EXCEPT ![c] = [status |-> t]]
  BY DEF Finalize, Paired
<1>2. PairedFields([status |-> t])
  BY DEF PairedFields
<1>3. \E e : PairedEntry(e) /\ Moves(c, e)
  <2>1. CASE Keep
    BY <2>1, PairedNothing DEF Moves
  <2>2. CASE Mine(c) # None /\ Change(c, [Mine(c) EXCEPT !.status = t])
    <3>1. Mine(c) \in Entry /\ Mine(c).at = Mine(c).tok
      BY <2>2 DEF Finalize, At, TypeInv, Locals, Memory, Mine, Paired, PairedEntry
    <3>2. PairedEntry([Mine(c) EXCEPT !.status = t])
      BY <3>1 DEF Entry, PairedEntry
    <3>3. QED
      BY <2>2, <3>2 DEF Moves
  <2>3. ASSUME NEW e \in Entry, Puts(c, e),
               \/ e.at = e.tok
               \/ held[c] # None /\ e.at = held[c].at /\ e.tok = held[c].tok
        PROVE  PairedEntry(e) /\ Moves(c, e)
    BY <2>3 DEF Paired, PairedEntry, Moves
  <2>4. QED
    BY <2>1, <2>2, <2>3, FinalizedEntry
<1>4. QED
  BY <1>1, <1>2, <1>3, StepPaired

LEMMA NextPaired ==
    ASSUME TypeInv, Paired, [Next]_vars
    PROVE  Paired'
<1>1. ASSUME NEW c \in Requests, NEW p \in Processes, NEW o \in Operations, Begin(c, p, o)
      PROVE  Paired'
  BY <1>1 DEF Begin, Paired
<1>2. ASSUME NEW c \in Requests, NEW p \in Processes, Credentials(c, p) PROVE Paired'
  <2> DEFINE e == [status |-> "credentials_received", creds |-> TRUE, tok |-> NoLogin,
                   at |-> NoLogin, broker |-> FALSE]
  <2>1. e \in Entry /\ PairedEntry(e)
    BY DEF Entry, Statuses, NoLogin, SessionAuthAssumption, PairedEntry
  <2>2. /\ store' = [store EXCEPT ![p] = e] /\ out' = [out EXCEPT ![c] = Payload(e, doc)]
        /\ UNCHANGED <<doc, held, got>>
    BY <1>2 DEF Credentials
  <2> HIDE DEF e
  <2>3. PairedFields(Payload(e, doc))
    BY <2>1, PairedPayload DEF TypeInv, Globals, Paired
  <2>4. \A q \in Processes : PairedEntry(store'[q])
    BY <2>1, <2>2 DEF TypeInv, Memory, Paired
  <2>5. \A d \in Requests : PairedFields(out'[d])
    BY <2>2, <2>3 DEF TypeInv, Locals, Paired
  <2>6. QED
    BY <2>2, <2>4, <2>5 DEF Paired
<1>3. ASSUME NEW ended, Forget(ended), UNCHANGED doc,
             \/ UNCHANGED store
             \/ \E p \in Processes : store' = [store EXCEPT ![p] = None]
      PROVE  Paired'
  <2>1. \A p \in Processes : PairedEntry(store'[p])
    BY <1>3, PairedNothing DEF TypeInv, Memory, Paired
  <2>2. \A d \in Requests : /\ PairedEntry(held'[d]) /\ PairedEntry(got'[d])
                            /\ PairedFields(out'[d])
    BY <1>3, PairedNothing DEF Forget, Paired
  <2>3. QED
    BY <1>3, <2>1, <2>2 DEF Paired
<1>4. CASE MarkStopped
  <2>1. PairedEntry(doc')
    BY <1>4 DEF MarkStopped, TypeInv, Globals, Document, Paired, PairedEntry
  <2>2. QED
    BY <1>4, <2>1 DEF MarkStopped, local, Paired
<1>5. ASSUME NEW p \in Processes, Delete(p) PROVE Paired'
  BY <1>5, PairedNothing DEF Delete, TypeInv, Memory, Paired
<1>6. ASSUME NEW p \in Processes, Crash(p) PROVE Paired'
  BY <1>3, <1>6 DEF Crash
<1>7. ASSUME NEW c \in Requests, Done(c) PROVE Paired'
  BY <1>3, <1>7 DEF Done
<1>8. CASE UNCHANGED vars
  BY <1>8 DEF vars, local, Paired
<1>9. CASE Next
  BY <1>1, <1>2, <1>4, <1>5, <1>6, <1>7, <1>9, GetOrRestorePaired, AuthenticatePaired,
     StartPaired, StopPaired, FinalizePaired DEF Next
<1>10. QED
  BY <1>8, <1>9
-----------------------------------------------------------------------------
(* What the client has been told is in the document                        *)

\* The document loses nothing but its status.
KeepsLogin ==
    doc # None =>
        /\ doc' # None
        /\ doc.creds => doc'.creds
        /\ doc.tok # NoLogin => doc'.tok # NoLogin
        /\ doc.at # NoLogin => doc'.at # NoLogin

LEMMA WriteKeeps ==
    ASSUME TypeInv, NEW f, IsFields(f), Write(f)
    PROVE  KeepsLogin
<1>1. CASE UNCHANGED doc
  BY <1>1 DEF KeepsLogin
<1>2. CASE doc' = Over(f, Base(doc)) /\ doc # None
  <2>1. /\ doc' \in Document /\ Base(doc) = doc
        /\ doc'.creds <=> "creds" \in DOMAIN f \/ doc.creds
        /\ doc'.tok = IF "tok" \in DOMAIN f THEN f["tok"] ELSE doc.tok
        /\ doc'.at = IF "at" \in DOMAIN f THEN f["at"] ELSE doc.at
    BY <1>2, Written DEF TypeInv, Globals, Base
  <2>2. QED
    BY <2>1, Absent DEF KeepsLogin, IsFields, NoLogin
<1>3. QED
  BY <1>1, <1>2 DEF Write, Base, KeepsLogin

LEMMA OpenIssued ==
    ASSUME Kept, NEW c \in Requests, ~At(c, "idle"), ~At(c, "persist")
    PROVE  issued
  BY DEF Kept, At

\* A step of a request that tells its client nothing.
LEMMA StepKept ==
    ASSUME TypeInv, Kept, NEW c \in Requests, NEW a, Goto(c, a), issued,
           UNCHANGED <<irregular, issued, deleted, op>>,
           confirmed' \in {confirmed, NoLogin}, KeepsLogin,
           UNCHANGED out \/ (\E f : out' = [out EXCEPT ![c] = f]),
           a = "persist" => op[c] # "credentials"
    PROVE  Kept'
<1> USE DEF At
<1>1. ASSUME NEW d \in Requests, pc'[d] = "persist", op'[d] = "credentials"
      PROVE  "creds" \in DOMAIN out'[d]
  <2>1. d # c
    BY <1>1 DEF Goto, TypeInv, Locals
  <2>2. pc[d] = "persist" /\ op[d] = "credentials" /\ out'[d] = out[d]
    BY <1>1, <2>1 DEF Goto, TypeInv, Locals
  <2>3. QED
    BY <2>2 DEF Kept
<1>2. confirmed' # NoLogin => issued'
  OBVIOUS
<1>3. issued' /\ ~deleted' /\ ~May("mongo")' => doc' # None /\ doc'.creds
  BY DEF Kept, KeepsLogin, May
<1>4. confirmed' # NoLogin /\ ~deleted' /\ ~May("mongo")' =>
        doc'.tok # NoLogin /\ doc'.at # NoLogin
  BY DEF Kept, KeepsLogin, May
<1>5. QED
  BY <1>1, <1>2, <1>3, <1>4 DEF Kept

LEMMA GetOrRestoreKept ==
    ASSUME TypeInv, Kept, NEW c \in Requests, GetOrRestore(c)
    PROVE  Kept'
<1> DEFINE quiet == UNCHANGED <<irregular, issued, deleted, op, confirmed, out, doc>>
<1>1. quiet
  BY DEF GetOrRestore, Lookup, Fetch, Configured, Fetched, Restore, history, local
<1>2. issued
  BY OpenIssued DEF GetOrRestore, Lookup, Fetch, Configured, Fetched, Restore, At
<1>3. \E a : Goto(c, a) /\ a # "persist"
  <2>1. \/ Goto(c, "ready") \/ Goto(c, "configuration") \/ Goto(c, "fetch")
        \/ Goto(c, "fetched") \/ Goto(c, "configured") \/ Goto(c, "over") \/ Goto(c, "restore")
    BY DEF GetOrRestore, Lookup, Fetch, Configured, Fetched, Restore, Return, Reply
  <2>2. QED
    BY <2>1
<1>4. KeepsLogin
  BY <1>1 DEF KeepsLogin
<1>5. QED
  BY <1>1, <1>2, <1>3, <1>4, StepKept

LEMMA AuthenticateKept ==
    ASSUME TypeInv, Kept, NEW c \in Requests, Authenticate(c)
    PROVE  Kept'
<1>1. CASE Totp(c) \/ Login(c) \/ Logged(c)
  <2>1. UNCHANGED <<irregular, issued, deleted, op, confirmed, doc>>
    BY <1>1 DEF Totp, Login, Logged, history, local
  <2>2. issued /\ (At(c, "logged") => op[c] = "totp")
    BY <1>1, OpenIssued DEF Totp, Login, Logged, At, TypeInv, Flow
  <2>3. \E a : Goto(c, a) /\ (a = "persist" => op[c] # "credentials")
    <3>1. \/ Goto(c, "over") \/ Goto(c, "login") \/ Goto(c, "logged")
          \/ Goto(c, "persist") /\ op[c] = "totp"
      BY <1>1, <2>2 DEF Totp, Login, Logged, Reply, At
    <3>2. QED
      BY <3>1
  <2>4. UNCHANGED out \/ (\E f : out' = [out EXCEPT ![c] = f])
    BY <1>1 DEF Totp, Login, Logged, local
  <2>5. KeepsLogin
    BY <2>1 DEF KeepsLogin
  <2>6. QED
    BY <2>1, <2>2, <2>3, <2>4, <2>5, StepKept
<1>2. CASE Persist(c)
  <2>1. /\ UNCHANGED <<irregular, deleted, op, confirmed>>
        /\ IsFields(out[c]) /\ Write(out[c]) /\ At(c, "persist")
        /\ issued' = (issued \/ op[c] = "credentials")
        /\ out' = [out EXCEPT ![c] = NoFields]
        /\ \E a : Goto(c, a) /\ a # "persist"
    BY <1>2 DEF Persist, TypeInv, Locals, Reply
  <2>2. KeepsLogin
    BY <2>1, WriteKeeps
  <2>3. CASE issued
    <3>1. UNCHANGED issued
      BY <2>1, <2>3 DEF TypeInv, Globals
    <3>2. QED
      BY <2>1, <2>2, <2>3, <3>1, StepKept
  <2>4. CASE ~issued
    <3>1. op[c] = "credentials" /\ "creds" \in DOMAIN out[c] /\ issued'
      BY <2>1, <2>4 DEF Kept, At
    <3>2. confirmed' = NoLogin
      BY <2>1, <2>4 DEF Kept
    <3>3. ~May("mongo") => doc' # None /\ doc'.creds
      BY <2>1, <3>1, Absent, Written, WriteTypes DEF TypeInv, Globals
    <3>4. ASSUME NEW d \in Requests, pc'[d] = "persist", op'[d] = "credentials"
          PROVE  "creds" \in DOMAIN out'[d]
      <4>1. d # c
        BY <2>1, <3>4 DEF Goto, TypeInv, Locals
      <4>2. pc[d] = "persist" /\ op[d] = "credentials" /\ out'[d] = out[d]
        BY <2>1, <3>4, <4>1 DEF Goto, TypeInv, Locals
      <4>3. QED
        BY <4>2 DEF Kept, At
    <3>5. QED
      BY <2>1, <3>1, <3>2, <3>3, <3>4 DEF Kept, At, May
  <2>5. QED
    BY <2>3, <2>4
<1>3. CASE Harden(c)
  <2> DEFINE f == [status |-> "authenticated", at |-> login[c], tok |-> login[c]]
  <2>1. /\ UNCHANGED <<irregular, issued, deleted, op, out>> /\ Goto(c, "over")
        /\ issued /\ confirmed' = login[c]
    BY <1>3, OpenIssued DEF Harden, Reply, At
  <2>2. login[c] \in 1 .. MaxLogins
    BY <1>3 DEF Harden, At, TypeInv, Flow, Locals, NoLogin
  <2>3. IsFields(f) /\ Write(f) /\ "tok" \in DOMAIN f /\ "at" \in DOMAIN f
        /\ f["tok"] = login[c] /\ f["at"] = login[c]
    BY <1>3, <2>2 DEF Harden, IsFields, FieldNames, Statuses
  <2> HIDE DEF f
  <2>4. KeepsLogin
    BY <2>3, WriteKeeps
  <2>5. ~May("mongo") => doc'.tok # NoLogin /\ doc'.at # NoLogin
    BY <2>2, <2>3, Written, WriteTypes DEF TypeInv, Globals, NoLogin
  <2>6. issued' /\ ~deleted' /\ ~May("mongo")' => doc' # None /\ doc'.creds
    BY <2>1, <2>4 DEF Kept, KeepsLogin, May
  <2>7. ASSUME NEW d \in Requests, pc'[d] = "persist", op'[d] = "credentials"
        PROVE  "creds" \in DOMAIN out'[d]
    <3>1. d # c
      BY <2>1, <2>7 DEF Goto, TypeInv, Locals
    <3>2. pc[d] = "persist" /\ op[d] = "credentials" /\ out'[d] = out[d]
      BY <2>1, <2>7, <3>1 DEF Goto, TypeInv, Locals
    <3>3. QED
      BY <3>2 DEF Kept, At
  <2>8. QED
    BY <2>1, <2>5, <2>6, <2>7 DEF Kept, At, May
<1>4. QED
  BY <1>1, <1>2, <1>3 DEF Authenticate

LEMMA StartStopKept ==
    ASSUME TypeInv, Kept, NEW c \in Requests,
           \/ StartTrading(c)
           \/ Stop(c)
           \/ \E t \in {"stopped", "authenticated"} : Finalize(c, t)
    PROVE  Kept'
<1>1. issued
  BY OpenIssued DEF StartTrading, Start, StartPersist, StartCheck, Stop, Finalize, At
<1>2. UNCHANGED <<irregular, issued, deleted, op>> /\ confirmed' \in {confirmed, NoLogin}
  BY DEF StartTrading, Start, StartPersist, StartCheck, Stop, Finalize, history, local
<1>3. UNCHANGED doc \/ Write(NoFields)
  BY DEF StartTrading, Start, StartPersist, StartCheck, Stop, Finalize
<1>4. KeepsLogin
  BY <1>3, NoFieldsTypes, WriteKeeps DEF KeepsLogin
<1>5. UNCHANGED out \/ (\E f : out' = [out EXCEPT ![c] = f])
  BY DEF StartTrading, Start, StartPersist, StartCheck, Stop, Finalize, local
<1>6. \E a : Goto(c, a) /\ (a = "persist" => op[c] # "credentials")
  <2>1. \/ Goto(c, "denied") \/ Goto(c, "early") \/ Goto(c, "check") \/ Goto(c, "over")
        \/ Goto(c, "nobroker") \/ Goto(c, "final")
        \/ Goto(c, "persist") /\ op[c] \in {"stop", "finalize"}
    BY DEF StartTrading, Start, StartPersist, StartCheck, Stop, Finalize, Reply, TypeInv, Flow
  <2>2. QED
    BY <2>1
<1>7. QED
  BY <1>1, <1>2, <1>4, <1>5, <1>6, StepKept

LEMMA NextKept ==
    ASSUME TypeInv, Kept, [Next]_vars
    PROVE  Kept'
<1> USE DEF At, May
<1>1. ASSUME NEW c \in Requests, NEW p \in Processes, NEW o \in Operations, Begin(c, p, o)
      PROVE  Kept'
  <2>1. /\ UNCHANGED <<irregular, doc, issued, confirmed, deleted, out>> /\ issued
        /\ \A d \in Requests : pc'[d] = "persist" => pc[d] = "persist" /\ op'[d] = op[d]
    BY <1>1 DEF Begin, Goto, history, TypeInv, Locals
  <2>2. QED
    BY <2>1 DEF Kept
<1>2. ASSUME NEW c \in Requests, NEW p \in Processes, Credentials(c, p) PROVE Kept'
  <2> DEFINE e == [status |-> "credentials_received", creds |-> TRUE, tok |-> NoLogin,
                   at |-> NoLogin, broker |-> FALSE]
  <2>1. e \in Entry /\ e.creds
    BY DEF Entry, Statuses, NoLogin, SessionAuthAssumption
  <2>2. /\ ~issued /\ \A d \in Requests : pc[d] = "idle"
        /\ out' = [out EXCEPT ![c] = Payload(e, doc)] /\ Goto(c, "persist")
        /\ op' = [op EXCEPT ![c] = "credentials"]
        /\ UNCHANGED <<irregular, doc, issued, confirmed, deleted>>
    BY <1>2 DEF Credentials, Open, history
  <2> HIDE DEF e
  <2>3. "creds" \in DOMAIN Payload(e, doc)
    BY <2>1, PayloadFields DEF TypeInv, Globals
  <2>4. ASSUME NEW d \in Requests
        PROVE  /\ pc'[d] = "idle" \/ (pc'[d] = "persist" /\ op'[d] = "credentials")
               /\ pc'[d] = "persist" => "creds" \in DOMAIN out'[d]
    BY <2>2, <2>3 DEF Goto, TypeInv, Locals
  <2>5. QED
    BY <2>2, <2>4 DEF Kept
<1>3. ASSUME NEW ended, Forget(ended), UNCHANGED <<irregular, doc, logins, history>>
      PROVE  Kept'
  <2>1. ASSUME NEW d \in Requests
        PROVE  \/ pc'[d] = "idle"
               \/ pc'[d] = pc[d] /\ op'[d] = op[d] /\ out'[d] = out[d]
    BY <1>3 DEF Forget
  <2>2. QED
    BY <1>3, <2>1 DEF Kept, history
<1>4. CASE MarkStopped
  <2>1. doc' # None /\ doc'.creds = doc.creds /\ doc'.tok = doc.tok /\ doc'.at = doc.at
    BY <1>4, Absent DEF MarkStopped, TypeInv, Globals, Document, Statuses
  <2>2. QED
    BY <1>4, <2>1 DEF MarkStopped, local, history, Kept
<1>5. ASSUME NEW p \in Processes, Delete(p) PROVE Kept'
  BY <1>5 DEF Delete, Kept
<1>6. CASE UNCHANGED vars
  BY <1>6 DEF vars, local, history, Kept
<1>7. CASE Next
  <2>1. ASSUME NEW c \in Requests, Done(c) PROVE Kept'
    BY <1>3, <2>1 DEF Done
  <2>2. ASSUME NEW p \in Processes, Crash(p) PROVE Kept'
    BY <1>3, <2>2 DEF Crash
  <2>3. QED
    BY <1>1, <1>2, <1>4, <1>5, <1>7, <2>1, <2>2, GetOrRestoreKept, AuthenticateKept,
       StartStopKept DEF Next
<1>8. QED
  BY <1>6, <1>7
-----------------------------------------------------------------------------
(* Nothing older than the newest login is written                          *)

\* One request at a time in a run whose irregularities Newest is about.
Serial == ~deleted /\ ~May("overlap") /\ ~May("mongo")

LEMMA StepNewest ==
    ASSUME TypeInv, Newest, NEW c \in Requests, ~At(c, "idle"), NEW a, a # "idle", Goto(c, a),
           UNCHANGED <<irregular, deleted>>,
           \/ UNCHANGED <<login, logins>>
           \/ logins' = logins + 1 /\ login' = [login EXCEPT ![c] = logins + 1],
           confirmed' \in {confirmed, login[c], NoLogin},
           Serial => /\ doc' # None => doc'.tok >= confirmed'
                     /\ a = "persist" /\ "tok" \in DOMAIN out'[c] => out'[c]["tok"] >= confirmed'
    PROVE  Newest'
<1> USE DEF At, May
<1>1. /\ pc'[c] = a /\ \A d \in Requests : d # c => pc'[d] = pc[d]
      /\ logins \in Nat /\ confirmed \in Nat /\ \A d \in Requests : login[d] \in Nat
  BY DEF Goto, TypeInv, Locals, Globals, SessionAuthAssumption
<1>2. confirmed' <= logins'
  <2>1. login[c] <= logins /\ confirmed <= logins /\ logins <= logins'
    BY <1>1 DEF TypeInv, Flow, Newest
  <2>2. login[c] \in Nat /\ logins' \in Nat
    BY <1>1
  <2>3. QED
    BY <1>1, <2>1, <2>2 DEF NoLogin
<1>3. ASSUME "overlap" \notin irregular'
      PROVE  /\ \A d, x \in Requests : pc'[d] # "idle" /\ pc'[x] # "idle" => d = x
             /\ \A d \in Requests : login'[d] # NoLogin => login'[d] = logins'
  <2>1. \A d \in Requests : d # c => pc[d] = "idle" /\ login[d] = NoLogin
    BY <1>3 DEF Newest, TypeInv, Flow
  <2>2. \A d, x \in Requests : pc'[d] # "idle" /\ pc'[x] # "idle" => d = x
    BY <1>1, <2>1
  <2>3. \A d \in Requests : login[d] # NoLogin => login[d] = logins
    BY <1>3 DEF Newest
  <2>4. ASSUME NEW d \in Requests, login'[d] # NoLogin PROVE login'[d] = logins'
    BY <2>1, <2>3, <2>4 DEF TypeInv, Locals
  <2>5. QED
    BY <2>2, <2>4
<1>4. ASSUME Serial'
      PROVE  /\ doc' # None => doc'.tok >= confirmed'
             /\ \A d \in Requests : pc'[d] = "persist" /\ "tok" \in DOMAIN out'[d] =>
                    out'[d]["tok"] >= confirmed'
  <2>1. Serial
    BY <1>4 DEF Serial
  <2>2. \A d \in Requests : pc'[d] # "idle" => d = c
    BY <1>1, <1>3, <1>4 DEF Serial
  <2>3. QED
    BY <1>1, <2>1, <2>2
<1>5. QED
  BY <1>2, <1>3, <1>4 DEF Newest, Serial

\* A step that neither changes the document's token nor prepares one.
LEMMA QuietNewest ==
    ASSUME TypeInv, Kept, Newest, NEW c \in Requests, ~At(c, "idle"), NEW a, a # "idle", Goto(c, a),
           UNCHANGED <<irregular, deleted, login, logins>>,
           confirmed' \in {confirmed, NoLogin},
           UNCHANGED doc \/ Write(NoFields),
           a = "persist" => "tok" \notin DOMAIN out'[c]
    PROVE  Newest'
<1>1. doc \in Document \cup {None} /\ confirmed \in Nat
  BY DEF TypeInv, Globals, SessionAuthAssumption
<1>2. Serial /\ doc' # None => doc'.tok >= confirmed'
  <2> SUFFICES ASSUME Serial, doc' # None PROVE doc'.tok >= confirmed'
    OBVIOUS
  <2>1. confirmed' <= confirmed /\ confirmed' \in Nat
    BY <1>1 DEF NoLogin
  <2>2. doc # None => doc.tok >= confirmed /\ doc.tok \in Nat
    BY <1>1, Absent DEF Serial, Newest, Document, SessionAuthAssumption
  <2>3. CASE UNCHANGED doc
    BY <1>1, <2>1, <2>2, <2>3
  <2>4. CASE Write(NoFields) /\ doc # None
    <3>1. doc' = doc \/ doc'.tok = doc.tok
      BY <1>1, <2>4, NoFieldsTypes, Written DEF Write, Base
    <3>2. QED
      BY <1>1, <2>1, <2>2, <2>4, <3>1
  <2>5. CASE Write(NoFields) /\ doc = None
    <3>1. confirmed = NoLogin
      BY <2>5 DEF Kept, Serial
    <3>2. doc' = None \/ doc'.tok = Base(doc).tok
      BY <1>1, <2>5, NoFieldsTypes, Written DEF Write, Base
    <3>3. Base(doc).tok = NoLogin
      BY <2>5 DEF Base, Bare
    <3>4. QED
      BY <2>1, <3>1, <3>2, <3>3 DEF NoLogin
  <2>6. QED
    BY <2>3, <2>4, <2>5
<1>3. QED
  BY <1>2, StepNewest

LEMMA GetOrRestoreNewest ==
    ASSUME TypeInv, Kept, Newest, NEW c \in Requests, GetOrRestore(c)
    PROVE  Newest'
<1>1. /\ ~At(c, "idle")
      /\ UNCHANGED <<irregular, deleted, login, logins, confirmed, doc>>
  BY DEF GetOrRestore, Lookup, Fetch, Configured, Fetched, Restore, At, history, local
<1>2. \E a : a \notin {"idle", "persist"} /\ Goto(c, a)
  <2>1. \/ Goto(c, "ready") \/ Goto(c, "configuration") \/ Goto(c, "fetch")
        \/ Goto(c, "fetched") \/ Goto(c, "configured") \/ Goto(c, "over") \/ Goto(c, "restore")
    BY DEF GetOrRestore, Lookup, Fetch, Configured, Fetched, Restore, Return, Reply
  <2>2. QED
    BY <2>1
<1>3. QED
  BY <1>1, <1>2, QuietNewest

LEMMA AuthenticateNewest ==
    ASSUME TypeInv, Kept, Newest, NEW c \in Requests, Authenticate(c)
    PROVE  Newest'
<1> USE DEF SessionAuthAssumption
<1>1. doc \in Document \cup {None} /\ confirmed \in Nat /\ login[c] \in Nat
  BY DEF TypeInv, Globals, Locals
<1>2. doc # None => doc.tok \in Nat
  BY <1>1, Absent DEF Document
<1>3. CASE Totp(c)
  <2>1. /\ ~At(c, "idle") /\ UNCHANGED <<irregular, deleted, login, logins, confirmed, doc>>
        /\ Goto(c, "over") \/ Goto(c, "login")
    BY <1>3 DEF Totp, At, history, local, Reply
  <2>2. QED
    BY <2>1, QuietNewest
<1>4. CASE Login(c)
  <2>1. /\ ~At(c, "idle") /\ UNCHANGED <<irregular, deleted, confirmed, doc>>
        /\ Goto(c, "over") \/ Goto(c, "logged")
        /\ \/ UNCHANGED <<login, logins>>
           \/ logins' = logins + 1 /\ login' = [login EXCEPT ![c] = logins + 1]
    BY <1>4 DEF Login, At, history, Reply
  <2>2. Serial /\ doc' # None => doc'.tok >= confirmed'
    BY <2>1 DEF Newest, Serial
  <2>3. QED
    BY <2>1, <2>2, StepNewest
<1>5. CASE Logged(c)
  <2>1. ~At(c, "idle") /\ UNCHANGED <<irregular, deleted, login, logins, confirmed, doc>>
    BY <1>5 DEF Logged, At, history
  <2>2. CASE Mine(c) = None
    <3>1. Goto(c, "over")
      BY <1>5, <2>2 DEF Logged, Reply
    <3>2. QED
      BY <2>1, <3>1, QuietNewest
  <2>3. CASE Mine(c) # None
    <3> DEFINE e == [Mine(c) EXCEPT !.status = "authenticated", !.tok = login[c],
                                    !.at = login[c], !.broker = TRUE]
    <3>1. Mine(c) \in Entry /\ login[c] \in 0 .. MaxLogins
      BY <1>5, <2>3 DEF Logged, At, TypeInv, Locals, Memory, Mine
    <3>2. e \in Entry /\ e.tok = login[c] /\ e.status = "authenticated"
      BY <3>1 DEF Entry, Statuses
    <3>3. Goto(c, "persist") /\ \E d \in Found(doc) : out' = [out EXCEPT ![c] = Payload(e, d)]
      BY <1>5, <2>3 DEF Logged
    <3> HIDE DEF e
    <3>4. PICK d \in Found(doc) : out' = [out EXCEPT ![c] = Payload(e, d)]
      BY <3>3
    <3>5. out'[c] = Payload(e, d) /\ d \in Document \cup {None} /\ ~KeepsAuth(e, d)
      BY <1>1, <3>2, <3>4, FoundTypes DEF KeepsAuth, TypeInv, Locals
    <3>6. "tok" \in DOMAIN out'[c] => out'[c]["tok"] = login[c]
      BY <3>2, <3>5, PayloadFields
    <3>7. login[c] # NoLogin /\ login[c] <= logins /\ confirmed <= logins
      BY <1>5 DEF Logged, At, TypeInv, Flow, Newest
    <3>8. Serial => login[c] = logins
      BY <3>7 DEF Serial, Newest
    <3>9. Serial => /\ doc' # None => doc'.tok >= confirmed'
                    /\ "tok" \in DOMAIN out'[c] => out'[c]["tok"] >= confirmed'
      BY <1>1, <2>1, <3>6, <3>7, <3>8 DEF Newest, Serial
    <3>10. QED
      BY <2>1, <3>3, <3>9, StepNewest
  <2>4. QED
    BY <2>2, <2>3
<1>6. CASE Persist(c)
  <2>1. /\ ~At(c, "idle") /\ UNCHANGED <<irregular, deleted, login, logins, confirmed>>
        /\ Goto(c, "harden") \/ Goto(c, "over")
        /\ IsFields(out[c]) /\ Write(out[c]) /\ At(c, "persist")
    BY <1>6 DEF Persist, At, Reply, TypeInv, Locals
  <2>2. ASSUME Serial, doc' # None PROVE doc'.tok >= confirmed'
    <3>1. doc' = Over(out[c], Base(doc))
      BY <2>1, <2>2, WriteTypes DEF Serial, TypeInv
    <3>2. CASE "tok" \in DOMAIN out[c]
      <4>1. doc'.tok = out[c]["tok"]
        BY <1>1, <2>1, <3>1, <3>2, Written
      <4>2. out[c]["tok"] >= confirmed
        BY <2>1, <2>2, <3>2 DEF Newest, Serial
      <4>3. QED
        BY <2>1, <4>1, <4>2
    <3>3. CASE "tok" \notin DOMAIN out[c]
      <4>1. doc'.tok = Base(doc).tok
        BY <1>1, <2>1, <3>1, <3>3, Written
      <4>2. CASE doc # None
        BY <2>1, <2>2, <4>1, <4>2 DEF Base, Newest, Serial
      <4>3. CASE doc = None
        <5>1. confirmed = NoLogin /\ doc'.tok = NoLogin
          BY <2>2, <4>1, <4>3 DEF Kept, Serial, Base, Bare
        <5>2. QED
          BY <2>1, <5>1 DEF NoLogin
      <4>4. QED
        BY <4>2, <4>3
    <3>4. QED
      BY <3>2, <3>3
  <2>3. QED
    BY <2>1, <2>2, StepNewest
<1>7. CASE Harden(c)
  <2> DEFINE f == [status |-> "authenticated", at |-> login[c], tok |-> login[c]]
  <2>1. /\ ~At(c, "idle") /\ UNCHANGED <<irregular, deleted, login, logins>>
        /\ Goto(c, "over") /\ confirmed' = login[c]
    BY <1>7 DEF Harden, Reply, At
  <2>2. login[c] \in 1 .. MaxLogins
    BY <1>7 DEF Harden, At, TypeInv, Flow, Locals, NoLogin
  <2>3. IsFields(f) /\ Write(f) /\ "tok" \in DOMAIN f /\ f["tok"] = login[c]
    BY <1>7, <2>2 DEF Harden, IsFields, FieldNames, Statuses
  <2> HIDE DEF f
  <2>4. Serial => doc'.tok = login[c]
    BY <1>1, <2>3, Written, WriteTypes DEF TypeInv, Serial
  <2>5. Serial /\ doc' # None => doc'.tok >= confirmed'
    BY <1>1, <2>1, <2>4
  <2>6. QED
    BY <2>1, <2>5, StepNewest
<1>8. QED
  BY <1>3, <1>4, <1>5, <1>6, <1>7 DEF Authenticate

LEMMA StopNewest ==
    ASSUME TypeInv, Kept, Paired, Newest, NEW c \in Requests, Stop(c)
    PROVE  Newest'
<1>1. /\ ~At(c, "idle") /\ ~At(c, "persist")
      /\ UNCHANGED <<irregular, deleted, issued, login, logins, confirmed>>
  BY DEF Stop, At, history
<1>2. CASE Mine(c) = None
  <2>1. Goto(c, "over") /\ UNCHANGED doc
    BY <1>2 DEF Stop, Reply
  <2>2. QED
    BY <1>1, <2>1, QuietNewest
<1>3. CASE Mine(c) # None
  <2> DEFINE e == [Mine(c) EXCEPT !.status = "stopped"]
  <2>1. Mine(c) \in Entry
    BY <1>3 DEF Stop, At, TypeInv, Locals, Memory, Mine
  <2>2. e \in Entry /\ e.status = "stopped"
    BY <2>1 DEF Entry, Statuses
  <2>3. /\ Goto(c, "persist") /\ Write(NoFields)
        /\ \E d \in Found(doc') : out' = [out EXCEPT ![c] = Payload(e, d)]
    BY <1>3 DEF Stop
  <2> HIDE DEF e
  <2>4. ASSUME Serial
        PROVE  /\ doc' # None => doc'.tok >= confirmed'
               /\ "tok" \in DOMAIN out'[c] => out'[c]["tok"] >= confirmed'
    <3>1. doc # None /\ doc \in Document /\ doc.tok >= confirmed /\ doc.at = doc.tok
      BY <1>1, <2>4, OpenIssued DEF Kept, Serial, Newest, Paired, PairedEntry, TypeInv, Globals
    <3>2. /\ doc' = Over(NoFields, doc) /\ doc' \in Document
          /\ out'[c] = Payload(e, doc')
      BY <2>3, <2>4, <3>1, NoFieldsTypes, WriteTypes DEF Serial, Base, TypeInv, Found, May, Locals
    <3>3. doc'.tok = doc.tok /\ doc'.at = doc.at
      BY <3>1, <3>2, NoFieldsTypes, Written DEF Base
    <3>4. doc'.tok >= confirmed /\ doc'.tok \in Nat /\ confirmed \in Nat
      BY <3>1, <3>2, <3>3 DEF Document, TypeInv, Globals, SessionAuthAssumption
    <3>5. CASE KeepsAuth(e, doc')
      BY <1>1, <2>2, <3>2, <3>4, <3>5, PayloadFields
    <3>6. CASE ~KeepsAuth(e, doc')
      <4>1. doc'.tok = NoLogin
        BY <2>2, <3>1, <3>2, <3>3, <3>6, Absent DEF KeepsAuth
      <4>2. confirmed = NoLogin
        BY <3>4, <4>1 DEF NoLogin
      <4>3. IsFields(out'[c])
        BY <2>2, <3>2, PayloadFields
      <4>4. "tok" \in DOMAIN out'[c] => out'[c]["tok"] \in 1 .. MaxLogins
        BY <4>3 DEF IsFields
      <4>5. QED
        BY <1>1, <3>4, <4>2, <4>4 DEF NoLogin, SessionAuthAssumption
    <3>7. QED
      BY <3>5, <3>6
  <2>5. QED
    BY <1>1, <2>3, <2>4, StepNewest
<1>4. QED
  BY <1>2, <1>3

LEMMA NextNewest ==
    ASSUME TypeInv, Kept, Paired, Newest, [Next]_vars
    PROVE  Newest'
<1> USE DEF At, May
<1>1. ASSUME NEW c \in Requests, NEW p \in Processes, NEW o \in Operations, Begin(c, p, o)
      PROVE  Newest'
  <2>1. /\ UNCHANGED <<irregular, doc, confirmed, deleted, out, login, logins>>
        /\ \A d \in Requests : d # c => pc'[d] = pc[d]
        /\ pc'[c] # "persist"
        /\ "overlap" \notin irregular => \A d \in Requests : pc[d] = "idle"
    BY <1>1 DEF Begin, Goto, history, TypeInv, Locals, Open
  <2>2. "overlap" \notin irregular' => \A d, x \in Requests :
            pc'[d] # "idle" /\ pc'[x] # "idle" => d = x
    BY <2>1
  <2>3. \A d \in Requests : pc'[d] = "persist" => pc[d] = "persist"
    BY <2>1
  <2>4. QED
    BY <2>1, <2>2, <2>3 DEF Newest
<1>2. ASSUME NEW c \in Requests, NEW p \in Processes, Credentials(c, p) PROVE Newest'
  <2> DEFINE e == [status |-> "credentials_received", creds |-> TRUE, tok |-> NoLogin,
                   at |-> NoLogin, broker |-> FALSE]
  <2>1. e \in Entry
    BY DEF Entry, Statuses, NoLogin, SessionAuthAssumption
  <2>2. /\ ~issued /\ \A d \in Requests : pc[d] = "idle"
        /\ out' = [out EXCEPT ![c] = Payload(e, doc)] /\ Goto(c, "persist")
        /\ UNCHANGED <<irregular, doc, confirmed, deleted, login, logins>>
    BY <1>2 DEF Credentials, Open, history
  <2> HIDE DEF e
  <2>3. confirmed = NoLogin
    BY <2>2 DEF Kept
  <2>4. \A d \in Requests : d # c => pc'[d] = "idle"
    BY <2>2 DEF Goto, TypeInv, Locals
  <2>5. "tok" \in DOMAIN out'[c] => out'[c]["tok"] \in 1 .. MaxLogins
    <3>1. IsFields(out'[c])
      BY <2>1, <2>2, PayloadFields DEF TypeInv, Globals, Locals
    <3>2. QED
      BY <3>1 DEF IsFields
  <2>6. "tok" \in DOMAIN out'[c] => out'[c]["tok"] >= confirmed'
    BY <2>2, <2>3, <2>5 DEF NoLogin, SessionAuthAssumption
  <2>7. QED
    BY <2>2, <2>4, <2>6 DEF Newest
<1>3. ASSUME NEW ended, Forget(ended), UNCHANGED <<irregular, doc, logins, history>>
      PROVE  Newest'
  <2>1. ASSUME NEW d \in Requests
        PROVE  \/ pc'[d] = "idle" /\ login'[d] = NoLogin
               \/ pc'[d] = pc[d] /\ login'[d] = login[d] /\ out'[d] = out[d]
    BY <1>3 DEF Forget
  <2>2. QED
    BY <1>3, <2>1 DEF Newest, history
<1>4. CASE MarkStopped
  <2>1. doc'.tok = doc.tok /\ doc # None
    BY <1>4, Absent DEF MarkStopped, TypeInv, Globals, Document, Statuses
  <2>2. QED
    BY <1>4, <2>1 DEF MarkStopped, local, history, Newest
<1>5. ASSUME NEW p \in Processes, Delete(p) PROVE Newest'
  BY <1>5 DEF Delete, Newest
<1>6. CASE UNCHANGED vars
  BY <1>6 DEF vars, local, history, Newest
<1>7. ASSUME NEW c \in Requests, StartTrading(c) PROVE Newest'
  <2>1. /\ ~At(c, "idle") /\ UNCHANGED <<irregular, deleted, login, logins, confirmed>>
        /\ UNCHANGED doc \/ Write(NoFields)
    BY <1>7 DEF StartTrading, Start, StartPersist, StartCheck, history, local
  <2>2. \/ Goto(c, "denied") \/ Goto(c, "early") \/ Goto(c, "check") \/ Goto(c, "over")
        \/ Goto(c, "nobroker") \/ Goto(c, "final")
    BY <1>7 DEF StartTrading, Start, StartPersist, StartCheck, Reply
  <2>3. QED
    BY <2>1, <2>2, QuietNewest
<1>8. ASSUME NEW c \in Requests, NEW t \in {"stopped", "authenticated"}, Finalize(c, t)
      PROVE  Newest'
  <2>1. /\ ~At(c, "idle") /\ UNCHANGED <<irregular, deleted, login, logins, doc>>
        /\ confirmed' \in {confirmed, NoLogin} /\ Goto(c, "persist")
        /\ out'[c] = [status |-> t]
    BY <1>8 DEF Finalize, TypeInv, Locals
  <2>2. QED
    BY <2>1, QuietNewest
<1>9. CASE Next
  <2>1. ASSUME NEW c \in Requests, Done(c) PROVE Newest'
    BY <1>3, <2>1 DEF Done
  <2>2. ASSUME NEW p \in Processes, Crash(p) PROVE Newest'
    BY <1>3, <2>2 DEF Crash
  <2>3. QED
    BY <1>1, <1>2, <1>4, <1>5, <1>7, <1>8, <1>9, <2>1, <2>2, GetOrRestoreNewest,
       AuthenticateNewest, StopNewest DEF Next
<1>10. QED
  BY <1>6, <1>9
-----------------------------------------------------------------------------
(* A start that is owed an answer gets it                                  *)

\* What a request does to the entries leaves the starts of others on their way.
LEMMA OthersOnTheirWay ==
    ASSUME TypeInv, NEW c \in Requests, NEW d \in Requests, d # c, ~At(c, "idle"), ~At(d, "idle"),
           OnItsWay(d), NEW e \in Entry,
           \/ Keep \/ Drop(c) \/ Puts(c, e)
           \/ Change(c, e) /\ (on[d] = on[c] /\ Good(Mine(c)) => Good(e)),
           UNCHANGED irregular, NEW a, Goto(c, a), on' = on,
           UNCHANGED got \/ (\E x : got' = [got EXCEPT ![c] = x])
    PROVE  OnItsWay(d)'
<1> USE DEF At, May
<1>1. pc'[d] = pc[d] /\ got'[d] = got[d] /\ on[d] \in Processes /\ on[c] \in Processes
  BY DEF Goto, TypeInv, Locals
<1>2. Mine(d) # None => store'[on[d]] # None
  BY <1>1, Absent DEF Keep, Drop, Change, Puts, TypeInv, Memory, Mine
<1>3. \/ held'[d] = held[d]
      \/ /\ Change(c, e) /\ on[d] = on[c] /\ same[d] /\ held'[d] = e
         /\ Good(Mine(c)) => Good(e)
  BY DEF Keep, Drop, Change, Puts, TypeInv, Memory
<1>4. Good(held[d]) => Good(held'[d])
  <2>1. same[d] /\ on[d] = on[c] => held[d] = Mine(c)
    BY DEF TypeInv, Memory, Mine
  <2>2. QED
    BY <1>3, <2>1
<1>5. held'[d] # held[d] => store'[on[d]] # None
  BY <1>1, <1>3, Absent DEF Change, TypeInv, Memory
<1>6. QED
  BY <1>1, <1>2, <1>4, <1>5 DEF OnItsWay, Good, Mine

LEMMA StepServed ==
    ASSUME TypeInv, Served, NEW c \in Requests, ~At(c, "idle"), NEW e \in Entry,
           \/ Keep \/ Drop(c) \/ Puts(c, e)
           \/ /\ Change(c, e)
              /\ \A d \in Requests : owed'[d] /\ on[d] = on[c] /\ Good(Mine(c)) => Good(e),
           UNCHANGED <<irregular, on, deleted>>, NEW a, Goto(c, a),
           UNCHANGED got \/ (\E x : got' = [got EXCEPT ![c] = x]),
           \A d \in Requests : owed'[d] => owed[d] /\ (confirmed # NoLogin => confirmed' # NoLogin),
           owed'[c] /\ ~May("mongo") => OnItsWay(c)'
    PROVE  Served'
<1> SUFFICES ASSUME NEW d \in Requests, owed'[d], ~May("mongo")'
             PROVE  confirmed' # NoLogin /\ ~deleted' /\ OnItsWay(d)'
  BY DEF Served
<1>1. owed[d] /\ ~May("mongo") /\ confirmed' # NoLogin /\ ~deleted' /\ OnItsWay(d)
  BY DEF Served, May
<1>2. CASE d = c
  BY <1>1, <1>2
<1>3. CASE d # c /\ At(d, "idle")
  <2>1. pc'[d] = "idle"
    BY <1>3 DEF Goto, TypeInv, Locals, At
  <2>2. QED
    BY <1>1, <2>1 DEF OnItsWay, At
<1>4. CASE d # c /\ ~At(d, "idle")
  <2>1. \/ Keep \/ Drop(c) \/ Puts(c, e)
        \/ Change(c, e) /\ (on[d] = on[c] /\ Good(Mine(c)) => Good(e))
    OBVIOUS
  <2>2. UNCHANGED irregular /\ on' = on
    OBVIOUS
  <2>3. QED
    BY <1>1, <1>4, <2>1, <2>2, OthersOnTheirWay
<1>5. QED
  BY <1>2, <1>3, <1>4

\* A confirmed login is in the document of a start that is owed an answer.
LEMMA OwedStored ==
    ASSUME TypeInv, Kept, Served, NEW c \in Requests, owed[c], ~May("mongo")
    PROVE  Stored(doc) /\ OnItsWay(c)
  BY DEF Served, Kept, Stored

LEMMA LookupServed ==
    ASSUME TypeInv, Served, NEW c \in Requests, Lookup(c)
    PROVE  Served'
<1> USE DEF At, Goto, May
<1>1. /\ UNCHANGED <<irregular, store, confirmed, deleted, got, on, owed>>
      /\ held' = [held EXCEPT ![c] = Mine(c)]
      /\ IF Ready(Mine(c)) THEN Goto(c, "ready") \/ Goto(c, "configuration") ELSE Goto(c, "fetch")
  BY DEF Lookup, history, local
<1>2. ASSUME NEW d \in Requests, d # c PROVE OnItsWay(d) => OnItsWay(d)'
  <2>1. pc'[d] = pc[d] /\ held'[d] = held[d]
    BY <1>1, <1>2 DEF TypeInv, Locals, Memory
  <2>2. QED
    BY <1>1, <2>1 DEF OnItsWay, Good, Mine
<1>3. OnItsWay(c)'
  <2>1. held'[c] = Mine(c) /\ Mine(c)' = Mine(c) /\ got' = got
    BY <1>1 DEF TypeInv, Memory, Mine
  <2>2. CASE Ready(Mine(c))
    <3>1. Good(Mine(c))' /\ Mine(c) # None
      BY <1>1, <2>1, <2>2 DEF Ready, Good
    <3>2. pc'[c] \in {"ready", "configuration"}
      BY <1>1, <2>2 DEF TypeInv, Locals
    <3>3. Good(held[c])'
      BY <2>1, <3>1
    <3>4. QED
      BY <2>1, <3>1, <3>2, <3>3 DEF OnItsWay
  <2>3. CASE ~Ready(Mine(c))
    <3>1. pc'[c] = "fetch"
      BY <1>1, <2>3 DEF TypeInv, Locals
    <3>2. QED
      BY <2>1, <3>1 DEF OnItsWay
  <2>4. QED
    BY <2>2, <2>3
<1>4. QED
  BY <1>1, <1>2, <1>3 DEF Served

LEMMA GetOrRestoreServed ==
    ASSUME TypeInv, Kept, Served, NEW c \in Requests, GetOrRestore(c)
    PROVE  Served'
<1> USE DEF At, Goto, Reply, Return
<1>1. CASE Lookup(c)
  BY <1>1, LookupServed
<1>2. CASE Fetch(c)
  <2>1. /\ UNCHANGED <<irregular, store, held, on, deleted, confirmed, owed>> /\ Keep
        /\ ~At(c, "idle") /\ pc[c] \in {"configuration", "fetch"}
        /\ \/ got' = [got EXCEPT ![c] = doc]
              /\ Goto(c, IF At(c, "fetch") THEN "fetched" ELSE "configured")
           \/ Goto(c, "over") /\ UNCHANGED got
    BY <1>2 DEF Fetch, Keep, history
  <2>2. ASSUME owed[c], ~May("mongo") PROVE OnItsWay(c)'
    <3>1. Stored(doc) /\ OnItsWay(c)
      BY <2>2, OwedStored
    <3>2. CASE pc'[c] = "over"
      BY <3>2 DEF OnItsWay
    <3>3. CASE pc[c] = "fetch" /\ pc'[c] = "fetched" /\ got'[c] = doc
      BY <2>1, <3>1, <3>3 DEF OnItsWay, Mine
    <3>4. CASE pc[c] = "configuration" /\ pc'[c] = "configured"
      BY <2>1, <3>1, <3>4 DEF OnItsWay, Mine, Good, May
    <3>5. QED
      BY <2>1, <3>2, <3>3, <3>4 DEF TypeInv, Locals
  <2>3. \E a : Goto(c, a)
    BY <2>1
  <2>4. UNCHANGED got \/ (\E x : got' = [got EXCEPT ![c] = x])
    BY <2>1
  <2>5. QED
    BY <2>1, <2>2, <2>3, <2>4, SomeEntry, StepServed
<1>3. CASE Configured(c)
  <2>1. /\ UNCHANGED <<irregular, on, deleted, confirmed, owed>> /\ pc[c] = "configured"
        /\ Goto(c, "ready") /\ got' = [got EXCEPT ![c] = None]
        /\ Keep \/ Puts(c, held[c])
    BY <1>3, PutsIs DEF Configured, history, TypeInv
  <2>2. held[c] \in Entry /\ on[c] \in Processes
    BY <2>1 DEF TypeInv, Flow, Memory, Locals
  <2>3. ASSUME owed[c], ~May("mongo") PROVE OnItsWay(c)'
    <3>1. Good(held[c]) /\ Mine(c) # None
      BY <2>1, <2>3, OwedStored DEF OnItsWay
    <3>2. held'[c] = held[c] /\ store'[on[c]] # None /\ pc'[c] = "ready"
      <4>1. held[c] # None
        BY <2>2, Absent
      <4>2. CASE Keep
        BY <2>1, <3>1, <4>2 DEF Keep, TypeInv, Locals, Mine
      <4>3. CASE Puts(c, held[c])
        BY <2>1, <2>2, <4>1, <4>3 DEF Puts, TypeInv, Memory, Locals
      <4>4. QED
        BY <2>1, <4>2, <4>3
    <3>3. QED
      BY <2>1, <3>1, <3>2 DEF OnItsWay, Mine, Good, May
  <2>4. QED
    BY <2>1, <2>2, <2>3, StepServed
<1>4. CASE Fetched(c)
  <2>1. UNCHANGED <<irregular, on, deleted, confirmed, owed>> /\ pc[c] = "fetched"
    BY <1>4 DEF Fetched, history
  <2>2. CASE Stored(got[c])
    <3>1. Goto(c, "restore") /\ Keep /\ UNCHANGED got
      BY <1>4, <2>2 DEF Fetched, Stored
    <3>2. ASSUME owed[c], ~May("mongo") PROVE OnItsWay(c)'
      <4>1. OnItsWay(c) /\ pc'[c] = "restore"
        BY <3>1, <3>2, OwedStored DEF TypeInv, Locals
      <4>2. QED
        BY <2>1, <3>1, <4>1 DEF OnItsWay, Keep, Mine
    <3>3. QED
      BY <2>1, <3>1, <3>2, SomeEntry, StepServed
  <2>3. CASE ~Stored(got[c])
    <3>1. ~(owed[c] /\ ~May("mongo"))
      BY <2>1, <2>3, OwedStored DEF OnItsWay
    <3>2. Goto(c, "ready") /\ got' = [got EXCEPT ![c] = None]
      BY <1>4, <2>3 DEF Fetched
    <3>3. Keep \/ (got[c] # None /\ Populate(c))
      BY <1>4 DEF Fetched
    <3>4. \E e \in Entry : Keep \/ Puts(c, e)
      BY <3>3, SomeEntry, Populated DEF TypeInv
    <3>5. QED
      BY <2>1, <3>1, <3>2, <3>4, StepServed
  <2>4. QED
    BY <2>2, <2>3
<1>5. CASE Restore(c)
  <2>1. /\ UNCHANGED <<irregular, on, deleted, confirmed, owed>> /\ pc[c] = "restore"
        /\ Goto(c, "ready") /\ got' = [got EXCEPT ![c] = None]
        /\ Puts(c, Restored(got[c])) \/ (May("broker") /\ Populate(c))
    BY <1>5, PutsIs DEF Restore, history, TypeInv
  <2>2. Stored(got[c]) /\ got[c] \in Document /\ on[c] \in Processes
    BY <2>1 DEF TypeInv, Flow, Locals, Stored
  <2>3. ASSUME NEW e \in Entry, Puts(c, e), Good(e) PROVE Served'
    <3>1. pc'[c] = "ready" /\ held'[c] = e /\ store'[on[c]] = e /\ e # None
      BY <2>1, <2>2, <2>3, Absent DEF Puts, TypeInv, Memory, Locals
    <3>2. OnItsWay(c)'
      BY <2>1, <2>3, <3>1 DEF OnItsWay, Good, Mine, May
    <3>3. QED
      BY <2>1, <2>3, <3>2, StepServed
  <2>4. CASE Puts(c, Restored(got[c]))
    <3>1. Restored(got[c]) \in Entry
      BY <2>2, RestoredTypes
    <3>2. Good(Restored(got[c]))
      BY <2>2, <3>1, Absent DEF Good, Restored, Stored
    <3>3. QED
      BY <2>3, <2>4, <3>1, <3>2
  <2>5. CASE May("broker") /\ Populate(c)
    <3>1. got[c] # None
      BY <2>2 DEF Stored
    <3>2. CASE \E e \in Entry : Puts(c, e) /\ e.status = "authenticated"
      BY <2>3, <2>5, <3>2, Absent DEF Good
    <3>3. CASE Keep /\ held[c] # None /\ held[c].status = "authenticated"
      <4>1. ASSUME owed[c], ~May("mongo") PROVE OnItsWay(c)'
        <5>1. Mine(c) # None
          BY <2>1, <3>3, <4>1, OwedStored DEF OnItsWay
        <5>2. Good(held[c]) /\ pc'[c] = "ready"
          BY <2>1, <2>5, <3>3 DEF Good, TypeInv, Locals
        <5>3. QED
          BY <2>1, <3>3, <5>1, <5>2 DEF OnItsWay, Good, Keep, Mine, May
      <4>2. QED
        BY <2>1, <3>3, <4>1, SomeEntry, StepServed
    <3>4. QED
      BY <2>2, <2>5, <3>1, <3>2, <3>3, Populated DEF TypeInv
  <2>6. QED
    BY <2>1, <2>4, <2>5
<1>6. QED
  BY <1>1, <1>2, <1>3, <1>4, <1>5 DEF GetOrRestore

LEMMA AuthenticateServed ==
    ASSUME TypeInv, Kept, Served, NEW c \in Requests, Authenticate(c)
    PROVE  Served'
<1>1. ASSUME NEW a \in {"over", "login", "logged", "persist", "harden"}, Goto(c, a)
      PROVE  OnItsWay(c)'
  <2>1. pc'[c] = a
    BY <1>1 DEF Goto, TypeInv, Locals
  <2>2. QED
    BY <2>1 DEF OnItsWay, At
<1>2. /\ ~At(c, "idle") /\ UNCHANGED <<irregular, on, deleted, owed, got>>
      /\ confirmed # NoLogin => confirmed' # NoLogin
  BY DEF Authenticate, Totp, Login, Logged, Persist, Harden, At, history, local, TypeInv, Flow
<1>3. \E a \in {"over", "login", "logged", "persist", "harden"} : Goto(c, a)
  <2>1. \/ Goto(c, "over") \/ Goto(c, "login") \/ Goto(c, "logged") \/ Goto(c, "persist")
        \/ Goto(c, "harden")
    BY DEF Authenticate, Totp, Login, Logged, Persist, Harden, Reply
  <2>2. QED
    BY <2>1
<1>4. CASE Keep \/ Drop(c)
  BY <1>1, <1>2, <1>3, <1>4, SomeEntry, StepServed
<1>5. CASE Logged(c) /\ Mine(c) # None
  <2> DEFINE e == [Mine(c) EXCEPT !.status = "authenticated", !.tok = login[c],
                                  !.at = login[c], !.broker = TRUE]
  <2>1. /\ Mine(c) \in Entry /\ login[c] \in 0 .. MaxLogins
        /\ login[c] # NoLogin
    BY <1>5 DEF Logged, At, TypeInv, Flow, Locals, Memory, Mine
  <2>2. e \in Entry /\ e.status = "authenticated" /\ e.broker /\ e.tok # NoLogin
    BY <2>1 DEF Entry, Statuses
  <2>3. Change(c, e)
    BY <1>5 DEF Logged
  <2> HIDE DEF e
  <2>4. Good(e)
    BY <2>2, Absent DEF Good
  <2>5. QED
    BY <1>1, <1>2, <1>3, <2>2, <2>3, <2>4, StepServed
<1>6. Keep \/ Drop(c) \/ (Logged(c) /\ Mine(c) # None)
  BY DEF Authenticate, Totp, Login, Logged, Persist, Harden, Keep
<1>7. QED
  BY <1>4, <1>5, <1>6

LEMMA StartServedStep ==
    ASSUME TypeInv, Kept, Served, NEW c \in Requests, StartTrading(c)
    PROVE  Served'
<1> USE DEF At, Goto, Reply
<1>1. ~At(c, "idle") /\ UNCHANGED <<irregular, on, deleted, confirmed, owed, got>>
  BY DEF StartTrading, Start, StartPersist, StartCheck, history, local
<1>2. \E a : Goto(c, a)
  <2>1. \/ Goto(c, "denied") \/ Goto(c, "early") \/ Goto(c, "check") \/ Goto(c, "over")
        \/ Goto(c, "nobroker") \/ Goto(c, "final")
    BY DEF StartTrading, Start, StartPersist, StartCheck
  <2>2. QED
    BY <2>1
<1>3. Keep \/ Drop(c)
  BY DEF StartTrading, Start, StartPersist, StartCheck, Keep
<1>4. ASSUME owed[c], ~May("mongo") PROVE OnItsWay(c)'
  <2>1. OnItsWay(c)
    BY <1>4, OwedStored
  <2>2. CASE Start(c)
    <3>1. Mine(c) # None /\ Good(held[c]) /\ held' = held
      BY <2>1, <2>2 DEF OnItsWay, Start
    <3>2. pc'[c] = "early"
      BY <2>2, <3>1 DEF Start, TypeInv, Locals
    <3>3. QED
      BY <1>1, <3>1, <3>2 DEF OnItsWay, Good, May
  <2>3. CASE StartPersist(c)
    <3>1. CASE pc[c] = "early"
      <4>1. pc'[c] = "check" /\ held' = held /\ Good(held[c])
        BY <2>1, <2>3, <3>1 DEF StartPersist, TypeInv, Locals, OnItsWay
      <4>2. QED
        BY <1>1, <4>1 DEF OnItsWay, Good, May
    <3>2. CASE pc[c] # "early"
      <4>1. pc'[c] = "over"
        BY <2>3, <3>2 DEF StartPersist, TypeInv, Locals
      <4>2. QED
        BY <4>1 DEF OnItsWay
    <3>3. QED
      BY <3>1, <3>2
  <2>4. CASE StartCheck(c)
    <3>1. Good(held[c])
      BY <2>1, <2>4 DEF StartCheck, OnItsWay
    <3>2. pc'[c] = "final" \/ (pc'[c] = "nobroker" /\ May("broker"))
      BY <2>4, <3>1 DEF StartCheck, Good, TypeInv, Locals
    <3>3. QED
      BY <1>1, <3>2 DEF OnItsWay, May
  <2>5. QED
    BY <2>2, <2>3, <2>4 DEF StartTrading
<1>5. QED
  BY <1>1, <1>2, <1>3, <1>4, SomeEntry, StepServed

LEMMA StopServed ==
    ASSUME TypeInv, Kept, Served, NEW c \in Requests, Stop(c)
    PROVE  Served'
<1>1. ~At(c, "idle") /\ UNCHANGED <<irregular, on, deleted, confirmed, got>>
  BY DEF Stop, At, history
<1>2. CASE Mine(c) = None
  <2>1. Goto(c, "over") /\ Keep /\ UNCHANGED owed
    BY <1>2 DEF Stop, Reply
  <2>2. pc'[c] = "over"
    BY <2>1 DEF Goto, TypeInv, Locals
  <2>3. OnItsWay(c)'
    BY <2>2 DEF OnItsWay, At
  <2>4. QED
    BY <1>1, <2>1, <2>3, SomeEntry, StepServed
<1>3. CASE Mine(c) # None
  <2> DEFINE e == [Mine(c) EXCEPT !.status = "stopped"]
  <2>1. Mine(c) \in Entry
    BY <1>3 DEF Stop, At, TypeInv, Locals, Memory, Mine
  <2>2. e \in Entry
    BY <2>1, StatusTypes DEF Statuses
  <2>3. Goto(c, "persist") /\ Change(c, e)
    BY <1>3 DEF Stop
  <2>4. \A d \in Requests : owed'[d] => owed[d] /\ on[d] # on[c]
    BY <1>3 DEF Stop, Excuse
  <2> HIDE DEF e
  <2>5. QED
    BY <1>1, <2>2, <2>3, <2>4, StepServed
<1>4. QED
  BY <1>2, <1>3

LEMMA FinalizeServed ==
    ASSUME TypeInv, Kept, Served, NEW c \in Requests, NEW t \in {"stopped", "authenticated"},
           Finalize(c, t)
    PROVE  Served'
<1>1. ~At(c, "idle") /\ UNCHANGED <<irregular, on, deleted, got>> /\ Goto(c, "persist")
  BY DEF Finalize, At
<1>2. CASE t = "stopped"
  BY <1>2 DEF Finalize, Served
<1>3. CASE t = "authenticated"
  <2>1. UNCHANGED <<owed, confirmed>>
    BY <1>3 DEF Finalize
  <2>2. OnItsWay(c)'
    <3>1. pc'[c] = "persist"
      BY <1>1 DEF Goto, TypeInv, Locals
    <3>2. QED
      BY <3>1 DEF OnItsWay, At
  <2>3. CASE Keep \/ (\E e \in Entry : Puts(c, e))
    BY <1>1, <2>1, <2>2, <2>3, SomeEntry, StepServed
  <2>4. CASE Mine(c) # None /\ Change(c, [Mine(c) EXCEPT !.status = t])
    <3> DEFINE e == [Mine(c) EXCEPT !.status = t]
    <3>1. Mine(c) \in Entry
      BY <1>1, <2>4 DEF TypeInv, Locals, Memory, Mine
    <3>2. e \in Entry /\ e.status = t /\ e.broker = Mine(c).broker /\ e.tok = Mine(c).tok
      BY <1>3, <3>1 DEF Entry, Statuses
    <3> HIDE DEF e
    <3>3. Good(Mine(c)) => Good(e)
      BY <1>3, <3>2, Absent DEF Good
    <3>4. Change(c, e)
      BY <2>4 DEF e
    <3>5. QED
      BY <1>1, <2>1, <2>2, <3>2, <3>3, <3>4, StepServed
  <2>5. QED
    BY <2>3, <2>4, FinalizedEntry
<1>4. QED
  BY <1>2, <1>3

LEMMA NextServed ==
    ASSUME TypeInv, Kept, Served, [Next]_vars
    PROVE  Served'
<1> USE DEF At, May
<1>1. ASSUME NEW c \in Requests, NEW p \in Processes, NEW o \in Operations, Begin(c, p, o)
      PROVE  Served'
  <2>1. /\ UNCHANGED <<irregular, store, held, got, confirmed, deleted>>
        /\ pc'[c] \in {"stop", "lookup"}
        /\ owed'[c] => confirmed # NoLogin /\ ~deleted
        /\ \A d \in Requests : d # c => /\ pc'[d] = pc[d] /\ on'[d] = on[d]
                                        /\ owed'[d] = owed[d]
    BY <1>1 DEF Begin, Goto, history, TypeInv, Locals
  <2>2. OnItsWay(c)'
    BY <2>1 DEF OnItsWay
  <2>3. \A d \in Requests : d # c /\ OnItsWay(d) => OnItsWay(d)'
    BY <2>1 DEF OnItsWay, Good, Mine
  <2>4. QED
    BY <2>1, <2>2, <2>3 DEF Served
<1>2. ASSUME NEW c \in Requests, NEW p \in Processes, Credentials(c, p) PROVE Served'
  <2>1. UNCHANGED <<irregular, owed, confirmed>> /\ ~issued
    BY <1>2 DEF Credentials, history
  <2>2. QED
    BY <2>1 DEF Kept, Served
<1>3. ASSUME NEW ended, Forget(ended), UNCHANGED <<irregular, doc, logins, history>>,
             \/ UNCHANGED store
             \/ \E p \in Processes :
                  store' = [store EXCEPT ![p] = None] /\ ended = {d \in Open : on[d] = p}
      PROVE  Served'
  <2> SUFFICES ASSUME NEW d \in Requests, owed'[d], ~May("mongo")'
               PROVE  confirmed' # NoLogin /\ ~deleted' /\ OnItsWay(d)'
    BY DEF Served
  <2>1. /\ d \notin ended /\ owed[d] /\ pc'[d] = pc[d] /\ on'[d] = on[d]
        /\ held'[d] = held[d] /\ got'[d] = got[d]
    BY <1>3 DEF Forget
  <2>2. confirmed' # NoLogin /\ ~deleted' /\ OnItsWay(d)
    BY <1>3, <2>1 DEF Served, history
  <2>3. CASE pc[d] = "idle"
    BY <2>1, <2>2, <2>3 DEF OnItsWay
  <2>4. CASE pc[d] # "idle"
    <3>1. store'[on[d]] = store[on[d]]
      BY <1>3, <2>1, <2>4 DEF Open, TypeInv, Locals, Memory
    <3>2. QED
      BY <1>3, <2>1, <2>2, <3>1 DEF OnItsWay, Good, Mine
  <2>5. QED
    BY <2>3, <2>4
<1>4. CASE MarkStopped
  BY <1>4 DEF MarkStopped, local, history, Served, OnItsWay, Good, Mine
<1>5. ASSUME NEW p \in Processes, Delete(p) PROVE Served'
  BY <1>5 DEF Delete, Served
<1>6. CASE UNCHANGED vars
  BY <1>6 DEF vars, local, history, Served, OnItsWay, Good, Mine
<1>7. CASE Next
  <2>1. ASSUME NEW c \in Requests, Done(c) PROVE Served'
    BY <1>3, <2>1 DEF Done
  <2>2. ASSUME NEW p \in Processes, Crash(p) PROVE Served'
    BY <1>3, <2>2 DEF Crash
  <2>3. QED
    BY <1>1, <1>2, <1>4, <1>5, <1>7, <2>1, <2>2, GetOrRestoreServed, AuthenticateServed,
       StartServedStep, StopServed, FinalizeServed DEF Next
<1>8. QED
  BY <1>6, <1>7
-----------------------------------------------------------------------------
(* The theorems                                                            *)

LEMMA Invariance == Spec => []AuthInv
<1>1. Init => AuthInv
  <2> SUFFICES ASSUME Init PROVE AuthInv
    OBVIOUS
  <2>1. TypeInv
    BY InitTypeInv
  <2>2. Kept
    BY DEF Init, Kept, At
  <2>3. Paired
    BY PairedNothing DEF Init, Paired
  <2>4. Newest
    BY DEF Init, Newest, At, NoLogin
  <2>5. Served
    BY DEF Init, Served
  <2>6. QED
    BY <2>1, <2>2, <2>3, <2>4, <2>5 DEF AuthInv
<1>2. AuthInv /\ [Next]_vars => AuthInv'
  BY NextTypeInv, NextKept, NextPaired, NextNewest, NextServed DEF AuthInv
<1>3. QED
  BY <1>1, <1>2, PTL DEF Spec

\* Type correctness of the processes' memories, the document and the requests
\* (session_service.py, auth.py, db.py).
THEOREM TypeCorrect == Spec => []TypeOK
<1>1. AuthInv => TypeOK
  BY TypeInvTypes DEF AuthInv
<1>2. QED
  BY <1>1, Invariance, PTL

\* Once a client has been told that it is logged in, the document can restore the session,
\* whatever other processes write from older memories (auth.py, "HARD persist").
THEOREM LoginIsKept == Spec => []LoginKept
<1>1. AuthInv => LoginKept
  BY DEF AuthInv, Kept, LoginKept, Stored
<1>2. QED
  BY <1>1, Invariance, PTL

\* Without overlapping requests no process puts an older token, or the time of one, over the
\* newest in the document (_session_metadata_payload).
THEOREM NewestIsKept == Spec => []NewestLogin
<1>1. AuthInv => NewestLogin
  BY DEF AuthInv, Newest, Paired, PairedEntry, NewestLogin
<1>2. QED
  BY <1>1, Invariance, PTL

\* A start that comes in after a confirmed login is served by any process, whatever else
\* goes on (get_or_restore_session, start_trading).
THEOREM StartIsServed == Spec => []StartServed
<1>1. AuthInv => StartServed
  BY DEF AuthInv, Served, OnItsWay, StartServed, Answers, At
<1>2. QED
  BY <1>1, Invariance, PTL
=============================================================================
