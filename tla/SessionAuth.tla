---------------------------- MODULE SessionAuth ----------------------------
(***************************************************************************)
(* A session's authentication.  Each gunicorn process keeps its own        *)
(* sessions_store in memory, Mongo one document for all of them.  A login  *)
(* writes both; any other process learns of it from the document, which    *)
(* every process may also overwrite with what it remembers.                *)
(*                                                                         *)
(* One session, and one event loop per process: a step runs from one await *)
(* to the next.  A token stands for the login that has brought it.         *)
(***************************************************************************)
EXTENDS Naturals

CONSTANTS
    Processes, \* gunicorn processes
    Requests,  \* requests that may be open at a time
    MaxLogins, \* bound: logins that the broker accepts
    Irregular  \* the sets of irregularities a run may have

Kinds == {"overlap",\* requests are open at the same time
          "crash",  \* a process is replaced
          "broker", \* a call to the broker may fail
          "mongo",  \* a call to Mongo may fail
          "delete"} \* an administrator may delete the session

ASSUME SessionAuthAssumption ==
    /\ MaxLogins \in Nat \ {0}
    /\ Irregular \subseteq SUBSET Kinds

VARIABLES
    irregular, \* the irregularities of this run
    store,     \* sessions_store of each process
    doc,       \* the document in plugin_sessions
    logins,    \* logins the broker has accepted
    issued,    \* the client has its session id
    started,   \* history: trading has been started
    confirmed, \* history: the last login whose client has been told, until a close
    deleted,   \* history: an administrator has deleted the session
    pc,        \* where each request is, or what its client is told
    op,        \* what it does
    on,        \* the process it runs on
    held,      \* session_data, the entry it works on
    same,      \* that entry is the one in sessions_store
    got,       \* the document it has read
    out,       \* the fields it is about to write
    login,     \* the login it has made
    owed       \* history: nothing entitles the code to turn it away

history == <<issued, started, confirmed, deleted>>
local == <<op, on, got, out, login, owed>>
vars == <<irregular, store, doc, logins, history, pc, held, same, local>>

May(k) == k \in irregular
At(c, p) == pc[c] = p
Goto(c, p) == pc' = [pc EXCEPT ![c] = p]

None == [status |-> "absent"]
NoLogin == 0
Nowhere == "nowhere"
Statuses == {"none", "credentials_received", "authenticated", "stopped"}
Document == [status : Statuses, creds : BOOLEAN, tok : 0 .. MaxLogins, at : 0 .. MaxLogins]
Entry == [status : Statuses, creds : BOOLEAN, tok : 0 .. MaxLogins, at : 0 .. MaxLogins,
          broker : BOOLEAN]

Bare == [status |-> "none", creds |-> FALSE, tok |-> NoLogin, at |-> NoLogin]
NoFields == [f \in {} |-> NoLogin]
Mine(c) == store[on[c]]
-----------------------------------------------------------------------------
(* sessions_store                                                          *)

\* The entry of c's process changes in place: whoever holds it sees that.
Change(c, e) ==
    /\ store' = [store EXCEPT ![on[c]] = e]
    /\ held' = [d \in Requests |-> IF on[d] = on[c] /\ same[d] THEN e ELSE held[d]]
    /\ UNCHANGED same

\* Another entry takes its place, and c holds it, as do the others.
Replace(c, e, others) ==
    /\ store' = [store EXCEPT ![on[c]] = e]
    /\ held' = [d \in Requests |-> IF d \in others \cup {c} THEN e ELSE held[d]]
    /\ same' = [d \in Requests |->
                  d \in others \cup {c} \/ (same[d] /\ on[d] # on[c])]

\* The requests that may hold the very entry that c holds and sessions_store has lost: such
\* an entry no longer changes, and whether an equal one is the same one is a choice.
Twins(c) == {d \in Requests : /\ ~At(d, "idle") /\ on[d] = on[c]
                              /\ ~same[d] /\ held[d] = held[c]}

\* The entry c holds is put into sessions_store again.
PutBack(c) == \E others \in SUBSET Twins(c) : Replace(c, held[c], others)

\* A new entry is put there.
Renew(c, e) == Replace(c, e, {})

Keep == UNCHANGED <<store, held, same>>

\* c needs the entry it holds no longer.
Drop(c) ==
    /\ held' = [held EXCEPT ![c] = None]
    /\ same' = [same EXCEPT ![c] = FALSE]
    /\ UNCHANGED store
-----------------------------------------------------------------------------
(* The document                                                            *)

\* The fields f, and those of g that f does not set.
Over(f, g) ==
    [x \in DOMAIN f \cup DOMAIN g |-> IF x \in DOMAIN f THEN f[x] ELSE g[x]]

\* _ensure_session_doc: $set of some fields, upsert; a failure is only logged.
Write(fields) ==
    \/ doc' = Over(fields, IF doc = None THEN Bare ELSE doc)
    \/ May("mongo") /\ UNCHANGED doc

\* db_has_stored_auth
Stored(d) ==
    d # None /\ d.creds /\ d.tok # NoLogin /\ (d.status = "authenticated" \/ d.at # NoLogin)

\* Mutant: a process persists the status and the tokens it remembers.
KeepsAuth_No(e, d) == FALSE

\* "never downgrade Mongo auth from stale in-process RAM"
KeepsAuth(e, d) ==
    /\ e.status # "authenticated" /\ d # None
    /\ d.tok # NoLogin
    /\ d.status = "authenticated" \/ d.at # NoLogin

\* The fields of an entry that have a value.
Valued(e) ==
    [f \in {x \in {"status"} : e.status # "none"} \cup {x \in {"tok", "at"} : e[x] # NoLogin}
            \cup {x \in {"creds"} : e.creds} |-> e[f]]

\* Mutant: fields without a value are written as well.
Payload_Empty(e, d) ==
    IF KeepsAuth(e, d) THEN [status |-> "authenticated", tok |-> d.tok, at |-> d.at]
    ELSE [status |-> e.status, tok |-> e.tok, at |-> e.at]

\* _session_metadata_payload: what persist_session_state writes for entry e after it has
\* found the document d.
Payload(e, d) ==
    IF KeepsAuth(e, d)
    THEN Over([f \in {"status", "tok"} \cup {x \in {"at"} : d.at # NoLogin} |->
                   IF f = "status" THEN "authenticated" ELSE d[f]],
              Valued(e))
    ELSE IF d # None /\ d.at # NoLogin /\ e.status = "credentials_received" /\ e.tok = NoLogin
    THEN [f \in DOMAIN Valued(e) \ {"status"} |-> e[f]]
    ELSE Valued(e)

\* The document as the step that writes and then reads it finds it; a failed read
\* counts as none.
Found(d) == {d} \cup {x \in {None} : May("mongo")}
-----------------------------------------------------------------------------
(* A request comes in                                                      *)

Open == {c \in Requests : ~At(c, "idle")}
Reply(c, a) == Goto(c, a)

\* A start is "denied" when there is no authenticated session for it, and has "nobroker"
\* when the session has none; all other answers are "over".
Answers == {"over", "denied", "nobroker"}

Operations == {"totp", "start", "stop", "finalize"}

\* A stop calls SessionManager.stop_session first, a simulation is finalized once one has
\* been started; both they and a start look the session up.
Begin(c, p, o) ==
    /\ At(c, "idle") /\ (Open = {} \/ May("overlap"))
    /\ issued
    /\ o = "finalize" => started
    /\ Goto(c, IF o = "stop" THEN "stop" ELSE "lookup")
    /\ op' = [op EXCEPT ![c] = o]
    /\ on' = [on EXCEPT ![c] = p]
    /\ owed' = [owed EXCEPT ![c] = o = "start" /\ confirmed # NoLogin /\ ~deleted]
    /\ UNCHANGED <<irregular, store, doc, logins, history, held, same, got, out, login>>

\* The requests in the set lose what they worked on.
Forget(ended) ==
    /\ pc' = [d \in Requests |-> IF d \in ended THEN "idle" ELSE pc[d]]
    /\ held' = [d \in Requests |-> IF d \in ended THEN None ELSE held[d]]
    /\ same' = [d \in Requests |-> d \notin ended /\ same[d]]
    /\ got' = [d \in Requests |-> IF d \in ended THEN None ELSE got[d]]
    /\ out' = [d \in Requests |-> IF d \in ended THEN NoFields ELSE out[d]]
    /\ login' = [d \in Requests |-> IF d \in ended THEN NoLogin ELSE login[d]]
    /\ owed' = [d \in Requests |-> d \notin ended /\ owed[d]]
    /\ op' = [d \in Requests |-> IF d \in ended THEN "none" ELSE op[d]]
    /\ on' = [d \in Requests |-> IF d \in ended THEN Nowhere ELSE on[d]]

\* The client has its answer.
Done(c) ==
    /\ pc[c] \in Answers
    /\ Forget({c})
    /\ UNCHANGED <<irregular, store, doc, logins, history>>

\* authenticate_credentials: a new id, an entry, and the client learns the id when the
\* entry has been persisted.
Credentials(c, p) ==
    /\ ~issued /\ Open = {}
    /\ op' = [op EXCEPT ![c] = "credentials"]
    /\ on' = [on EXCEPT ![c] = p]
    /\ LET e == [status |-> "credentials_received", creds |-> TRUE, tok |-> NoLogin,
                 at |-> NoLogin, broker |-> FALSE]
       IN /\ store' = [store EXCEPT ![p] = e]
          /\ out' = [out EXCEPT ![c] = Payload(e, doc)]
    /\ Goto(c, "persist")
    /\ UNCHANGED <<irregular, doc, logins, history, held, same, got, login, owed>>
-----------------------------------------------------------------------------
(* get_or_restore_session                                                  *)

\* The caller goes on with the entry.
Return(c) ==
    /\ Goto(c, "ready")
    /\ got' = [got EXCEPT ![c] = None]

\* Mutant: whatever is in memory will do.
Ready_Any(e) == e # None

\* The fast path: authenticated, with a broker.
Ready(e) == e # None /\ e.status = "authenticated" /\ e.broker /\ e.tok # NoLogin

\* An entry that has no configuration id still asks the document for it.
Lookup(c) ==
    /\ At(c, "lookup")
    /\ held' = [held EXCEPT ![c] = Mine(c)]
    /\ same' = [same EXCEPT ![c] = Mine(c) # None]
    /\ IF Ready(Mine(c)) THEN Goto(c, "ready") \/ Goto(c, "configuration") ELSE Goto(c, "fetch")
    /\ UNCHANGED <<irregular, store, doc, logins, history, local>>

\* find_one, in a thread; an exception ends the request.
Fetch(c) ==
    /\ pc[c] \in {"configuration", "fetch"}
    /\ \/ /\ got' = [got EXCEPT ![c] = doc]
          /\ Goto(c, IF At(c, "fetch") THEN "fetched" ELSE "configured")
       \/ May("mongo") /\ Reply(c, "over") /\ UNCHANGED got
    /\ UNCHANGED <<irregular, store, doc, logins, history, held, same, op, on, out, login, owed>>

\* With the id found, the entry the request holds is put into the store again.
Configured(c) ==
    /\ At(c, "configured")
    /\ Return(c)
    /\ Keep \/ (got[c] # None /\ ~same[c] /\ PutBack(c))
    /\ UNCHANGED <<irregular, doc, logins, history, op, on, out, login, owed>>

\* The entry as the document alone gives it, and only if memory has none or a stale one.
Populate(c) ==
    LET d == got[c]
        stale == held[c] = None \/ (held[c].status # "authenticated" /\ Stored(d))
    IN IF stale
       THEN Renew(c, [status |-> IF Stored(d) THEN "authenticated" ELSE d.status,
                      creds |-> d.creds, tok |-> d.tok, at |-> d.at, broker |-> FALSE])
       ELSE Keep

\* The document has been read: without tokens the broker is not asked.
Fetched(c) ==
    /\ At(c, "fetched")
    /\ CASE got[c] = None -> Return(c) /\ Keep
         [] got[c] # None /\ Stored(got[c]) -> Goto(c, "restore") /\ Keep /\ UNCHANGED got
         [] OTHER -> Return(c) /\ Populate(c)
    /\ UNCHANGED <<irregular, doc, logins, history, op, on, out, login, owed>>

\* Mutant: the document itself becomes the entry.
Restored_Document(d) == d

Restored(d) ==
    [status |-> "authenticated", creds |-> TRUE, tok |-> d.tok, at |-> d.at, broker |-> TRUE]

\* broker.restore_session has returned.
Restore(c) ==
    /\ At(c, "restore")
    /\ Return(c)
    /\ \/ Renew(c, Restored(got[c]))
       \/ May("broker") /\ Populate(c)
    /\ UNCHANGED <<irregular, doc, logins, history, op, on, out, login, owed>>
-----------------------------------------------------------------------------
(* authenticate_totp                                                       *)

Totp(c) ==
    /\ At(c, "ready") /\ op[c] = "totp"
    /\ CASE held[c] = None -> Reply(c, "over")
         [] held[c] # None /\ ~held[c].creds -> Reply(c, "over")
         [] OTHER -> Goto(c, "login")
    /\ Drop(c)
    /\ UNCHANGED <<irregular, doc, logins, history, local>>

\* get_session and get_account_balance, in a thread: a wrong TOTP ends the request.
Login(c) ==
    /\ At(c, "login")
    /\ \/ /\ logins < MaxLogins
          /\ logins' = logins + 1
          /\ login' = [login EXCEPT ![c] = logins + 1]
          /\ Goto(c, "logged")
       \/ Reply(c, "over") /\ UNCHANGED <<logins, login>>
    /\ UNCHANGED <<irregular, store, doc, history, held, same, op, on, got, out, owed>>

\* The entry takes the login, unless there is none any more, and is snapshot for Mongo.
Logged(c) ==
    /\ At(c, "logged")
    /\ IF Mine(c) = None THEN Reply(c, "over") /\ Keep /\ UNCHANGED out
       ELSE LET e == [Mine(c) EXCEPT !.status = "authenticated", !.tok = login[c],
                                     !.at = login[c], !.broker = TRUE]
            IN /\ Change(c, e)
               /\ \E d \in Found(doc) : out' = [out EXCEPT ![c] = Payload(e, d)]
               /\ Goto(c, "persist")
    /\ UNCHANGED <<irregular, doc, logins, history, op, on, got, login, owed>>

\* persist_session_state's write, in a thread.
Persist(c) ==
    /\ At(c, "persist")
    /\ Write(out[c])
    /\ IF op[c] = "totp" THEN Goto(c, "harden") ELSE Reply(c, "over")
    /\ issued' = (issued \/ op[c] = "credentials")
    /\ out' = [out EXCEPT ![c] = NoFields]
    /\ Drop(c)
    /\ UNCHANGED <<irregular, logins, started, confirmed, deleted, op, on, got, login,
                   owed>>

\* "HARD persist authenticated state (do NOT rely on persist_session_state)"
Harden(c) ==
    /\ At(c, "harden")
    /\ Write([status |-> "authenticated", at |-> login[c], tok |-> login[c]])
    /\ Reply(c, "over")
    /\ confirmed' = login[c]
    /\ UNCHANGED <<irregular, store, logins, issued, started, deleted, held, same, op, on,
                   got, out, login, owed>>
-----------------------------------------------------------------------------
(* start_trading                                                           *)

\* The entry takes the request's configuration before anything is checked.
Start(c) ==
    /\ At(c, "ready") /\ op[c] = "start"
    /\ IF Mine(c) = None THEN Reply(c, "denied") ELSE Goto(c, "early")
    /\ UNCHANGED <<irregular, store, doc, logins, history, held, same, op, on, got, out, login,
                   owed>>

\* The configuration is persisted, before the checks and after them.
StartPersist(c) ==
    /\ pc[c] \in {"early", "final"}
    /\ Write(NoFields)
    /\ IF At(c, "early") THEN Goto(c, "check") /\ UNCHANGED started
       ELSE Reply(c, "over") /\ started' = TRUE
    /\ UNCHANGED <<irregular, store, logins, issued, confirmed, deleted, held, same, op,
                   on, got, out, login, owed>>

StartCheck(c) ==
    /\ At(c, "check")
    /\ LET e == held[c] IN
       CASE e = None \/ e.status # "authenticated" -> Reply(c, "denied")
         [] e # None /\ e.status = "authenticated" /\ (~e.broker \/ e.tok = NoLogin) ->
              Reply(c, "nobroker")
         [] OTHER -> Goto(c, "final")
    /\ Drop(c)
    /\ UNCHANGED <<irregular, doc, logins, history, local>>
-----------------------------------------------------------------------------
(* Stops                                                                   *)

\* Requests that are under way on process p may be turned away.
Excuse(p) == owed' = [d \in Requests |-> owed[d] /\ on[d] # p]

\* stop_trading, after stop_session: the log line writes the document, too.
Stop(c) ==
    /\ At(c, "stop")
    /\ IF Mine(c) = None THEN Reply(c, "over") /\ Keep /\ UNCHANGED <<doc, out, owed>>
       ELSE LET e == [Mine(c) EXCEPT !.status = "stopped"]
            IN /\ Change(c, e)
               /\ Write(NoFields)
               /\ \E d \in Found(doc') : out' = [out EXCEPT ![c] = Payload(e, d)]
               /\ Goto(c, "persist")
               /\ Excuse(on[c])
    /\ UNCHANGED <<irregular, logins, history, op, on, got, login>>

\* _finalize_stop_simulation_response: a handoff that allows live trading leaves the
\* session authenticated, any other closes it.
Finalize(c, status) ==
    /\ At(c, "ready") /\ op[c] = "finalize"
    /\ CASE Mine(c) # None -> Change(c, [Mine(c) EXCEPT !.status = status])
         [] Mine(c) = None /\ held[c] # None -> Renew(c, [held[c] EXCEPT !.status = status])
         [] Mine(c) = None /\ held[c] = None /\ status = "stopped" ->
              Renew(c, Over([broker |-> FALSE, status |-> "stopped"], Bare))
         [] OTHER -> Keep
    /\ out' = [out EXCEPT ![c] = [status |-> status]]
    /\ IF status = "stopped" THEN confirmed' = NoLogin /\ owed' = [d \in Requests |-> FALSE]
       ELSE UNCHANGED <<confirmed, owed>>
    /\ Goto(c, "persist")
    /\ UNCHANGED <<irregular, doc, logins, issued, started, deleted, op, on, got, login>>

\* A worker that ends after a plain stop, and the administrator's stop, mark the document.
MarkStopped ==
    /\ started /\ doc # None
    /\ doc' = [doc EXCEPT !.status = "stopped"]
    /\ UNCHANGED <<irregular, store, logins, history, pc, held, same, local>>

\* delete_session_by_id, served by process p.
Delete(p) ==
    /\ May("delete") /\ issued /\ doc # None
    /\ doc' = None
    /\ store' = [store EXCEPT ![p] = None]
    /\ same' = [d \in Requests |-> same[d] /\ on[d] # p]
    /\ deleted' = TRUE
    /\ owed' = [d \in Requests |-> FALSE]
    /\ UNCHANGED <<irregular, logins, issued, started, confirmed, pc, held, op, on, got,
                   out, login>>

\* A process is replaced: its memory and its requests are gone.
Crash(p) ==
    /\ May("crash") /\ issued
    /\ store' = [store EXCEPT ![p] = None]
    /\ Forget({d \in Open : on[d] = p})
    /\ UNCHANGED <<irregular, doc, logins, history>>
-----------------------------------------------------------------------------
Init ==
    /\ irregular \in Irregular
    /\ store = [p \in Processes |-> None]
    /\ doc = None
    /\ logins = 0 /\ confirmed = NoLogin
    /\ issued = FALSE /\ started = FALSE /\ deleted = FALSE
    /\ pc = [c \in Requests |-> "idle"]
    /\ op = [c \in Requests |-> "none"]
    /\ on = [c \in Requests |-> Nowhere]
    /\ held = [c \in Requests |-> None]
    /\ same = [c \in Requests |-> FALSE]
    /\ got = [c \in Requests |-> None]
    /\ out = [c \in Requests |-> NoFields]
    /\ login = [c \in Requests |-> NoLogin]
    /\ owed = [c \in Requests |-> FALSE]

GetOrRestore(c) == Lookup(c) \/ Fetch(c) \/ Configured(c) \/ Fetched(c) \/ Restore(c)
Authenticate(c) == Totp(c) \/ Login(c) \/ Logged(c) \/ Persist(c) \/ Harden(c)
StartTrading(c) == Start(c) \/ StartPersist(c) \/ StartCheck(c)

Next ==
    \/ \E c \in Requests, p \in Processes, o \in Operations : Begin(c, p, o)
    \/ \E c \in Requests, p \in Processes : Credentials(c, p)
    \/ \E c \in Requests :
        \/ GetOrRestore(c) \/ Authenticate(c) \/ StartTrading(c)
        \/ Stop(c) \/ Done(c)
        \/ \E status \in {"stopped", "authenticated"} : Finalize(c, status)
    \/ MarkStopped
    \/ \E p \in Processes : Delete(p) \/ Crash(p)

Spec == Init /\ [][Next]_vars
-----------------------------------------------------------------------------
(* Properties                                                              *)

\* The type of the state.
TypeOK ==
    /\ irregular \in Irregular
    /\ store \in [Processes -> Entry \cup {None}]
    /\ doc \in Document \cup {None}
    /\ {logins, confirmed} \subseteq 0 .. MaxLogins
    /\ issued \in BOOLEAN /\ started \in BOOLEAN /\ deleted \in BOOLEAN
    /\ op \in [Requests -> Operations \cup {"none", "credentials"}]
    /\ on \in [Requests -> Processes \cup {Nowhere}]
    /\ held \in [Requests -> Entry \cup {None}]
    /\ got \in [Requests -> Document \cup {None}]
    /\ \A c \in Requests :
        /\ same[c] /\ ~At(c, "idle") => held[c] = Mine(c)
        /\ DOMAIN out[c] \subseteq {"status", "creds", "tok", "at"}

\* auth.py, "HARD persist authenticated state": once a client has been told that it is
\* logged in, the document can restore the session in any process, whatever processes that
\* have not heard of the login, or read the document before it, write meanwhile.
LoginKept ==
    confirmed # NoLogin /\ ~deleted /\ ~May("mongo") => Stored(doc)

\* db.py, "never downgrade Mongo auth from stale in-process RAM": with one request at a
\* time a process that remembers an earlier login, or none, never puts its token or its
\* time back over those of the newest, though it persists its own entry.
NewestLogin ==
    ~deleted /\ ~May("overlap") /\ ~May("mongo") /\ doc # None =>
        doc.tok >= confirmed /\ doc.at = doc.tok

\* session_service.py, "Robust session retrieval that handles multi-worker synchronization":
\* whichever process serves it, a start that comes in after a confirmed login is not turned
\* away unless the session is stopped, closed or deleted meanwhile.
StartServed ==
    \A c \in Requests :
        owed[c] /\ pc[c] \in Answers =>
            \/ pc[c] = "over"
            \/ pc[c] = "nobroker" /\ May("broker")
            \/ May("mongo")
=============================================================================
