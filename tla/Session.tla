------------------------------ MODULE Session ------------------------------
(***************************************************************************)
(* Packages session and auth (its session part): one browser, the session  *)
(* store, and the requests in flight.  A request loads its own copy of the *)
(* session named by the cookie, works on the copy, and writes it back when *)
(* the response header is written.  Nothing ties the load to the write.    *)
(*                                                                         *)
(* A session value is the user logged in and the message under one flash   *)
(* key.  `expect` is a history variable: no code reads it.                 *)
(***************************************************************************)
EXTENDS Integers, FiniteSets

CONSTANTS
    Id,         \* session ids, in the place of 32 random bytes
    User,
    Message,    \* what a handler may flash
    Request,    \* requests that may be in flight together
    Persistent, \* RedisStore: outlives the process, can fail and expire
    None        \* no id, no user, no message, no session

\* What the code relies on: assumed where the module is instantiated.
ConstantsOK ==
    /\ Persistent \in BOOLEAN
    /\ None \notin Id \cup User \cup Message
    /\ "clear" \notin Id \cup {None}

VARIABLES
    store,      \* store[id]: the values saved under id, or None
    issued,     \* ids newID has returned
    cookie,     \* the id in the browser's cookie, or None
    phase,      \* phase[r]: where request r is
    sess,       \* sess[r]: the *Session of request r
    given,      \* given[r]: the flash value put in the context of r
    reply,      \* reply[r]: the Set-Cookie of r on its way to the browser
    expect      \* what the next request will load, or None when that is open

vars == <<store, issued, cookie, phase, sess, given, reply, expect>>

Values    == [user : User \cup {None}, flash : Message \cup {None}]
Empty     == [user |-> None, flash |-> None]
SessionOf(id, values, new) ==
    [id |-> id, values |-> values, changed |-> FALSE, destroyed |-> FALSE, newID |-> new]
NoSession == SessionOf(None, Empty, FALSE)

\* A request is "open" until ensureCookie has run, "sent" once the header is
\* written, and "passed" while ensureCookie has run and will run again.
Phase    == {"off", "open", "passed", "sent"}
Handling == {"open", "sent"}

TypeOK ==
    /\ store \in [Id -> Values \cup {None}]
    /\ issued \subseteq Id
    /\ cookie \in issued \cup {None}
    /\ phase \in [Request -> Phase]
    /\ sess \in [Request -> [id : Id \cup {None}, values : Values, changed : BOOLEAN,
                             destroyed : BOOLEAN, newID : BOOLEAN]]
    /\ \A r \in Request : IF phase[r] = "off" THEN sess[r] = NoSession ELSE sess[r].id \in issued
    /\ given \in [Request -> Message \cup {None}]
    /\ reply \in [Request -> issued \cup {None, "clear"}]
    /\ expect \in Values \cup {None}

Init ==
    /\ store = [id \in Id |-> None]
    /\ issued = {} /\ cookie = None
    /\ phase = [r \in Request |-> "off"]
    /\ sess = [r \in Request |-> NoSession]
    /\ given = [r \in Request |-> None]
    /\ reply = [r \in Request |-> None]
    /\ expect = Empty

InFlight == {r \in Request : phase[r] # "off"}

\* Store.Get; load takes a session the store does not have for an empty one.
Saved(id) == IF store[id] = None THEN Empty ELSE store[id]

\* `expect` after a request or a fault that leaves it to chance what comes next.
Forget == expect' = None

-----------------------------------------------------------------------------
(* The middleware *)

\* load and the injection of flash values, for the id in the cookie, or for a
\* new id when there is no cookie that verifies.
Enter(r, s) ==
    /\ phase' = [phase EXCEPT ![r] = "open"]
    /\ sess' = [sess EXCEPT ![r] = s]
    /\ given' = [given EXCEPT ![r] = s.values.flash]
    /\ expect' = IF InFlight = {} THEN s.values ELSE None
    /\ UNCHANGED <<store, cookie, reply>>

ArriveKnown(r) ==
    /\ phase[r] = "off" /\ cookie # None
    /\ Enter(r, SessionOf(cookie, Saved(cookie), FALSE))
    /\ UNCHANGED issued

\* Any error of RedisStore.Get is "not found", so a read that fails gives the
\* request an empty session under the id of a full one.
ArriveUnread(r) ==
    /\ Persistent /\ phase[r] = "off" /\ cookie # None
    /\ phase' = [phase EXCEPT ![r] = "open"]
    /\ sess' = [sess EXCEPT ![r] = SessionOf(cookie, Empty, FALSE)]
    /\ given' = [given EXCEPT ![r] = None]
    /\ Forget
    /\ UNCHANGED <<store, issued, cookie, reply>>

ArriveNew(r) ==
    /\ phase[r] = "off" /\ cookie = None
    /\ \E id \in Id \ issued :
          /\ Enter(r, SessionOf(id, Empty, TRUE))
          /\ issued' = issued \cup {id}

\* ensureCookie, on the first WriteHeader or Write, or when the handler (or
\* Recover, after a panic) returns to the middleware.  The errors of the
\* store are ignored, and the cookie is set all the same.  It runs again when
\* an outer layer answers after the middleware called it (session.go:67-69
\* leaves wroteHeader unset), and so does its command when the reply is lost.
WriteHeader(r) ==
    LET s == sess[r] IN
    /\ phase[r] \in {"open", "passed"}
    /\ \E next \in {"passed", "sent"} :
          /\ next = "passed" => s.destroyed \/ s.changed \/ s.newID
          /\ phase' = [phase EXCEPT ![r] = next]
    /\ \/ /\ s.destroyed
          /\ store' = [store EXCEPT ![s.id] = None]
          /\ reply' = [reply EXCEPT ![r] = "clear"]
          /\ expect' = IF expect = None THEN None ELSE Empty
       \/ /\ ~s.destroyed /\ (s.changed \/ s.newID)
          /\ store' = [store EXCEPT ![s.id] = s.values]
          /\ reply' = [reply EXCEPT ![r] = s.id]
          /\ expect' = IF expect = None THEN None ELSE s.values
       \/ /\ Persistent /\ (s.destroyed \/ s.changed \/ s.newID)
          /\ reply' = [reply EXCEPT ![r] = IF s.destroyed THEN "clear" ELSE s.id]
          /\ Forget
          /\ UNCHANGED store
       \/ /\ ~s.destroyed /\ ~s.changed /\ ~s.newID
          /\ expect' = IF expect = None THEN None ELSE s.values
          /\ UNCHANGED <<store, reply>>
    /\ UNCHANGED <<issued, cookie, sess, given>>

\* The browser takes the cookie of a response, or the response is lost.
Deliver(r) ==
    /\ phase[r] = "sent" /\ reply[r] # None
    /\ cookie' = IF reply[r] = "clear" THEN None ELSE reply[r]
    /\ reply' = [reply EXCEPT ![r] = None]
    /\ UNCHANGED <<store, issued, phase, sess, given, expect>>

LoseReply(r) ==
    /\ phase[r] = "sent" /\ reply[r] # None
    /\ reply' = [reply EXCEPT ![r] = None]
    /\ Forget
    /\ UNCHANGED <<store, issued, cookie, phase, sess, given>>

\* Mutant: the session outlives its request.
ReturnKeepingSession(r) ==
    /\ phase[r] = "sent" /\ reply[r] = None
    /\ phase' = [phase EXCEPT ![r] = "off"]
    /\ UNCHANGED <<store, issued, cookie, sess, given, reply, expect>>

\* The handler has returned.  The slot of r is kept until its response is out.
Return(r) ==
    /\ phase[r] = "sent" /\ reply[r] = None
    /\ phase' = [phase EXCEPT ![r] = "off"]
    /\ sess' = [sess EXCEPT ![r] = NoSession]
    /\ given' = [given EXCEPT ![r] = None]
    /\ UNCHANGED <<store, issued, cookie, reply, expect>>

-----------------------------------------------------------------------------
(* What a handler may call, before or after it writes the header *)

\* Session.Set and Session.Delete
Changed(s, values) == [s EXCEPT !.values = values, !.changed = TRUE]

WithUser(values, u)  == [values EXCEPT !.user = u]
WithFlash(values, m) == [values EXCEPT !.flash = m]

\* Mutant: Login without Regenerate.
LoginKeepingID(r, u) ==
    /\ phase[r] \in Handling
    /\ sess' = [sess EXCEPT ![r] = Changed(@, WithUser(@.values, u))]
    /\ UNCHANGED <<store, issued, cookie, phase, given, reply, expect>>

\* auth.Manager.Login: Regenerate, then Set.  The old session is deleted at
\* once, the new one is saved with the header, so never after it.
Login(r, u) ==
    /\ phase[r] \in Handling
    /\ \E id \in Id \ issued :
          /\ issued' = issued \cup {id}
          /\ sess' = [sess EXCEPT ![r] =
                [Changed(@, WithUser(@.values, u)) EXCEPT !.id = id, !.newID = TRUE]]
    /\ \/ /\ store' = [store EXCEPT ![sess[r].id] = None]
          /\ expect' = IF expect = None \/ phase[r] = "open" THEN expect ELSE Empty
       \/ /\ Persistent
          /\ Forget
          /\ UNCHANGED store
    /\ UNCHANGED <<cookie, phase, given, reply>>

\* auth.Manager.Logout: Delete, then Destroy.
Logout(r) ==
    /\ phase[r] \in Handling
    /\ sess' = [sess EXCEPT ![r] =
          [Changed(@, WithUser(@.values, None)) EXCEPT !.destroyed = TRUE]]
    /\ UNCHANGED <<store, issued, cookie, phase, given, reply, expect>>

Flash(r, m) ==
    /\ phase[r] \in Handling
    /\ sess' = [sess EXCEPT ![r] = Changed(@, WithFlash(@.values, m))]
    /\ UNCHANGED <<store, issued, cookie, phase, given, reply, expect>>

\* Mutant: the value is removed with no mark that the session has changed.
GetFlashUnmarked(r) ==
    /\ phase[r] \in Handling /\ sess[r].values.flash # None
    /\ sess' = [sess EXCEPT ![r] = [@ EXCEPT !.values = WithFlash(@, None)]]
    /\ UNCHANGED <<store, issued, cookie, phase, given, reply, expect>>

GetFlash(r) ==
    /\ phase[r] \in Handling /\ sess[r].values.flash # None
    /\ sess' = [sess EXCEPT ![r] = Changed(@, WithFlash(@.values, None))]
    /\ UNCHANGED <<store, issued, cookie, phase, given, reply, expect>>

-----------------------------------------------------------------------------
(* Faults *)

\* A key of RedisStore reaches its TTL, or is evicted.
Expire(id) ==
    /\ Persistent /\ store[id] # None
    /\ store' = [store EXCEPT ![id] = None]
    /\ Forget
    /\ UNCHANGED <<issued, cookie, phase, sess, given, reply>>

\* The process ends with its requests, and MemoryStore with it.  Under another
\* secret the cookie no longer verifies, which is as good as none.
Restart ==
    /\ phase' = [r \in Request |-> "off"]
    /\ sess' = [r \in Request |-> NoSession]
    /\ given' = [r \in Request |-> None]
    /\ reply' = [r \in Request |-> None]
    /\ store' = IF Persistent THEN store ELSE [id \in Id |-> None]
    /\ cookie' \in {cookie, None}
    /\ Forget
    /\ UNCHANGED issued

-----------------------------------------------------------------------------
Next == \/ \E r \in Request :
              \/ ArriveKnown(r) \/ ArriveUnread(r) \/ ArriveNew(r)
              \/ WriteHeader(r) \/ Deliver(r) \/ LoseReply(r) \/ Return(r)
              \/ Logout(r) \/ GetFlash(r)
              \/ \E u \in User : Login(r, u)
              \/ \E m \in Message : Flash(r, m)
        \/ \E id \in Id : Expire(id)
        \/ Restart

Spec == Init /\ [][Next]_vars

-----------------------------------------------------------------------------
(* Properties *)

\* The users a request with this id may act as, now or once the requests that
\* hold a copy of its session have written it back.
Identities(id) ==
    ({sess[r].values.user : r \in {q \in Request : sess[q].id = id}}
       \cup {Saved(id).user}) \ {None}

\* A session id becomes the id of a logged-in user when Login issues it and at
\* no other time: an id the browser held before the login never gets a user,
\* an id never changes its user, and a session that was logged out, and that
\* no request still holds a copy of, stays logged out.  A request that loaded
\* the session before a Logout or a Regenerate may still write it back
\* (session.go:157, 247 and 252), but it can write only what it loaded.
IdentityOnlyFromLogin ==
    [][\A id \in issued : Identities(id)' \subseteq Identities(id)]_vars

\* Requests that come one after the other see each other's changes: a request
\* loads what the one before it had in its session when ensureCookie last ran.
\* Set, Delete, Regenerate and Destroy only set flags on the copy; that the
\* flags, the store and the cookie agree in the end is up to ensureCookie
\* (session.go:242-255).  What a handler changes later than that is lost.  A
\* read that fails shows the request an empty session and leaves it open what
\* it and the next will have (`expect` becomes None): the code cannot tell.
ReadYourWrites ==
    [][\A r \in Request :
          (phase[r] = "off" /\ phase'[r] = "open" /\ InFlight = {}
             /\ expect # None /\ expect' # None)
             => sess'[r].values = expect]_vars

\* session.go:114: "Flash stores a value that persists through exactly one
\* redirect."  Once a request that was given the value has been answered, no
\* later request is given it.
FlashedOnce ==
    [][\A q, r \in Request :
          (phase[q] = "sent" /\ reply[q] = None /\ given[q] # None
             /\ phase[r] = "off" /\ phase'[r] = "open")
             => given'[r] # given[q]]_vars
=============================================================================
