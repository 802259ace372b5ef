------------------------------ MODULE Pipeline ------------------------------
(***************************************************************************)
(* The way of a request through the middleware New installs, the guards of *)
(* its route and its handler, for the tabs of one browser:                 *)
(*                                                                         *)
(*   Recover, Logger, SecurityHeaders, ErrorHandler, Session, CSRF, the    *)
(*   application's values, CORS where the application uses it, the guards  *)
(*   of the route, the handler,                                            *)
(*                                                                         *)
(* and back.  A middleware that refuses sends the request back from where  *)
(* it is; a panic goes to Recover at once.  Nothing a request does between *)
(* its arrival and its answer is seen by another but the CSRF cookie, so   *)
(* layers that change nothing have no step of their own.                   *)
(***************************************************************************)
EXTENDS Validation, FiniteSets

CONSTANTS
    Tab,
    Menus,      \* bound: the requests and handler calls that are tried together
    Abilities,  \* Abilities[name]: the users the ability answers TRUE for
    None,
    MaxKey,     \* bound: how often the server is started with a new APP_KEY
    MaxTokens,  \* bound: CSRF tokens
    MaxOps      \* bound: calls of one handler

Token == [key: Nat, n: Nat]

ASSUME PipelineOK ==
    /\ MaxKey \in Nat /\ MaxTokens \in Nat /\ MaxOps \in Nat
    /\ None \notin Tab /\ None \notin Token

\* A route has a list of guards.
ASSUME MenusOK ==
    \A m \in Menus :
        /\ m.tabs \subseteq Tab
        /\ \A r \in m.requests : r.guards \in Seq({r.guards[i] : i \in DOMAIN r.guards})

\* BearerOptions.UnauthorizedStatus, 401 by default, is never 200.
ASSUME BearersRefuse ==
    \A m \in Menus : \A r \in m.requests : \A i \in DOMAIN r.guards :
        r.guards[i].kind = "bearer" => r.guards[i].status \notin {0, 200}

\* A Validator is given a list of rules of each kind for every field.
ASSUME RulesOK ==
    \A m \in Menus :
        m.rules \subseteq [rules: [FieldName -> Seq(AnyRule)], with: [FieldName -> Seq(AnyRule)]]

VARIABLES
    menu,       \* the member of Menus that is tried
    secret,     \* the server's key: a number, 0 if CSRF was given no secret
    issued,     \* how many CSRF tokens were generated
    jar,        \* the browser's CSRF cookie, a token or None
    page,       \* page[t]: the token in the page that tab t shows, or None
    doubt,      \* history: doubt[t] if that token may not be the cookie's
    req,        \* req[t]: the request of tab t that is on its way, or None
    at,         \* at[t]: where that request is
    ctx         \* ctx[t]: its Context and its sessionWriter

vars == <<menu, secret, issued, jar, page, doubt, req, at, ctx>>
server == <<menu, secret, issued, jar, page, doubt, req>>

\* head is the status that was sent, 0 before; todo the guards still to pass;
\* sets the cookie set, csrf the token handed to the page.  The others are
\* history: by who wrote to the body, loose whether the handler did so past the
\* Context, saved whether ensureCookie ran, errors what the Validator found.
NewContext(guards) ==
    [written |-> FALSE, head |-> 0, error |-> FALSE, auto |-> FALSE, todo |-> guards,
     sets |-> None, csrf |-> None, by |-> {}, loose |-> FALSE, saved |-> FALSE,
     reached |-> FALSE, refused |-> FALSE, panicked |-> FALSE, errors |-> None,
     rules |-> None, ops |-> MaxOps]

Init ==
    /\ menu \in Menus
    /\ secret \in {0, 1} /\ issued = 0
    /\ jar = None /\ page = [t \in Tab |-> None] /\ doubt = [t \in Tab |-> TRUE]
    /\ req = [t \in Tab |-> None] /\ at = [t \in Tab |-> "idle"]
    /\ ctx = [t \in Tab |-> NewContext(<<>>)]

-----------------------------------------------------------------------------
(* The request *)

\* A request has a body in the encoding enc, and in r.url the values that stand
\* in the query of its URL.  The router reads the body of a POST to look for
\* _method, whatever its encoding; later ParseForm reads an urlencoded POST, PUT
\* or PATCH only.  What is in the URL is read of every request.
BodyRead(r) ==
    \/ r.enc = "form" /\ r.sent \in {"POST", "PUT", "PATCH"}
    \/ r.enc = "multipart" /\ r.sent = "POST"

FormRead(r, value) == value \in r.url \/ BodyRead(r)

\* A form's _method takes the place of POST.
Routed(r) ==
    IF r.sent = "POST" /\ r.spoof # None /\ FormRead(r, "_method") THEN r.spoof ELSE r.sent

IsUnsafeMethod(method) == method \in {"POST", "PUT", "PATCH", "DELETE"}

\* The X-CSRF-Token header, which scripts send along with JSON, or _token.
ExtractToken(r, token) == IF r.enc = "ajax" \/ FormRead(r, "_token") THEN token ELSE None

\* What Validator reads: r.Form, so nothing of a JSON body.
Data(r) == IF FormRead(r, "data") THEN r.data ELSE [f \in {} |-> Empty]

-----------------------------------------------------------------------------
(* Writing.  The writer is the session's: the first header saves the session. *)

WriteHeader(x, code) ==
    [x EXCEPT !.head = IF @ = 0 THEN code ELSE @, !.saved = TRUE]

\* A body by the handler or the framework, after WriteHeader(code).
Wrote(x, code, who) == [WriteHeader(x, code) EXCEPT !.written = TRUE, !.by = @ \cup {who}]

\* JSON, Text, Redirect and AbortWithStatus leave an answer alone.
Answer(x, code, who) == IF x.written THEN x ELSE Wrote(x, code, who)

JSON(x, code, who)      == Answer(x, code, who)
PlainText(x, code, who) == Answer(x, code, who)
Redirect(x, who)        == Answer(x, 302, who)
AbortWithStatus(x, code, who) == Answer(x, code, who)

\* The header is out before the template is executed, whose error is ignored.
Render(x, who) == IF x.written THEN x ELSE [Wrote(x, 200, who) EXCEPT !.auto = FALSE]

-----------------------------------------------------------------------------
(* Steps of the request of tab t *)

Go(t, to, x) ==
    /\ at' = [at EXCEPT ![t] = to]
    /\ ctx' = [ctx EXCEPT ![t] = x]

Cookieless(t) == at[t] # "idle" /\ req[t].cookie = None

\* Tab t sends r, with the token of its page in it, to ServeHTTP; the session
\* middleware is passed.
Send(t, r) ==
    /\ at[t] = "idle"
    /\ Go(t, "csrf", NewContext(r.guards))
    /\ req' = [u \in Tab |->
          IF u = t THEN [r |-> r, method |-> Routed(r), cookie |-> jar,
                         token |-> ExtractToken(r, page[t]),
                         doubt |-> \E v \in Tab : Cookieless(v)]
          ELSE IF at[u] # "idle" /\ jar = None THEN [req[u] EXCEPT !.doubt = TRUE]
          ELSE req[u]]
    /\ UNCHANGED <<menu, secret, issued, jar, page, doubt>>

\* CSRF, of a request that carries no cookie of ours.
GenerateToken == [key |-> secret, n |-> issued + 1]

\* Mutant: every page is given a token of its own.
CookieTokenRotated(q) ==
    IF q.cookie = None \/ ~IsUnsafeMethod(q.method) THEN GenerateToken ELSE q.cookie

CookieToken(q) == IF q.cookie = None THEN GenerateToken ELSE q.cookie

\* Mutant: the token need not be the cookie's.
TokenSigned(q, token) == q.token # None /\ q.token.key = secret

\* A cookie that was sent is neither verified nor replaced.
TokenOk(q, token) ==
    /\ q.token # None
    /\ q.token.key = secret
    /\ q.token = token

CSRF(t) ==
    LET q == req[t]
        token == CookieToken(q)
        x == [ctx[t] EXCEPT !.csrf = token, !.sets = IF token = q.cookie THEN None ELSE token]
    IN  /\ secret > 0 /\ at[t] = "csrf" /\ ~q.r.exempt
        /\ token # q.cookie => issued < MaxTokens
        /\ issued' = IF token = q.cookie THEN issued ELSE issued + 1
        /\ IF IsUnsafeMethod(q.method) => TokenOk(q, token) THEN Go(t, "guards", x)
           ELSE Go(t, "session", [PlainText(x, 403, "framework") EXCEPT !.refused = TRUE])
        /\ UNCHANGED <<menu, secret, jar, page, doubt, req>>

\* Except or Skip lets the request pass, with no token.
CSRFExempt(t) ==
    /\ secret > 0 /\ at[t] = "csrf" /\ req[t].r.exempt
    /\ Go(t, "guards", ctx[t])
    /\ UNCHANGED server

\* No secret, or no randomness for a token.
CSRFError(t) ==
    /\ at[t] = "csrf" /\ (secret = 0 \/ (~req[t].r.exempt /\ req[t].cookie = None))
    /\ Go(t, "session", PlainText(ctx[t], 500, "framework"))
    /\ UNCHANGED server

Preflight(t) == req[t].r.cors /\ req[t].method = "OPTIONS"

\* CORS answers a preflight, also one no route is registered for.
CORS(t) ==
    /\ at[t] = "guards" /\ Preflight(t)
    /\ Go(t, "session", Wrote(ctx[t], 204, "framework"))
    /\ UNCHANGED server

-----------------------------------------------------------------------------
(* The guards of the route, over what the session, the token and the link say *)

HasRole(who, roles) == who.user # None /\ who.roles \cap roles # {}

\* An ability nobody defined is denied.
Allows(who, name) == name \in DOMAIN Abilities /\ who.user \in Abilities[name]

\* A row of the tokens' table; one whose expiry cannot be read never expires.
Authenticate(bearer) == bearer \in {"live", "undated"}

\* A signed link: the signature covers the expiry, which has to be a number.
Verify(link) == link \in {"live", "undated"}

\* The signature of a JWT covers its claims; an exp that is not a number counts
\* for none.
VerifyJWT(jwt) == jwt \in {"live", "undated"}

Grants(g, who) ==
    CASE g.kind = "login"  -> who.user # None
      [] g.kind = "role"   -> HasRole(who, g.roles)
      [] g.kind = "gate"   -> Allows(who, g.name)
      [] g.kind = "bearer" -> Authenticate(who.bearer)
      [] g.kind = "signed" -> Verify(who.link)
      [] g.kind = "jwt"    -> VerifyJWT(who.jwt)

\* What a guard that refuses answers.
Refusal(g, x) ==
    CASE g.kind = "login"  -> IF g.redirect THEN Redirect(x, "framework")
                              ELSE JSON(x, 401, "framework")
      [] g.kind = "bearer" -> JSON(x, g.status, "framework")
      [] g.kind = "jwt"    -> JSON(x, 401, "framework")
      [] OTHER             -> JSON(x, 403, "framework")

Guard(t) ==
    /\ at[t] = "guards" /\ ~Preflight(t) /\ ctx[t].todo # <<>>
    /\ LET guard == Head(ctx[t].todo) IN
       IF Grants(guard, req[t].r.who) THEN Go(t, "guards", [ctx[t] EXCEPT !.todo = Tail(@)])
       ELSE Go(t, "session", Refusal(guard, ctx[t]))
    /\ UNCHANGED server

-----------------------------------------------------------------------------
(* The handler *)

Passed(t) == at[t] = "guards" /\ ~Preflight(t) /\ ctx[t].todo = <<>>

Kind(t) == req[t].r.kind

\* NotFound and MethodNotAllowed go through the middleware like a handler.
NoRoute(t) ==
    /\ Passed(t) /\ Kind(t) \in {"404", "405"}
    /\ Go(t, "session", PlainText(ctx[t], IF Kind(t) = "404" THEN 404 ELSE 405, "framework"))
    /\ UNCHANGED server

Reach(t) ==
    /\ Passed(t) /\ Kind(t) \in {"plain", "view", "view+error"}
    /\ Go(t, "handler", [ctx[t] EXCEPT !.reached = TRUE])
    /\ UNCHANGED server

\* A method with a model for its second parameter: if the parameter is a
\* pointer no binder is found for it; if it is a struct, and the row is, Call
\* panics on the pointer it is given.
BindModel(t, found) ==
    /\ Passed(t) /\ Kind(t) = "model"
    /\ Go(t, IF found THEN "panic" ELSE "session",
          [ctx[t] EXCEPT !.error = ~found, !.panicked = found])
    /\ UNCHANGED server

\* The handler makes call op, after which its Context is x.
Calls(t, op, x) ==
    /\ at[t] = "handler" /\ op \in menu.ops /\ ctx[t].ops > 0
    /\ Go(t, "handler", [x EXCEPT !.ops = @ - 1])
    /\ UNCHANGED server

\* JSON, Text, Success, Created, Fail, Paginate.
CallJSON(t)     == Calls(t, "json", JSON(ctx[t], 200, "handler"))
CallRedirect(t) == Calls(t, "redirect", Redirect(ctx[t], "handler"))
CallAbort(t)    == Calls(t, "abort", AbortWithStatus(ctx[t], 418, "handler"))
CallRender(t)   == Calls(t, "render", Render(ctx[t], "handler"))
CallAutoView(t) == Calls(t, "view", [ctx[t] EXCEPT !.auto = TRUE])
CallError(t)    == Calls(t, "error", [ctx[t] EXCEPT !.error = TRUE])

\* File, Download and Inline write even after an answer; Download and Inline
\* write nothing if the file cannot be opened, and give the error to the handler.
CallFile(t) ==
    \/ Calls(t, "file", Wrote(ctx[t], 200, "handler"))
    \/ Calls(t, "file", ctx[t])

\* So does NoContent.
CallNoContent(t) == Calls(t, "nocontent", Wrote(ctx[t], 204, "handler"))

\* The handler writes to c.Writer itself.
CallWrite(t) ==
    Calls(t, "write", [WriteHeader(ctx[t], 200) EXCEPT !.by = @ \cup {"handler"}, !.loose = TRUE])

\* The Validator over the request: rules for Field, with for FieldWith.
Judged(t, v) == Errors(Data(req[t].r), v.rules, v.with)

Validated(t, v, x) == [x EXCEPT !.errors = Judged(t, v), !.rules = v]

\* The handler's own Validator, whose findings are its business.
CallValidator(t) ==
    \E v \in menu.rules : Calls(t, "validator", Validated(t, v, ctx[t]))

\* Context.Validate, with no rules of the other kind.
CallValidate(t) ==
    \E v \in menu.rules :
        /\ \A f \in FieldName : v.with[f] = <<>>
        /\ LET x == Validated(t, v, ctx[t]) IN
           Calls(t, "validate", IF Fails(x.errors) THEN JSON(x, 422, "handler") ELSE x)

\* ValidateFormRequest: a body that cannot be bound, Authorize, the rules.
CallFormRequest(t) ==
    \E v \in menu.rules :
        /\ \A f \in FieldName : v.with[f] = <<>>
        /\ LET x == Validated(t, v, ctx[t]) IN
           \/ Calls(t, "formrequest", JSON(ctx[t], 422, "handler"))
           \/ Calls(t, "formrequest", JSON(ctx[t], 403, "handler"))
           \/ Calls(t, "formrequest", IF Fails(x.errors) THEN JSON(x, 422, "handler") ELSE x)

\* The handler panics, which it also does when it uses what SSE returns: the
\* session's writer is no Flusher, and SSE returns nil.
Panics(t) ==
    /\ at[t] = "handler" /\ menu.ops \cap {"panic", "sse"} # {}
    /\ Go(t, "panic", [ctx[t] EXCEPT !.panicked = TRUE])
    /\ UNCHANGED server

\* What a controller's method returns: the name of a view, data or an error.
Returned(t) ==
    {ctx[t]}
    \cup (IF Kind(t) \in {"view", "view+error"} THEN {[ctx[t] EXCEPT !.auto = TRUE]} ELSE {})
    \cup (IF Kind(t) = "view+error" THEN {[ctx[t] EXCEPT !.error = TRUE]} ELSE {})

Return(t) ==
    /\ at[t] = "handler"
    /\ \E x \in Returned(t) : Go(t, "session", x)
    /\ UNCHANGED server

-----------------------------------------------------------------------------
(* The way back *)

\* The session is saved if no header has saved it.
SessionReturns(t) ==
    /\ at[t] = "session"
    /\ Go(t, "errors", [ctx[t] EXCEPT !.saved = TRUE])
    /\ UNCHANGED server

\* Mutant: an error is left to the view that was named.
ErrorHandlerOrView(t) ==
    /\ at[t] = "errors"
    /\ Go(t, "router", IF ctx[t].error /\ ~ctx[t].auto THEN JSON(ctx[t], 500, "framework") ELSE ctx[t])
    /\ UNCHANGED server

ErrorHandler(t) ==
    /\ at[t] = "errors"
    /\ Go(t, "router", IF ctx[t].error THEN JSON(ctx[t], 500, "framework") ELSE ctx[t])
    /\ UNCHANGED server

\* Mutant: Recover does not ask whether there is an answer.
RecoverAnyway(t) ==
    /\ at[t] = "panic"
    /\ Go(t, "router", Wrote(ctx[t], 500, "framework"))
    /\ UNCHANGED server

Recover(t) ==
    /\ at[t] = "panic"
    /\ Go(t, "router", PlainText(ctx[t], 500, "framework"))
    /\ UNCHANGED server

\* ServeHTTP renders the view that was named when nothing is written.
ServeReturns(t) ==
    /\ at[t] = "router"
    /\ Go(t, "sent", IF ctx[t].auto THEN Render(ctx[t], "framework") ELSE ctx[t])
    /\ UNCHANGED server

-----------------------------------------------------------------------------
(* The browser and the operator *)

\* Tab t leaves: its request is over.
Over(t) ==
    /\ at' = [at EXCEPT ![t] = "idle"]
    /\ req' = [req EXCEPT ![t] = None]
    /\ ctx' = [ctx EXCEPT ![t] = NewContext(<<>>)]

\* The response arrives: its cookie is kept, and the answer to a GET is shown.
Deliver(t) ==
    /\ at[t] = "sent"
    /\ jar' = IF ctx[t].sets = None THEN jar ELSE ctx[t].sets
    /\ IF req[t].r.sent = "GET" /\ ctx[t].reached /\ ctx[t].csrf # None
       THEN /\ page' = [page EXCEPT ![t] = ctx[t].csrf]
            /\ doubt' = [doubt EXCEPT ![t] = req[t].doubt]
       ELSE UNCHANGED <<page, doubt>>
    /\ Over(t)
    /\ UNCHANGED <<menu, secret, issued>>

Lose(t) ==
    /\ at[t] = "sent"
    /\ Over(t)
    /\ UNCHANGED <<menu, secret, issued, jar, page, doubt>>

\* The cookie is twelve hours old.
Expire ==
    /\ jar # None
    /\ jar' = None
    /\ doubt' = [t \in Tab |-> TRUE]
    /\ req' = [t \in Tab |-> IF at[t] = "idle" THEN None ELSE [req[t] EXCEPT !.doubt = TRUE]]
    /\ UNCHANGED <<menu, secret, issued, page, at, ctx>>

\* The server is started anew: without APP_KEY that gives it a new key.
Restart ==
    /\ secret \in 1..MaxKey - 1
    /\ secret' = secret + 1
    /\ at' = [t \in Tab |-> "idle"] /\ req' = [t \in Tab |-> None]
    /\ ctx' = [t \in Tab |-> NewContext(<<>>)]
    /\ UNCHANGED <<menu, issued, jar, page, doubt>>

Next ==
    \/ \E t \in menu.tabs :
          \/ \E r \in menu.requests : Send(t, r)
          \/ CSRF(t) \/ CSRFExempt(t) \/ CSRFError(t) \/ CORS(t) \/ Guard(t)
          \/ NoRoute(t) \/ Reach(t) \/ \E found \in BOOLEAN : BindModel(t, found)
          \/ CallJSON(t) \/ CallRedirect(t) \/ CallAbort(t) \/ CallRender(t)
          \/ CallAutoView(t) \/ CallError(t) \/ CallFile(t) \/ CallNoContent(t)
          \/ CallWrite(t) \/ CallValidator(t) \/ CallValidate(t) \/ CallFormRequest(t)
          \/ Panics(t) \/ Return(t)
          \/ SessionReturns(t) \/ ErrorHandler(t) \/ Recover(t) \/ ServeReturns(t)
          \/ Deliver(t) \/ Lose(t)
    \/ Expire \/ Restart

Spec == Init /\ [][Next]_vars

-----------------------------------------------------------------------------
(* Properties *)

\* A handler that changes something is reached only by a form of this browser:
\* with a token of the current key that is the cookie's, under whatever method
\* the form was routed, and only past every guard of its route (csrf.go:55-69).
Admitted ==
    \A t \in Tab : at[t] # "idle" /\ ctx[t].reached =>
        /\ IsUnsafeMethod(req[t].method) /\ ~req[t].r.exempt =>
              /\ req[t].token # None /\ req[t].token = req[t].cookie
              /\ req[t].token.key = secret
        /\ \A i \in DOMAIN req[t].r.guards : Grants(req[t].r.guards[i], req[t].r.who)

\* CSRF refuses a form only if its token cannot be read where it was put, is of
\* an older key, or if, since the page was asked for, the cookie has expired or
\* another request without a cookie was under way (csrf.go:43-68).
NoFalseRefusal ==
    \A t \in Tab : at[t] # "idle" /\ ctx[t].refused =>
        \/ req[t].token = None \/ req[t].token.key # secret \/ doubt[t]

\* The framework adds nothing to an answer that was begun, unless the handler
\* has written past its Context (recover.go:16, error_handler.go:15, router.go:353).
OneAnswer ==
    \A t \in Tab : {"handler", "framework"} \subseteq ctx[t].by => ctx[t].loose

\* A request whose handler fails is answered 500 unless the handler has answered,
\* one that is refused is not answered 200, and the session is saved with every
\* answer (session.go:65-69, recover.go:14-18).
NoSilence ==
    \A t \in Tab : at[t] = "sent" =>
        /\ ctx[t].saved
        /\ ctx[t].panicked \/ ctx[t].error => ctx[t].head = 500 \/ "handler" \in ctx[t].by
        /\ ~ctx[t].reached => ctx[t].head \notin {0, 200}

\* What the Validator finds is what the rules say: of the rules that are not
\* behind a Sometimes of an absent field, those that reject the value, in their
\* order, and none after the first that fails behind a Bail (validator.go:55-93).
ValidatedRight ==
    \A t \in Tab : at[t] # "idle" /\ ctx[t].errors # None =>
        LET data == Data(req[t].r) IN
        \A f \in FieldName :
            LET rules == ctx[t].rules.rules[f]
                with == ctx[t].rules.with[f]
                failing == {i \in DOMAIN rules :
                    /\ rules[i].code \notin {"_bail_", "_skip_"}
                    /\ Value(data, f) \notin rules[i].ok
                    /\ f \in DOMAIN data \/ \A j \in 1..i : rules[j].code # "_skip_"}
                told == {i \in failing : ~\E j \in failing : j < i
                            /\ \E b \in 1..j : rules[b].code = "_bail_"}
                also == {i \in DOMAIN with : Value(data, f) \notin with[i].ok}
                errors == ctx[t].errors[f]
            IN  /\ Len(errors) = Cardinality(told) + Cardinality(also)
                /\ \A i \in told :
                      errors[Cardinality({j \in told : j <= i})] = rules[i].code
                /\ \A i \in also :
                      errors[Cardinality(told) + Cardinality({j \in also : j <= i})] = with[i].code
=============================================================================
