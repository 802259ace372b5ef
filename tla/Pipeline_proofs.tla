--------------------------- MODULE Pipeline_proofs ---------------------------
(***************************************************************************)
(* Proofs about Pipeline for any tabs, any requests and guards, any calls  *)
(* of the handlers, any fields and lists of rules, and any bounds.         *)
(***************************************************************************)
EXTENDS Pipeline, SequenceTheorems, FiniteSetTheorems, WellFoundedInduction, TLAPS

-----------------------------------------------------------------------------
(* What the calls that write make of a Context *)

Fields == {"written", "head", "error", "auto", "todo", "sets", "csrf", "by", "loose", "saved",
           "reached", "refused", "panicked", "errors", "rules", "ops"}

IsContext(x) == DOMAIN x = Fields

\* y is x but for what has to do with the answer.
Keeps(x, y) ==
    /\ IsContext(y)
    /\ \A f \in {"todo", "sets", "csrf", "reached", "refused"} : y[f] = x[f]

LEMMA NewIsContext == ASSUME NEW guards PROVE IsContext(NewContext(guards))
  BY DEF IsContext, NewContext, Fields

LEMMA HeaderFields ==
    ASSUME NEW x, IsContext(x), NEW code
    PROVE  LET y == WriteHeader(x, code) IN
           /\ Keeps(x, y)
           /\ y.saved /\ y.head = IF x.head = 0 THEN code ELSE x.head
           /\ \A f \in Fields \ {"head", "saved"} : y[f] = x[f]
  BY DEF IsContext, Keeps, WriteHeader, Fields

LEMMA WroteFields ==
    ASSUME NEW x, IsContext(x), NEW code, NEW who
    PROVE  LET y == Wrote(x, code, who) IN
           /\ Keeps(x, y)
           /\ y.written /\ y.saved /\ y.by = x.by \cup {who}
           /\ y.head = IF x.head = 0 THEN code ELSE x.head
           /\ \A f \in Fields \ {"head", "saved", "written", "by"} : y[f] = x[f]
  BY DEF IsContext, Keeps, Wrote, WriteHeader, Fields

LEMMA RenderFields ==
    ASSUME NEW x, IsContext(x), NEW who
    PROVE  LET y == Render(x, who) IN
           /\ Keeps(x, y)
           /\ x.written => y = x
           /\ ~x.written =>
                /\ y.written /\ y.saved /\ y.by = x.by \cup {who}
                /\ y.head = IF x.head = 0 THEN 200 ELSE x.head
                /\ \A f \in Fields \ {"head", "saved", "written", "by", "auto"} : y[f] = x[f]
<1> DEFINE z == Wrote(x, 200, who)
<1>1. CASE x.written
  BY <1>1 DEF Render, Keeps, IsContext
<1>2. CASE ~x.written
  <2>1. Render(x, who) = [z EXCEPT !.auto = FALSE]
    BY <1>2 DEF Render
  <2>2. /\ Keeps(x, z)
        /\ z.written /\ z.saved /\ z.by = x.by \cup {who}
        /\ z.head = IF x.head = 0 THEN 200 ELSE x.head
        /\ \A f \in Fields \ {"head", "saved", "written", "by"} : z[f] = x[f]
    BY WroteFields
  <2> HIDE DEF z
  <2> QED
    BY <1>2, <2>1, <2>2 DEF Keeps, IsContext, Fields
<1> QED
  BY <1>1, <1>2

\* A guard that refuses writes an answer, and not 200.
LEMMA RefusalAnswers ==
    ASSUME NEW x, ~x.written, NEW g, g.kind = "bearer" => g.status \notin {0, 200}
    PROVE  \E code : code \notin {0, 200} /\ Refusal(g, x) = Wrote(x, code, "framework")
<1> USE DEF Refusal, Redirect, JSON, Answer
<1>1. CASE g.kind = "login"
  BY <1>1
<1>2. CASE g.kind = "bearer"
  BY <1>2
<1>3. CASE g.kind = "jwt"
  BY <1>3
<1>4. CASE g.kind \notin {"login", "bearer", "jwt"}
  BY <1>4
<1> QED
  BY <1>1, <1>2, <1>3, <1>4

-----------------------------------------------------------------------------
(* The answer: what a Context says of it at place a *)

Unanswered(x) ==
    ~x.written /\ x.head = 0 /\ ~x.error /\ ~x.panicked /\ ~x.reached

Answering(a, x) ==
    /\ x.by \subseteq {"handler", "framework"}
    /\ x.head = 0 <=> x.by = {}
    /\ x.written => x.head # 0 /\ x.saved
    /\ x.head # 0 => x.written \/ x.loose
    /\ x.loose => "handler" \in x.by
    /\ {"handler", "framework"} \subseteq x.by => x.loose
    /\ a \in {"csrf", "guards"} => Unanswered(x)
    /\ a \in {"handler", "panic"} => "framework" \notin x.by
    /\ a = "handler" => x.reached
    /\ x.panicked => a \in {"panic", "router", "sent"}
    /\ a \in {"session", "errors"} /\ x.error /\ x.head # 0 => "handler" \in x.by
    /\ a \in {"errors", "router", "sent"} => x.saved
    /\ a \in {"router", "sent"} /\ (x.panicked \/ x.error) =>
          x.written /\ (x.head = 500 \/ "handler" \in x.by)
    /\ ~x.reached =>
          /\ a \in {"session", "errors"} =>
                (x.written /\ x.head \notin {0, 200}) \/ (x.error /\ x.head = 0)
          /\ a = "panic" => x.head = 0
          /\ a \in {"router", "sent"} => x.written /\ x.head \notin {0, 200}

\* Only the fields of the answer matter.
LEMMA SameAnswering ==
    ASSUME NEW a, NEW x, NEW y, Answering(a, x),
           \A f \in {"written", "head", "error", "by", "loose", "saved", "reached", "panicked"} :
              y[f] = x[f]
    PROVE  Answering(a, y)
  BY DEF Answering, Unanswered

\* The framework answers a request it refuses.
LEMMA RefusedAnswering ==
    ASSUME NEW x, IsContext(x), NEW a \in {"csrf", "guards"}, Answering(a, x),
           NEW code, code \notin {0, 200}
    PROVE  LET y == Wrote(x, code, "framework") IN Keeps(x, y) /\ Answering("session", y)
<1> DEFINE y == Wrote(x, code, "framework")
<1>1. /\ Keeps(x, y) /\ y.written /\ y.saved /\ y.by = {"framework"} /\ y.head = code
      /\ \A f \in Fields \ {"head", "saved", "written", "by"} : y[f] = x[f]
  BY WroteFields DEF Answering, Unanswered
<1> HIDE DEF y
<1>2. ~y.error /\ ~y.panicked /\ ~y.reached /\ ~y.loose
  BY <1>1 DEF Answering, Unanswered, Fields
<1>3. Answering("session", y)
  BY <1>1, <1>2 DEF Answering
<1> QED
  BY <1>1, <1>3 DEF y

\* The handler writes, whether or not there is an answer already.
LEMMA HandlerWrites ==
    ASSUME NEW x, IsContext(x), Answering("handler", x), NEW code, code # 0
    PROVE  LET y == Wrote(x, code, "handler") IN Keeps(x, y) /\ Answering("handler", y)
<1> DEFINE y == Wrote(x, code, "handler")
<1>1. /\ Keeps(x, y) /\ y.written /\ y.saved /\ y.by = x.by \cup {"handler"}
      /\ y.head = IF x.head = 0 THEN code ELSE x.head
      /\ \A f \in Fields \ {"head", "saved", "written", "by"} : y[f] = x[f]
  BY WroteFields
<1> HIDE DEF y
<1>2. y.error = x.error /\ y.panicked = x.panicked /\ y.reached = x.reached /\ y.loose = x.loose
  BY <1>1 DEF Fields
<1>3. Answering("handler", y)
  BY <1>1, <1>2 DEF Answering
<1> QED
  BY <1>1, <1>3 DEF y

LEMMA HandlerAnswers ==
    ASSUME NEW x, IsContext(x), Answering("handler", x), NEW code, code # 0
    PROVE  LET y == Answer(x, code, "handler") IN Keeps(x, y) /\ Answering("handler", y)
<1>1. CASE x.written
  BY <1>1 DEF Answer, Keeps
<1>2. CASE ~x.written
  BY <1>2, HandlerWrites DEF Answer
<1> QED
  BY <1>1, <1>2

\* Recover and ErrorHandler: 500, unless there is an answer.
LEMMA FailureAnswering ==
    ASSUME NEW x, IsContext(x), NEW a \in {"panic", "errors"}, Answering(a, x),
           a = "panic" \/ x.error
    PROVE  LET y == Answer(x, 500, "framework") IN Keeps(x, y) /\ Answering("router", y)
<1>1. CASE x.written
  BY <1>1 DEF Answer, Keeps, Answering
<1>2. CASE ~x.written
  <2> DEFINE y == Wrote(x, 500, "framework")
  <2>1. /\ Keeps(x, y) /\ y.written /\ y.saved /\ y.by = x.by \cup {"framework"}
        /\ y.head = IF x.head = 0 THEN 500 ELSE x.head
        /\ \A f \in Fields \ {"head", "saved", "written", "by"} : y[f] = x[f]
    BY WroteFields
  <2> HIDE DEF y
  <2>2. y.error = x.error /\ y.panicked = x.panicked /\ y.reached = x.reached /\ y.loose = x.loose
    BY <2>1 DEF Fields
  <2>3. Answering("router", y)
    BY <1>2, <2>1, <2>2 DEF Answering
  <2> QED
    BY <1>2, <2>1, <2>3 DEF Answer, y
<1> QED
  BY <1>1, <1>2

\* ServeHTTP renders a view that was named.
LEMMA RenderAnswering ==
    ASSUME NEW x, IsContext(x), Answering("router", x)
    PROVE  LET y == Render(x, "framework") IN Keeps(x, y) /\ Answering("sent", y)
<1> DEFINE y == Render(x, "framework")
<1>1. Keeps(x, y)
  BY RenderFields
<1>2. CASE x.written
  <2>1. y = x
    BY <1>2, RenderFields
  <2> HIDE DEF y
  <2> QED
    BY <1>1, <2>1 DEF Answering, y
<1>3. CASE ~x.written
  <2>1. /\ y.written /\ y.saved /\ y.by = x.by \cup {"framework"}
        /\ y.head = IF x.head = 0 THEN 200 ELSE x.head
        /\ \A f \in Fields \ {"head", "saved", "written", "by", "auto"} : y[f] = x[f]
    BY <1>3, RenderFields
  <2> HIDE DEF y
  <2>2. y.error = x.error /\ y.panicked = x.panicked /\ y.reached = x.reached /\ y.loose = x.loose
    BY <2>1 DEF Fields
  <2>3. Answering("sent", y)
    BY <1>3, <2>1, <2>2 DEF Answering
  <2> QED
    BY <1>1, <2>3 DEF y
<1> QED
  BY <1>2, <1>3

-----------------------------------------------------------------------------
(* The inductive invariant *)

Place == {"idle", "csrf", "guards", "handler", "panic", "session", "errors", "router", "sent"}

\* The tokens that have been handed out.
Known == [key: Nat, n: 1..issued]

\* todo are the guards still to pass of r, which has passed those before them.
Waits(todo, r) ==
    LET Guarding == {r.guards[i] : i \in DOMAIN r.guards}
        behind == Len(r.guards) - Len(todo)
    IN  /\ r.guards \in Seq(Guarding) /\ todo \in Seq(Guarding)
        /\ Len(todo) <= Len(r.guards)
        /\ \A i \in 1..Len(todo) : todo[i] = r.guards[behind + i]
        /\ \A i \in 1..behind : Grants(r.guards[i], r.who)

\* CSRF lets the request pass.
Authentic(q) ==
    IsUnsafeMethod(q.method) /\ ~q.r.exempt =>
        q.token # None /\ q.token = q.cookie /\ q.token.key = secret

\* How far the request q at place a has come: past CSRF, past its guards.
Passing(a, x, q) ==
    /\ q.r \in menu.requests
    /\ Waits(x.todo, q.r)
    /\ x.reached => x.todo = <<>>
    /\ a = "guards" \/ x.reached => Authentic(q)

\* Its tokens: the page's, the cookie's, and the one its own page will get.
Carrying(t) ==
    /\ DOMAIN req[t] = {"r", "method", "cookie", "token", "doubt"}
    /\ req[t].doubt \in BOOLEAN
    /\ req[t].cookie \in Known \cup {None}
    /\ req[t].token \in Known \cup {None} /\ req[t].token \in {page[t], None}
    /\ ctx[t].csrf \in Known \cup {None}
    /\ ctx[t].sets # None => req[t].cookie = None
    /\ ctx[t].csrf # None =>
          ctx[t].csrf = IF req[t].cookie = None THEN ctx[t].sets ELSE req[t].cookie
    /\ ctx[t].sets \in {ctx[t].csrf, None}

\* What can be relied on when there is no doubt: the page shows the cookie's
\* token, and no request under way will bring another.
Relying ==
    /\ \A t \in Tab : ~doubt[t] =>
          jar # None /\ page[t] = jar /\ \A v \in Tab : ~Cookieless(v)
    /\ \A t \in Tab : at[t] # "idle" /\ ~doubt[t] => req[t].cookie = jar
    /\ \A t \in Tab : at[t] # "idle" /\ ~req[t].doubt =>
          req[t].cookie = jar /\ \A v \in Tab : Cookieless(v) => v = t

Typing ==
    /\ menu \in Menus
    /\ secret \in Nat /\ issued \in Nat
    /\ jar \in Known \cup {None} /\ page \in [Tab -> Known \cup {None}]
    /\ doubt \in [Tab -> BOOLEAN]
    /\ at \in [Tab -> Place] /\ DOMAIN ctx = Tab /\ DOMAIN req = Tab

IInv ==
    /\ Typing /\ Relying
    /\ \A t \in Tab :
          /\ IsContext(ctx[t]) /\ Answering(at[t], ctx[t])
          /\ at[t] # "idle" => Passing(at[t], ctx[t], req[t]) /\ Carrying(t)
    /\ NoFalseRefusal

LEMMA InitInv == Init => IInv
<1> SUFFICES ASSUME Init PROVE IInv
  OBVIOUS
<1>1. Typing
  BY PipelineOK DEF Init, Typing, Place
<1>2. ASSUME NEW t \in Tab PROVE IsContext(ctx[t]) /\ Answering(at[t], ctx[t])
  BY NewIsContext DEF Init, NewContext, Answering
<1>3. Relying /\ NoFalseRefusal
  BY DEF Init, Relying, NoFalseRefusal
<1> QED
  BY <1>1, <1>2, <1>3 DEF Init, IInv

-----------------------------------------------------------------------------
(* Steps of one request that leave everything outside its Context alone *)

LEMMA LocalStep ==
    ASSUME IInv, NEW t \in Tab, at[t] # "idle", NEW to \in Place \ {"idle"}, NEW y,
           Go(t, to, y), UNCHANGED server,
           IsContext(y), Answering(to, y), Passing(to, y, req[t]),
           y.sets = ctx[t].sets, y.csrf = ctx[t].csrf, y.refused => ctx[t].refused
    PROVE  IInv'
<1> USE DEF server
<1>1. /\ at'[t] = to /\ ctx'[t] = y
      /\ \A u \in Tab \ {t} : at'[u] = at[u] /\ ctx'[u] = ctx[u]
      /\ at' \in [Tab -> Place] /\ DOMAIN ctx' = Tab
  BY DEF IInv, Typing, Go
<1>2. Typing'
  BY <1>1 DEF IInv, Typing, Known
<1>3. \A u \in Tab : (at'[u] = "idle" <=> at[u] = "idle") /\ (Cookieless(u)' <=> Cookieless(u))
  BY <1>1 DEF Cookieless
<1>4. Relying'
  BY <1>3 DEF IInv, Relying
<1>5. ASSUME NEW u \in Tab, at'[u] # "idle" PROVE Passing(at[u], ctx[u], req[u])'
  <2>1. CASE u = t
    BY <1>1, <2>1 DEF Passing, Authentic
  <2>2. CASE u # t
    BY <1>1, <1>5, <2>2 DEF IInv, Passing, Authentic
  <2> QED
    BY <2>1, <2>2
<1>6. ASSUME NEW u \in Tab, at'[u] # "idle" PROVE Carrying(u)'
  <2>1. Carrying(u) /\ ctx'[u].sets = ctx[u].sets /\ ctx'[u].csrf = ctx[u].csrf
    BY <1>1, <1>6 DEF IInv
  <2> QED
    BY <2>1 DEF Carrying, Known
<1>7. \A u \in Tab : IsContext(ctx'[u]) /\ Answering(at'[u], ctx'[u])
  BY <1>1 DEF IInv
<1>8. NoFalseRefusal'
  <2>1. \A u \in Tab : ctx'[u].refused => ctx[u].refused
    BY <1>1
  <2> QED
    BY <1>3, <2>1 DEF IInv, NoFalseRefusal
<1> QED
  BY <1>2, <1>4, <1>5, <1>6, <1>7, <1>8 DEF IInv

\* The request goes on with what it carries, past the same guards.
LEMMA KeepingStep ==
    ASSUME IInv, NEW t \in Tab, at[t] # "idle", NEW to \in Place \ {"idle"}, NEW y,
           Go(t, to, y), UNCHANGED server, Keeps(ctx[t], y), Answering(to, y), to # "guards"
    PROVE  IInv'
<1>1. Passing(to, y, req[t])
  BY DEF IInv, Passing, Keeps
<1> QED
  BY <1>1, LocalStep DEF Keeps

-----------------------------------------------------------------------------
(* Before the handler *)

LEMMA CSRFExemptInv == ASSUME IInv, NEW t \in Tab, CSRFExempt(t) PROVE IInv'
<1>1. at[t] # "idle" /\ Answering("csrf", ctx[t]) /\ Passing("csrf", ctx[t], req[t])
  BY DEF CSRFExempt, IInv
<1>2. Answering("guards", ctx[t])
  BY <1>1 DEF Answering
<1>3. Passing("guards", ctx[t], req[t])
  BY <1>1 DEF CSRFExempt, Passing, Authentic
<1> QED
  BY <1>1, <1>2, <1>3, LocalStep DEF CSRFExempt, IInv, Place

LEMMA CSRFErrorInv == ASSUME IInv, NEW t \in Tab, CSRFError(t) PROVE IInv'
<1>1. at[t] # "idle" /\ Answering("csrf", ctx[t]) /\ IsContext(ctx[t])
  BY DEF CSRFError, IInv
<1>2. PlainText(ctx[t], 500, "framework") = Wrote(ctx[t], 500, "framework")
  BY <1>1 DEF PlainText, Answer, Answering, Unanswered
<1> QED
  BY <1>1, <1>2, RefusedAnswering, KeepingStep DEF CSRFError, Place

LEMMA CORSInv == ASSUME IInv, NEW t \in Tab, CORS(t) PROVE IInv'
<1>1. at[t] # "idle" /\ Answering("guards", ctx[t]) /\ IsContext(ctx[t])
  BY DEF CORS, IInv
<1> QED
  BY <1>1, RefusedAnswering, KeepingStep DEF CORS, Place

\* One guard fewer to pass.
LEMMA GuardPassed ==
    ASSUME NEW todo, NEW r, Waits(todo, r), todo # <<>>, Grants(Head(todo), r.who)
    PROVE  Waits(Tail(todo), r)
<1> DEFINE Guarding == {r.guards[i] : i \in DOMAIN r.guards}
           left == Tail(todo)
           behind == Len(r.guards) - Len(todo)
<1>1. /\ left \in Seq(Guarding) /\ Len(left) = Len(todo) - 1 /\ Head(todo) = todo[1]
      /\ \A i \in 1..Len(left) : left[i] = todo[i + 1]
      /\ Len(todo) \in Nat \ {0} /\ Len(r.guards) \in Nat
  BY HeadTailProperties, LenProperties, EmptySeq DEF Waits
<1>2. /\ r.guards \in Seq(Guarding) /\ Len(todo) <= Len(r.guards)
      /\ \A i \in 1..Len(todo) : todo[i] = r.guards[behind + i]
      /\ \A i \in 1..behind : Grants(r.guards[i], r.who)
  BY DEF Waits
<1> HIDE DEF left, Guarding
<1>3. /\ Len(r.guards) - Len(left) = behind + 1 /\ behind \in Nat
      /\ Len(left) \in Nat /\ Len(todo) = Len(left) + 1
  BY <1>1, <1>2
<1> HIDE DEF behind
<1>4. \A i \in 1..Len(left) : left[i] = r.guards[(behind + 1) + i]
  <2> TAKE i \in 1..Len(left)
  <2>1. i + 1 \in 1..Len(todo) /\ behind + (i + 1) = (behind + 1) + i
    BY <1>3
  <2> QED
    BY <1>1, <1>2, <2>1
<1>5. \A i \in 1..(behind + 1) : Grants(r.guards[i], r.who)
  <2>1. Head(todo) = r.guards[behind + 1]
    <3>1. 1 \in 1..Len(todo)
      BY <1>1
    <3> QED
      BY <1>1, <1>2, <3>1
  <2>2. \A i \in 1..(behind + 1) : i \in 1..behind \/ i = behind + 1
    BY <1>3
  <2> QED
    BY <1>2, <2>1, <2>2
<1>6. Len(left) <= Len(r.guards)
  BY <1>3, <1>1
<1> QED
  BY <1>1, <1>2, <1>3, <1>4, <1>5, <1>6 DEF Waits, left, Guarding

LEMMA GuardInv == ASSUME IInv, NEW t \in Tab, Guard(t) PROVE IInv'
<1> DEFINE x == ctx[t]
           g == Head(x.todo)
<1>1. /\ at[t] = "guards" /\ IsContext(x) /\ Answering("guards", x)
      /\ Passing("guards", x, req[t]) /\ x.todo # <<>>
  BY DEF Guard, IInv
<1>2. CASE Grants(g, req[t].r.who)
  <2> DEFINE y == [x EXCEPT !.todo = Tail(@)]
  <2>1. Go(t, "guards", y)
    BY <1>2 DEF Guard
  <2>2. /\ IsContext(y) /\ y.todo = Tail(x.todo)
        /\ \A f \in Fields \ {"todo"} : y[f] = x[f]
    BY <1>1 DEF IsContext, Fields
  <2>3. Waits(y.todo, req[t].r)
    BY <1>1, <1>2, <2>2, GuardPassed DEF Passing
  <2> HIDE DEF y
  <2>4. Answering("guards", y)
    BY <1>1, <2>2, SameAnswering DEF Fields
  <2>5. ~y.reached /\ ~x.reached
    BY <1>1, <2>2 DEF Answering, Unanswered, Fields
  <2>6. Passing("guards", y, req[t])
    BY <1>1, <2>3, <2>5 DEF Passing
  <2> QED
    BY <1>1, <2>1, <2>2, <2>4, <2>6, LocalStep DEF Guard, Place, Fields
<1>3. CASE ~Grants(g, req[t].r.who)
  <2>1. g.kind = "bearer" => g.status \notin {0, 200}
    <3>1. Waits(x.todo, req[t].r) /\ req[t].r \in menu.requests /\ menu \in Menus
      BY <1>1 DEF Passing, IInv, Typing
    <3>2. \E i \in DOMAIN req[t].r.guards : g = req[t].r.guards[i]
      BY <1>1, <3>1, HeadTailProperties, SMTT(30) DEF Waits
    <3>3. \A i \in DOMAIN req[t].r.guards :
            req[t].r.guards[i].kind = "bearer" => req[t].r.guards[i].status \notin {0, 200}
      BY <3>1, BearersRefuse
    <3> QED
      BY <3>2, <3>3
  <2>2. PICK code : code \notin {0, 200} /\ Refusal(g, x) = Wrote(x, code, "framework")
    BY <1>1, <2>1, RefusalAnswers DEF Answering, Unanswered
  <2>3. Go(t, "session", Wrote(x, code, "framework"))
    BY <1>3, <2>2 DEF Guard
  <2> QED
    BY <1>1, <2>2, <2>3, RefusedAnswering, KeepingStep DEF Guard, Place
<1> QED
  BY <1>2, <1>3

LEMMA NoRouteInv == ASSUME IInv, NEW t \in Tab, NoRoute(t) PROVE IInv'
<1>1. at[t] # "idle" /\ Answering("guards", ctx[t]) /\ IsContext(ctx[t])
  BY DEF NoRoute, Passed, IInv
<1>2. \A code : PlainText(ctx[t], code, "framework") = Wrote(ctx[t], code, "framework")
  BY <1>1 DEF PlainText, Answer, Answering, Unanswered
<1>3. PICK code \in {404, 405} : Go(t, "session", Wrote(ctx[t], code, "framework"))
  BY <1>2 DEF NoRoute
<1> QED
  BY <1>1, <1>3, RefusedAnswering, KeepingStep DEF NoRoute, Passed, Place

LEMMA ReachInv == ASSUME IInv, NEW t \in Tab, Reach(t) PROVE IInv'
<1> DEFINE x == ctx[t]
           y == [x EXCEPT !.reached = TRUE]
<1>1. /\ at[t] = "guards" /\ IsContext(x) /\ Answering("guards", x)
      /\ Passing("guards", x, req[t]) /\ x.todo = <<>>
  BY DEF Reach, Passed, IInv
<1>2. IsContext(y) /\ y.reached /\ \A f \in Fields \ {"reached"} : y[f] = x[f]
  BY <1>1 DEF IsContext, Fields
<1>3. Go(t, "handler", y)
  BY DEF Reach
<1> HIDE DEF y
<1>4. /\ y.written = x.written /\ y.head = x.head /\ y.error = x.error /\ y.by = x.by
      /\ y.loose = x.loose /\ y.saved = x.saved /\ y.panicked = x.panicked
  BY <1>2 DEF Fields
<1>5. Answering("handler", y)
  BY <1>1, <1>2, <1>4 DEF Answering, Unanswered
<1>6. Passing("handler", y, req[t])
  BY <1>1, <1>2 DEF Passing, Fields
<1> QED
  BY <1>1, <1>2, <1>3, <1>5, <1>6, LocalStep DEF Reach, Place, Fields

LEMMA BindModelInv ==
    ASSUME IInv, NEW t \in Tab, NEW found \in BOOLEAN, BindModel(t, found) PROVE IInv'
<1> DEFINE x == ctx[t]
           y == [x EXCEPT !.error = ~found, !.panicked = found]
           to == IF found THEN "panic" ELSE "session"
<1>1. at[t] = "guards" /\ IsContext(x) /\ Answering("guards", x)
  BY DEF BindModel, Passed, IInv
<1>2. /\ IsContext(y) /\ (y.error <=> ~found) /\ (y.panicked <=> found)
      /\ \A f \in Fields \ {"error", "panicked"} : y[f] = x[f]
  BY <1>1 DEF IsContext, Fields
<1>3. Go(t, to, y)
  BY DEF BindModel
<1> HIDE DEF y
<1>4. /\ y.written = x.written /\ y.head = x.head /\ y.reached = x.reached /\ y.by = x.by
      /\ y.loose = x.loose /\ y.saved = x.saved
  BY <1>2 DEF Fields
<1>5. Answering(to, y)
  BY <1>1, <1>2, <1>4 DEF Answering, Unanswered
<1>6. Keeps(x, y)
  BY <1>2 DEF Keeps, Fields
<1> QED
  BY <1>1, <1>3, <1>5, <1>6, KeepingStep DEF BindModel, Place

-----------------------------------------------------------------------------
(* The handler *)

\* A call of the handler, after which its Context is x.
LEMMA CallsInv ==
    ASSUME IInv, NEW t \in Tab, NEW op, NEW x, Calls(t, op, x),
           Keeps(ctx[t], x), Answering("handler", x)
    PROVE  IInv'
<1> DEFINE y == [x EXCEPT !.ops = @ - 1]
<1>1. IsContext(y) /\ \A f \in Fields \ {"ops"} : y[f] = x[f]
  BY DEF Keeps, IsContext, Fields
<1>2. Go(t, "handler", y) /\ at[t] = "handler" /\ UNCHANGED server
  BY DEF Calls
<1> HIDE DEF y
<1>3. Keeps(ctx[t], y)
  BY <1>1 DEF Keeps, Fields
<1>4. Answering("handler", y)
  BY <1>1, SameAnswering DEF Fields
<1> QED
  BY <1>2, <1>3, <1>4, KeepingStep DEF Place

LEMMA InHandler ==
    ASSUME IInv, NEW t \in Tab, at[t] = "handler"
    PROVE  IsContext(ctx[t]) /\ Answering("handler", ctx[t]) /\ Keeps(ctx[t], ctx[t])
  BY DEF IInv, Keeps

\* What is no part of the answer.
LEMMA AsideAnswering ==
    ASSUME NEW x, Answering("handler", x), NEW y, IsContext(y),
           \A f \in Fields \ {"auto", "errors", "rules"} : y[f] = x[f]
    PROVE  Keeps(x, y) /\ Answering("handler", y)
<1>1. Keeps(x, y)
  BY DEF Keeps, Fields
<1>2. \A f \in {"written", "head", "error", "by", "loose", "saved", "reached", "panicked"} :
         y[f] = x[f]
  BY DEF Fields
<1> QED
  BY <1>1, <1>2, SameAnswering

\* JSON, Redirect, AbortWithStatus: an answer unless there is one.
LEMMA AnsweringCallsInv ==
    ASSUME IInv, NEW t \in Tab, CallJSON(t) \/ CallRedirect(t) \/ CallAbort(t)
    PROVE  IInv'
<1>1. at[t] = "handler"
  BY DEF CallJSON, CallRedirect, CallAbort, Calls
<1>2. PICK op, code : code # 0 /\ Calls(t, op, Answer(ctx[t], code, "handler"))
  BY DEF CallJSON, CallRedirect, CallAbort, JSON, Redirect, AbortWithStatus
<1> QED
  BY <1>1, <1>2, InHandler, HandlerAnswers, CallsInv

LEMMA CallRenderInv == ASSUME IInv, NEW t \in Tab, CallRender(t) PROVE IInv'
<1> DEFINE x == ctx[t]
           y == Render(x, "handler")
<1>1. at[t] = "handler" /\ Calls(t, "render", y)
  BY DEF CallRender, Calls
<1>2. IsContext(x) /\ Answering("handler", x)
  BY <1>1, InHandler
<1>3. Keeps(x, y)
  BY <1>2, RenderFields
<1>4. Answering("handler", y)
  <2>1. CASE x.written
    BY <1>2, <2>1, RenderFields
  <2>2. CASE ~x.written
    <3>1. /\ y.written /\ y.saved /\ y.by = x.by \cup {"handler"}
          /\ y.head = IF x.head = 0 THEN 200 ELSE x.head
          /\ \A f \in Fields \ {"head", "saved", "written", "by", "auto"} : y[f] = x[f]
      BY <1>2, <2>2, RenderFields
    <3> HIDE DEF y
    <3>2. y.error = x.error /\ y.panicked = x.panicked /\ y.reached = x.reached /\ y.loose = x.loose
      BY <3>1 DEF Fields
    <3> QED
      BY <1>2, <3>1, <3>2 DEF Answering
  <2> QED
    BY <2>1, <2>2
<1> QED
  BY <1>1, <1>3, <1>4, CallsInv

\* File and NoContent write in any case, but for a file that cannot be opened.
LEMMA WritingCallsInv ==
    ASSUME IInv, NEW t \in Tab, CallFile(t) \/ CallNoContent(t) PROVE IInv'
<1>1. at[t] = "handler"
  BY DEF CallFile, CallNoContent, Calls
<1>2. CASE Calls(t, "file", ctx[t])
  BY <1>1, <1>2, InHandler, CallsInv
<1>3. CASE \E op, code : code # 0 /\ Calls(t, op, Wrote(ctx[t], code, "handler"))
  <2>1. PICK op, code : code # 0 /\ Calls(t, op, Wrote(ctx[t], code, "handler"))
    BY <1>3
  <2> QED
    BY <1>1, <2>1, InHandler, HandlerWrites, CallsInv
<1> QED
  BY <1>2, <1>3 DEF CallFile, CallNoContent

\* The handler's own writing does not count as an answer.
LEMMA CallWriteInv == ASSUME IInv, NEW t \in Tab, CallWrite(t) PROVE IInv'
<1> DEFINE x == ctx[t]
           h == WriteHeader(x, 200)
           y == [h EXCEPT !.by = @ \cup {"handler"}, !.loose = TRUE]
<1>1. at[t] = "handler" /\ Calls(t, "write", y)
  BY DEF CallWrite, Calls
<1>2. IsContext(x) /\ Answering("handler", x)
  BY <1>1, InHandler
<1>3. /\ IsContext(h) /\ h.saved /\ h.head = IF x.head = 0 THEN 200 ELSE x.head
      /\ \A f \in Fields \ {"head", "saved"} : h[f] = x[f]
  BY <1>2, HeaderFields DEF Keeps
<1> HIDE DEF h
<1>4. /\ IsContext(y) /\ y.by = h.by \cup {"handler"} /\ y.loose
      /\ \A f \in Fields \ {"by", "loose"} : y[f] = h[f]
  BY <1>3 DEF IsContext, Fields
<1> HIDE DEF y
<1>5. /\ y.saved /\ y.head = IF x.head = 0 THEN 200 ELSE x.head
      /\ y.by = x.by \cup {"handler"} /\ y.written = x.written /\ y.error = x.error
      /\ y.panicked = x.panicked /\ y.reached = x.reached
  BY <1>3, <1>4 DEF Fields
<1>6. Answering("handler", y)
  BY <1>2, <1>4, <1>5 DEF Answering
<1>7. Keeps(x, y)
  BY <1>3, <1>4 DEF Keeps, Fields
<1> QED
  BY <1>1, <1>6, <1>7, CallsInv

LEMMA CallAutoViewInv == ASSUME IInv, NEW t \in Tab, CallAutoView(t) PROVE IInv'
<1> DEFINE y == [ctx[t] EXCEPT !.auto = TRUE]
<1>1. at[t] = "handler" /\ Calls(t, "view", y)
  BY DEF CallAutoView, Calls
<1>2. IsContext(y) /\ \A f \in Fields \ {"auto"} : y[f] = ctx[t][f]
  BY <1>1, InHandler DEF IsContext, Fields
<1> HIDE DEF y
<1>3. Keeps(ctx[t], y) /\ Answering("handler", y)
  BY <1>1, <1>2, InHandler, AsideAnswering
<1> QED
  BY <1>1, <1>3, CallsInv

LEMMA ErrorSet ==
    ASSUME NEW x, IsContext(x), Answering("handler", x)
    PROVE  LET y == [x EXCEPT !.error = TRUE] IN Keeps(x, y) /\ Answering("handler", y)
<1> DEFINE y == [x EXCEPT !.error = TRUE]
<1>1. IsContext(y) /\ y.error /\ \A f \in Fields \ {"error"} : y[f] = x[f]
  BY DEF IsContext, Fields
<1> HIDE DEF y
<1>2. /\ y.written = x.written /\ y.head = x.head /\ y.by = x.by /\ y.loose = x.loose
      /\ y.saved = x.saved /\ y.panicked = x.panicked /\ y.reached = x.reached
  BY <1>1 DEF Fields
<1>3. Answering("handler", y)
  BY <1>1, <1>2 DEF Answering
<1> QED
  BY <1>1, <1>3 DEF Keeps, Fields, y

LEMMA CallErrorInv == ASSUME IInv, NEW t \in Tab, CallError(t) PROVE IInv'
<1>1. at[t] = "handler"
  BY DEF CallError, Calls
<1> QED
  BY <1>1, InHandler, ErrorSet, CallsInv DEF CallError

\* What a Validator finds, and the answer it may lead to.
LEMMA JudgedContext ==
    ASSUME IInv, NEW t \in Tab, at[t] = "handler", NEW v
    PROVE  LET x == Validated(t, v, ctx[t]) IN
           IsContext(x) /\ Keeps(ctx[t], x) /\ Answering("handler", x)
<1> DEFINE x == Validated(t, v, ctx[t])
<1>1. IsContext(x) /\ \A f \in Fields \ {"errors", "rules"} : x[f] = ctx[t][f]
  BY InHandler DEF Validated, IsContext, Fields
<1> HIDE DEF x
<1>2. Keeps(ctx[t], x) /\ Answering("handler", x)
  BY <1>1, InHandler, AsideAnswering
<1> QED
  BY <1>1, <1>2 DEF x

LEMMA ValidatingCallsInv ==
    ASSUME IInv, NEW t \in Tab, CallValidator(t) \/ CallValidate(t) \/ CallFormRequest(t)
    PROVE  IInv'
<1>1. at[t] = "handler"
  BY DEF CallValidator, CallValidate, CallFormRequest, Calls
<1>2. ASSUME NEW v, NEW op,
             \/ Calls(t, op, Validated(t, v, ctx[t]))
             \/ Calls(t, op, JSON(Validated(t, v, ctx[t]), 422, "handler"))
      PROVE  IInv'
  <2> DEFINE x == Validated(t, v, ctx[t])
             y == JSON(x, 422, "handler")
  <2>1. IsContext(x) /\ Keeps(ctx[t], x) /\ Answering("handler", x)
    BY <1>1, JudgedContext
  <2> HIDE DEF x
  <2>2. Keeps(x, y) /\ Answering("handler", y)
    BY <2>1, HandlerAnswers DEF JSON
  <2>3. Keeps(ctx[t], y)
    BY <2>1, <2>2 DEF Keeps
  <2> QED
    BY <1>2, <2>1, <2>2, <2>3, CallsInv DEF x
<1>3. ASSUME NEW op, NEW code, code # 0, Calls(t, op, JSON(ctx[t], code, "handler"))
      PROVE  IInv'
  BY <1>1, <1>3, InHandler, HandlerAnswers, CallsInv DEF JSON
<1>4. CASE CallValidator(t)
  BY <1>2, <1>4 DEF CallValidator
<1>5. CASE CallValidate(t)
  <2>1. PICK v : LET x == Validated(t, v, ctx[t]) IN
            Calls(t, "validate", IF Fails(x.errors) THEN JSON(x, 422, "handler") ELSE x)
    BY <1>5 DEF CallValidate
  <2>2. CASE Fails(Validated(t, v, ctx[t]).errors)
    BY <1>2, <2>1, <2>2
  <2>3. CASE ~Fails(Validated(t, v, ctx[t]).errors)
    BY <1>2, <2>1, <2>3
  <2> QED
    BY <2>2, <2>3
<1>6. CASE CallFormRequest(t)
  <2>1. PICK v : LET x == Validated(t, v, ctx[t]) IN
            \/ Calls(t, "formrequest", JSON(ctx[t], 422, "handler"))
            \/ Calls(t, "formrequest", JSON(ctx[t], 403, "handler"))
            \/ Calls(t, "formrequest", IF Fails(x.errors) THEN JSON(x, 422, "handler") ELSE x)
    BY <1>6 DEF CallFormRequest
  <2>2. CASE \/ Calls(t, "formrequest", JSON(ctx[t], 422, "handler"))
             \/ Calls(t, "formrequest", JSON(ctx[t], 403, "handler"))
    BY <1>3, <2>2
  <2>3. CASE Fails(Validated(t, v, ctx[t]).errors)
    BY <1>2, <2>1, <2>2, <2>3
  <2>4. CASE ~Fails(Validated(t, v, ctx[t]).errors)
    BY <1>2, <2>1, <2>2, <2>4
  <2> QED
    BY <2>3, <2>4
<1> QED
  BY <1>4, <1>5, <1>6

LEMMA PanicsInv == ASSUME IInv, NEW t \in Tab, Panics(t) PROVE IInv'
<1> DEFINE x == ctx[t]
           y == [x EXCEPT !.panicked = TRUE]
<1>1. at[t] = "handler" /\ Go(t, "panic", y) /\ UNCHANGED server
  BY DEF Panics
<1>2. IsContext(y) /\ y.panicked /\ \A f \in Fields \ {"panicked"} : y[f] = x[f]
  BY <1>1, InHandler DEF IsContext, Fields
<1> HIDE DEF y
<1>3. /\ y.written = x.written /\ y.head = x.head /\ y.by = x.by /\ y.loose = x.loose
      /\ y.saved = x.saved /\ y.error = x.error /\ y.reached = x.reached
  BY <1>2 DEF Fields
<1>4. Answering("panic", y)
  BY <1>1, <1>2, <1>3, InHandler DEF Answering
<1>5. Keeps(x, y)
  BY <1>2 DEF Keeps, Fields
<1> QED
  BY <1>1, <1>4, <1>5, KeepingStep DEF Place

\* An answer that stands in the handler stands when it returns.
LEMMA ReturnedAnswering ==
    ASSUME NEW x, IsContext(x), Answering("handler", x) PROVE Answering("session", x)
  BY DEF Answering

LEMMA ReturnInv == ASSUME IInv, NEW t \in Tab, Return(t) PROVE IInv'
<1> DEFINE x == ctx[t]
<1>1. at[t] = "handler" /\ UNCHANGED server
  BY DEF Return
<1>2. PICK y \in Returned(t) : Go(t, "session", y)
  BY DEF Return
<1>3. IsContext(x) /\ Answering("handler", x)
  BY <1>1, InHandler
<1>4. Keeps(x, y) /\ Answering("handler", y)
  <2>1. CASE y = x
    BY <1>3, <2>1 DEF Keeps
  <2>2. CASE y = [x EXCEPT !.auto = TRUE]
    <3>1. IsContext(y) /\ \A f \in Fields \ {"auto"} : y[f] = x[f]
      BY <1>3, <2>2 DEF IsContext, Fields
    <3> QED
      BY <1>3, <3>1, AsideAnswering
  <2>3. CASE y = [x EXCEPT !.error = TRUE]
    BY <1>3, <2>3, ErrorSet
  <2> QED
    BY <1>2, <2>1, <2>2, <2>3 DEF Returned
<1> QED
  BY <1>1, <1>2, <1>4, ReturnedAnswering, KeepingStep DEF Place, Keeps

-----------------------------------------------------------------------------
(* The way back *)

LEMMA SessionReturnsInv == ASSUME IInv, NEW t \in Tab, SessionReturns(t) PROVE IInv'
<1> DEFINE x == ctx[t]
           y == [x EXCEPT !.saved = TRUE]
<1>1. at[t] = "session" /\ Go(t, "errors", y) /\ UNCHANGED server
  BY DEF SessionReturns
<1>2. IsContext(x) /\ Answering("session", x)
  BY <1>1 DEF IInv
<1>3. IsContext(y) /\ y.saved /\ \A f \in Fields \ {"saved"} : y[f] = x[f]
  BY <1>2 DEF IsContext, Fields
<1> HIDE DEF y
<1>4. /\ y.written = x.written /\ y.head = x.head /\ y.by = x.by /\ y.loose = x.loose
      /\ y.panicked = x.panicked /\ y.error = x.error /\ y.reached = x.reached
  BY <1>3 DEF Fields
<1>5. Answering("errors", y)
  BY <1>2, <1>3, <1>4 DEF Answering
<1>6. Keeps(x, y)
  BY <1>3 DEF Keeps, Fields
<1> QED
  BY <1>1, <1>5, <1>6, KeepingStep DEF Place

LEMMA ErrorHandlerInv == ASSUME IInv, NEW t \in Tab, ErrorHandler(t) PROVE IInv'
<1> DEFINE x == ctx[t]
<1>1. at[t] = "errors" /\ IsContext(x) /\ Answering("errors", x) /\ UNCHANGED server
  BY DEF ErrorHandler, IInv
<1>2. CASE x.error
  BY <1>1, <1>2, FailureAnswering, KeepingStep DEF ErrorHandler, JSON, Place
<1>3. CASE ~x.error
  <2>1. Answering("router", x) /\ Keeps(x, x)
    BY <1>1, <1>3 DEF Answering, Keeps
  <2> QED
    BY <1>1, <1>3, <2>1, KeepingStep DEF ErrorHandler, Place
<1> QED
  BY <1>2, <1>3

LEMMA RecoverInv == ASSUME IInv, NEW t \in Tab, Recover(t) PROVE IInv'
<1>1. at[t] = "panic" /\ IsContext(ctx[t]) /\ Answering("panic", ctx[t])
  BY DEF Recover, IInv
<1> QED
  BY <1>1, FailureAnswering, KeepingStep DEF Recover, PlainText, Place

LEMMA ServeReturnsInv == ASSUME IInv, NEW t \in Tab, ServeReturns(t) PROVE IInv'
<1> DEFINE x == ctx[t]
<1>1. at[t] = "router" /\ IsContext(x) /\ Answering("router", x) /\ UNCHANGED server
  BY DEF ServeReturns, IInv
<1>2. CASE x.auto
  BY <1>1, <1>2, RenderAnswering, KeepingStep DEF ServeReturns, Place
<1>3. CASE ~x.auto
  <2>1. Answering("sent", x) /\ Keeps(x, x)
    BY <1>1 DEF Answering, Keeps
  <2> QED
    BY <1>1, <1>3, <2>1, KeepingStep DEF ServeReturns, Place
<1> QED
  BY <1>2, <1>3

-----------------------------------------------------------------------------
(* Steps that touch the cookie, the pages or the key *)

LEMMA NewWaits == ASSUME NEW r, NEW m \in Menus, r \in m.requests PROVE Waits(r.guards, r)
<1>1. r.guards \in Seq({r.guards[i] : i \in DOMAIN r.guards})
  BY MenusOK
<1>2. Len(r.guards) \in Nat
  BY <1>1, LenProperties
<1>3. /\ Len(r.guards) - Len(r.guards) = 0 /\ Len(r.guards) <= Len(r.guards)
      /\ \A i \in 1..Len(r.guards) : 0 + i = i
  BY <1>2
<1>4. \A i \in 1..0 : FALSE
  OBVIOUS
<1> QED
  BY <1>1, <1>3, <1>4 DEF Waits

LEMMA NewAnswering ==
    ASSUME NEW guards, NEW a \in {"csrf", "idle"}
    PROVE  Answering(a, NewContext(guards))
  BY DEF NewContext, Answering, Unanswered

LEMMA SendInv ==
    ASSUME IInv, NEW t \in Tab, NEW r \in menu.requests, Send(t, r) PROVE IInv'
<1> DEFINE x == NewContext(r.guards)
<1>1. /\ at' = [at EXCEPT ![t] = "csrf"] /\ ctx' = [ctx EXCEPT ![t] = x] /\ at[t] = "idle"
      /\ UNCHANGED <<menu, secret, issued, jar, page, doubt>>
  BY DEF Send, Go
<1>2. req' = [u \in Tab |->
          IF u = t THEN [r |-> r, method |-> Routed(r), cookie |-> jar,
                         token |-> ExtractToken(r, page[t]),
                         doubt |-> \E v \in Tab : Cookieless(v)]
          ELSE IF at[u] # "idle" /\ jar = None THEN [req[u] EXCEPT !.doubt = TRUE]
          ELSE req[u]]
  BY DEF Send
<1>3. /\ DOMAIN req'[t] = {"r", "method", "cookie", "token", "doubt"}
      /\ req'[t].r = r /\ req'[t].cookie = jar /\ req'[t].token = ExtractToken(r, page[t])
      /\ req'[t].doubt = \E v \in Tab : Cookieless(v)
  BY <1>2
<1>4. ASSUME NEW u \in Tab, u # t, at[u] # "idle"
      PROVE  /\ DOMAIN req'[u] = {"r", "method", "cookie", "token", "doubt"}
             /\ \A f \in {"r", "method", "cookie", "token"} : req'[u][f] = req[u][f]
             /\ req'[u].doubt = IF jar = None THEN TRUE ELSE req[u].doubt
  <2>1. DOMAIN req[u] = {"r", "method", "cookie", "token", "doubt"}
    BY <1>4 DEF IInv, Carrying
  <2>2. CASE jar = None
    <3>1. req'[u] = [req[u] EXCEPT !.doubt = TRUE]
      BY <1>2, <1>4, <2>2
    <3> QED
      BY <2>1, <2>2, <3>1
  <2>3. CASE jar # None
    <3>1. req'[u] = req[u]
      BY <1>2, <2>3, <1>4
    <3> QED
      BY <2>1, <2>3, <3>1
  <2> QED
    BY <2>2, <2>3
<1>5. /\ at'[t] = "csrf" /\ ctx'[t] = x
      /\ \A u \in Tab \ {t} : at'[u] = at[u] /\ ctx'[u] = ctx[u]
      /\ at' \in [Tab -> Place] /\ DOMAIN ctx' = Tab /\ DOMAIN req' = Tab
  BY <1>1, <1>2 DEF IInv, Typing, Place
<1> HIDE DEF x
<1>6. Typing'
  BY <1>1, <1>5 DEF IInv, Typing, Known
<1>7. \A u \in Tab : Cookieless(u)' <=> IF u = t THEN jar = None ELSE Cookieless(u)
  BY <1>3, <1>4, <1>5 DEF Cookieless
<1>8. Relying'
  <2>1. ASSUME NEW u \in Tab, ~doubt[u]
        PROVE  jar # None /\ page[u] = jar /\ \A v \in Tab : ~Cookieless(v)'
    BY <1>7, <2>1 DEF IInv, Relying
  <2>2. ASSUME NEW u \in Tab, at'[u] # "idle", ~doubt[u] PROVE req'[u].cookie = jar
    BY <1>3, <1>4, <1>5, <2>2 DEF IInv, Relying
  <2>3. ASSUME NEW u \in Tab, at'[u] # "idle", ~req'[u].doubt
        PROVE  req'[u].cookie = jar /\ \A v \in Tab : Cookieless(v)' => v = u
    <3>1. CASE u = t
      BY <1>3, <1>7, <2>3, <3>1
    <3>2. CASE u # t
      <4>1. jar # None /\ ~req[u].doubt /\ req'[u].cookie = req[u].cookie /\ at[u] # "idle"
        BY <1>4, <1>5, <2>3, <3>2
      <4> QED
        BY <1>7, <4>1 DEF IInv, Relying
    <3> QED
      BY <3>1, <3>2
  <2> QED
    BY <1>1, <2>1, <2>2, <2>3 DEF Relying
<1>9. ASSUME NEW u \in Tab, at'[u] # "idle" PROVE Passing(at[u], ctx[u], req[u])'
  <2>1. CASE u = t
    <3>1. Waits(x.todo, r) /\ ~x.reached
      BY NewWaits DEF x, NewContext, IInv, Typing
    <3> QED
      BY <1>1, <1>3, <1>5, <2>1, <3>1 DEF Passing
  <2>2. CASE u # t
    <3>1. Passing(at[u], ctx[u], req[u]) /\ at[u] # "idle"
      BY <1>5, <1>9, <2>2 DEF IInv
    <3>2. /\ req'[u].r = req[u].r /\ req'[u].method = req[u].method
          /\ req'[u].cookie = req[u].cookie /\ req'[u].token = req[u].token
      BY <1>4, <2>2, <3>1
    <3> QED
      BY <1>1, <1>5, <2>2, <3>1, <3>2 DEF Passing, Authentic
  <2> QED
    BY <2>1, <2>2
<1>10. ASSUME NEW u \in Tab, at'[u] # "idle" PROVE Carrying(u)'
  <2>1. CASE u = t
    <3>1. x.sets = None /\ x.csrf = None
      BY DEF x, NewContext
    <3>2. jar \in Known \cup {None} /\ page[t] \in Known \cup {None} /\ Known' = Known
      BY <1>1 DEF IInv, Typing, Known
    <3>3. req'[t].token \in {page[t], None}
      BY <1>3 DEF ExtractToken
    <3> QED
      BY <1>1, <1>3, <1>5, <2>1, <3>1, <3>2, <3>3 DEF Carrying
  <2>2. CASE u # t
    <3>1. Carrying(u) /\ at[u] # "idle" /\ Known' = Known
      BY <1>1, <1>5, <1>10, <2>2 DEF IInv, Known
    <3>2. /\ DOMAIN req'[u] = {"r", "method", "cookie", "token", "doubt"}
          /\ req'[u].cookie = req[u].cookie /\ req'[u].token = req[u].token
          /\ req'[u].doubt \in BOOLEAN
      BY <1>4, <2>2, <3>1 DEF Carrying
    <3> QED
      BY <1>1, <1>5, <2>2, <3>1, <3>2 DEF Carrying
  <2> QED
    BY <2>1, <2>2
<1>11. \A u \in Tab : IsContext(ctx'[u]) /\ Answering(at'[u], ctx'[u])
  BY <1>5, NewIsContext, NewAnswering DEF IInv, x
<1>12. NoFalseRefusal'
  <2>1. ~x.refused
    BY DEF x, NewContext
  <2>2. ASSUME NEW u \in Tab, at'[u] # "idle", ctx'[u].refused
        PROVE  /\ at[u] # "idle" /\ ctx[u].refused
               /\ req'[u].token = req[u].token
    BY <1>4, <1>5, <2>1, <2>2
  <2> QED
    BY <1>1, <2>2 DEF IInv, NoFalseRefusal
<1> QED
  BY <1>6, <1>8, <1>9, <1>10, <1>11, <1>12 DEF IInv

\* CSRF lets a form pass only with a token that was handed out before, and
\* refuses one only if its token can be doubted.
LEMMA CSRFInv == ASSUME IInv, NEW t \in Tab, CSRF(t) PROVE IInv'
<1> DEFINE q == req[t]
           token == CookieToken(q)
           sets == IF token = q.cookie THEN None ELSE token
           x == [ctx[t] EXCEPT !.csrf = token, !.sets = sets]
           refusal == [PlainText(x, 403, "framework") EXCEPT !.refused = TRUE]
<1>1. /\ at[t] = "csrf" /\ ~q.r.exempt
      /\ issued' = IF token = q.cookie THEN issued ELSE issued + 1
      /\ UNCHANGED <<menu, secret, jar, page, doubt, req>>
  BY DEF CSRF
<1>2. /\ IsContext(ctx[t]) /\ Answering("csrf", ctx[t]) /\ Passing("csrf", ctx[t], q)
      /\ Carrying(t) /\ Typing /\ Relying
  BY <1>1 DEF IInv
<1>3. \/ Go(t, "guards", x) /\ (IsUnsafeMethod(q.method) => TokenOk(q, token))
      \/ Go(t, "session", refusal) /\ ~TokenOk(q, token)
  BY DEF CSRF
<1>4. /\ IsContext(x) /\ x.csrf = token /\ x.sets = sets
      /\ \A f \in Fields \ {"csrf", "sets"} : x[f] = ctx[t][f]
  BY <1>2 DEF IsContext, Fields
<1> HIDE DEF x
<1>5. /\ x.written = ctx[t].written /\ x.head = ctx[t].head /\ x.by = ctx[t].by
      /\ x.loose = ctx[t].loose /\ x.saved = ctx[t].saved /\ x.error = ctx[t].error
      /\ x.panicked = ctx[t].panicked /\ x.reached = ctx[t].reached /\ x.todo = ctx[t].todo
  BY <1>4 DEF Fields
<1>6. Answering("csrf", x) /\ ~x.reached
  BY <1>2, <1>5, SameAnswering DEF Answering, Unanswered
\* The token is the cookie's, or a new one that will be the cookie.
<1>7. /\ issued' \in Nat /\ Known \subseteq Known' /\ token \in Known'
      /\ q.cookie = None => sets = token /\ token \notin Known
      /\ q.cookie # None => sets = None /\ token = q.cookie
  <2>1. CASE q.cookie # None
    BY <1>1, <1>2, <2>1 DEF CookieToken, Carrying, Typing, Known
  <2>2. CASE q.cookie = None
    <3>1. token = [key |-> secret, n |-> issued + 1] /\ secret \in Nat /\ issued \in Nat
      BY <1>2, <2>2 DEF CookieToken, GenerateToken, Typing
    <3>2. token \in Token
      BY <3>1 DEF Token
    <3>3. token # None
      BY <3>2, PipelineOK
    <3>4. issued' = issued + 1
      BY <1>1, <2>2, <3>3
    <3> QED
      BY <2>2, <3>1, <3>3, <3>4 DEF Known
  <2> QED
    BY <2>1, <2>2
<1> HIDE DEF token, sets
<1>8. token # None
  <2>1. token \in Token
    BY <1>7 DEF Known, Token
  <2> QED
    BY <2>1, PipelineOK
\* What becomes of the request, whichever way it goes.
<1>9. \E to \in Place \ {"idle"} : \E y :
         /\ Go(t, to, y) /\ IsContext(y) /\ Answering(to, y)
         /\ y.csrf = token /\ y.sets = sets /\ y.todo = ctx[t].todo /\ ~y.reached
         /\ to = "guards" => (IsUnsafeMethod(q.method) => TokenOk(q, token))
         /\ y.refused => ~TokenOk(q, token) \/ ctx[t].refused
  <2>1. CASE Go(t, "guards", x) /\ (IsUnsafeMethod(q.method) => TokenOk(q, token))
    <3>1. Answering("guards", x)
      BY <1>6 DEF Answering
    <3>2. x.refused = ctx[t].refused
      BY <1>4 DEF Fields
    <3> QED
      BY <1>4, <1>5, <1>6, <2>1, <3>1, <3>2 DEF Place
  <2>2. CASE Go(t, "session", refusal) /\ ~TokenOk(q, token)
    <3> DEFINE w == Wrote(x, 403, "framework")
    <3>1. refusal = [w EXCEPT !.refused = TRUE]
      BY <1>6 DEF PlainText, Answer, Answering, Unanswered
    <3>2. Keeps(x, w) /\ Answering("session", w)
      BY <1>4, <1>6, RefusedAnswering
    <3> HIDE DEF w
    <3>3. IsContext(refusal) /\ \A f \in Fields \ {"refused"} : refusal[f] = w[f]
      BY <3>1, <3>2 DEF Keeps, IsContext, Fields
    <3> HIDE DEF refusal
    <3>4. Answering("session", refusal)
      BY <3>2, <3>3, SameAnswering DEF Fields
    <3>5. /\ refusal.csrf = x.csrf /\ refusal.sets = x.sets /\ refusal.todo = x.todo
          /\ refusal.reached = x.reached
      BY <3>2, <3>3 DEF Keeps, Fields
    <3> QED
      BY <1>4, <1>5, <1>6, <2>2, <3>3, <3>4, <3>5 DEF Place
  <2> QED
    BY <1>3, <2>1, <2>2
<1>19. PICK to \in Place \ {"idle"} : \E y :
         /\ Go(t, to, y) /\ IsContext(y) /\ Answering(to, y)
         /\ y.csrf = token /\ y.sets = sets /\ y.todo = ctx[t].todo /\ ~y.reached
         /\ to = "guards" => (IsUnsafeMethod(q.method) => TokenOk(q, token))
         /\ y.refused => ~TokenOk(q, token) \/ ctx[t].refused
  BY <1>9
<1>20. PICK y :
         /\ Go(t, to, y) /\ IsContext(y) /\ Answering(to, y)
         /\ y.csrf = token /\ y.sets = sets /\ y.todo = ctx[t].todo /\ ~y.reached
         /\ to = "guards" => (IsUnsafeMethod(q.method) => TokenOk(q, token))
         /\ y.refused => ~TokenOk(q, token) \/ ctx[t].refused
  BY <1>19
<1>10. /\ at'[t] = to /\ ctx'[t] = y
       /\ \A u \in Tab \ {t} : at'[u] = at[u] /\ ctx'[u] = ctx[u]
       /\ at' \in [Tab -> Place] /\ DOMAIN ctx' = Tab
  BY <1>2, <1>20 DEF Typing, Go
<1>11. Typing'
  BY <1>1, <1>2, <1>7, <1>10 DEF Typing
<1>12. \A u \in Tab : (at'[u] = "idle" <=> at[u] = "idle") /\ (Cookieless(u)' <=> Cookieless(u))
  BY <1>1, <1>10 DEF Cookieless
<1>13. Relying'
  BY <1>1, <1>2, <1>12 DEF Relying
<1>14. ASSUME NEW u \in Tab, at'[u] # "idle" PROVE Passing(at[u], ctx[u], req[u])'
  <2>1. CASE u = t
    <3>1. to = "guards" => Authentic(q)
      <4> SUFFICES ASSUME TokenOk(q, token) PROVE q.token # None /\ q.token = q.cookie /\ q.token.key = secret
        BY <1>20 DEF Authentic
      <4>1. q.token # None /\ q.token.key = secret /\ q.token = token
        BY DEF TokenOk
      <4>2. q.token \in Known
        BY <1>2, <4>1 DEF Carrying
      <4> QED
        BY <1>7, <4>1, <4>2
    <3> QED
      BY <1>1, <1>2, <1>20, <1>10, <2>1, <3>1 DEF Passing, Authentic
  <2>2. CASE u # t
    BY <1>1, <1>10, <1>14, <2>2 DEF IInv, Passing, Authentic
  <2> QED
    BY <2>1, <2>2
<1>15. ASSUME NEW u \in Tab, at'[u] # "idle" PROVE Carrying(u)'
  <2>1. CASE u = t
    BY <1>1, <1>2, <1>7, <1>8, <1>20, <1>10, <2>1 DEF Carrying
  <2>2. CASE u # t
    <3>1. Carrying(u)
      BY <1>10, <1>15, <2>2 DEF IInv
    <3> QED
      BY <1>1, <1>7, <1>10, <2>2, <3>1 DEF Carrying
  <2> QED
    BY <2>1, <2>2
<1>16. \A u \in Tab : IsContext(ctx'[u]) /\ Answering(at'[u], ctx'[u])
  BY <1>20, <1>10 DEF IInv
<1>17. ASSUME ~TokenOk(q, token) PROVE q.token = None \/ q.token.key # secret \/ doubt[t]
  <2> SUFFICES ASSUME q.token # None, q.token.key = secret, ~doubt[t] PROVE FALSE
    OBVIOUS
  <2>1. q.token = page[t] /\ page[t] = jar /\ q.cookie = jar /\ jar # None
    BY <1>1, <1>2 DEF Carrying, Relying
  <2> QED
    BY <1>7, <1>17, <2>1 DEF TokenOk
<1>18. NoFalseRefusal'
  BY <1>1, <1>20, <1>10, <1>12, <1>17 DEF IInv, NoFalseRefusal
<1> QED
  BY <1>11, <1>13, <1>14, <1>15, <1>16, <1>18 DEF IInv

-----------------------------------------------------------------------------
(* The browser and the operator *)

\* When tab t is done the other tabs have what they had.
LEMMA OverInv ==
    ASSUME IInv, NEW t \in Tab, Over(t), UNCHANGED <<menu, secret, issued>>, Relying',
           jar' \in Known \cup {None}, page' \in [Tab -> Known \cup {None}],
           doubt' \in [Tab -> BOOLEAN],
           \A u \in Tab \ {t} : page'[u] = page[u] /\ doubt'[u] = doubt[u]
    PROVE  IInv'
<1> DEFINE x == NewContext(<<>>)
<1>1. /\ at'[t] = "idle" /\ ctx'[t] = x
      /\ \A u \in Tab \ {t} : at'[u] = at[u] /\ ctx'[u] = ctx[u] /\ req'[u] = req[u]
      /\ at' \in [Tab -> Place] /\ DOMAIN ctx' = Tab /\ DOMAIN req' = Tab
  BY DEF IInv, Typing, Over, Place
<1> HIDE DEF x
<1>2. Known' = Known
  BY DEF Known
<1>3. Typing'
  BY <1>1, <1>2 DEF IInv, Typing
<1>4. \A u \in Tab : IsContext(ctx'[u]) /\ Answering(at'[u], ctx'[u])
  BY <1>1, NewIsContext, NewAnswering DEF IInv, x
<1>5. ASSUME NEW u \in Tab, at'[u] # "idle"
      PROVE  Passing(at[u], ctx[u], req[u])' /\ Carrying(u)'
  <2>1. u # t /\ Passing(at[u], ctx[u], req[u]) /\ Carrying(u)
    BY <1>1, <1>5 DEF IInv
  <2>2. Passing(at[u], ctx[u], req[u])'
    BY <1>1, <2>1 DEF Passing, Authentic
  <2>3. Carrying(u)'
    BY <1>1, <1>2, <2>1 DEF Carrying
  <2> QED
    BY <2>2, <2>3
<1>6. NoFalseRefusal'
  BY <1>1 DEF IInv, NoFalseRefusal
<1> QED
  BY <1>3, <1>4, <1>5, <1>6 DEF IInv

\* A response that brings a cookie comes from a request that had none; while it
\* was under way everything else was in doubt.
LEMMA DeliverInv == ASSUME IInv, NEW t \in Tab, Deliver(t) PROVE IInv'
<1>1. /\ Over(t) /\ UNCHANGED <<menu, secret, issued>> /\ at[t] # "idle"
      /\ jar' = IF ctx[t].sets = None THEN jar ELSE ctx[t].sets
      /\ \/ /\ ctx[t].csrf # None
            /\ page' = [page EXCEPT ![t] = ctx[t].csrf]
            /\ doubt' = [doubt EXCEPT ![t] = req[t].doubt]
         \/ UNCHANGED <<page, doubt>>
  BY DEF Deliver
<1>2. Typing /\ Relying /\ Carrying(t)
  BY <1>1 DEF IInv
<1>3. jar' \in Known \cup {None}
  BY <1>1, <1>2 DEF Typing, Carrying
<1>4. page' \in [Tab -> Known \cup {None}] /\ doubt' \in [Tab -> BOOLEAN]
  BY <1>1, <1>2 DEF Typing, Carrying
<1>5. \A u \in Tab \ {t} : page'[u] = page[u] /\ doubt'[u] = doubt[u]
  BY <1>1, <1>2 DEF Typing
<1>6. /\ at'[t] = "idle"
      /\ \A u \in Tab \ {t} : at'[u] = at[u] /\ req'[u] = req[u]
  BY <1>1, <1>2 DEF Over, Typing
<1>7. \A u \in Tab : Cookieless(u)' <=> u # t /\ Cookieless(u)
  BY <1>6 DEF Cookieless
\* The page that is shown is the cookie's, unless another cookie is on its way.
<1>8. ASSUME ~doubt'[t]
      PROVE  jar' # None /\ page'[t] = jar' /\ \A v \in Tab : ~Cookieless(v)'
  <2>1. CASE UNCHANGED <<page, doubt>>
    <3>1. ~doubt[t] /\ ~Cookieless(t)
      BY <1>2, <1>8, <2>1 DEF Relying
    <3>2. ctx[t].sets = None
      BY <1>1, <1>2, <3>1 DEF Carrying, Cookieless
    <3> QED
      BY <1>1, <1>2, <1>7, <2>1, <3>1, <3>2 DEF Relying
  <2>2. CASE /\ ctx[t].csrf # None
             /\ page' = [page EXCEPT ![t] = ctx[t].csrf]
             /\ doubt' = [doubt EXCEPT ![t] = req[t].doubt]
    <3>1. ~req[t].doubt /\ page'[t] = ctx[t].csrf
      BY <1>2, <1>8, <2>2 DEF Typing
    <3>2. req[t].cookie = jar /\ \A v \in Tab : Cookieless(v) => v = t
      BY <1>1, <1>2, <3>1 DEF Relying
    <3>3. jar' = ctx[t].csrf
      BY <1>1, <1>2, <2>2, <3>2 DEF Carrying
    <3> QED
      BY <1>7, <2>2, <3>1, <3>2, <3>3
  <2> QED
    BY <1>1, <2>1, <2>2
<1>9. ASSUME NEW u \in Tab, u # t, ~doubt[u] \/ (at[u] # "idle" /\ ~req[u].doubt)
      PROVE  ~Cookieless(t) /\ jar' = jar
  <2>1. ~Cookieless(t)
    BY <1>2, <1>9 DEF Relying
  <2> QED
    BY <1>1, <1>2, <2>1 DEF Carrying, Cookieless
<1>10. Relying'
  <2>1. ASSUME NEW u \in Tab, ~doubt'[u]
        PROVE  jar' # None /\ page'[u] = jar' /\ \A v \in Tab : ~Cookieless(v)'
    <3>1. CASE u = t
      BY <1>8, <2>1, <3>1
    <3>2. CASE u # t
      BY <1>2, <1>5, <1>7, <1>9, <2>1, <3>2 DEF Relying
    <3> QED
      BY <3>1, <3>2
  <2>2. ASSUME NEW u \in Tab, at'[u] # "idle", ~doubt'[u] PROVE req'[u].cookie = jar'
    BY <1>2, <1>5, <1>6, <1>9, <2>2 DEF Relying
  <2>3. ASSUME NEW u \in Tab, at'[u] # "idle", ~req'[u].doubt
        PROVE  req'[u].cookie = jar' /\ \A v \in Tab : Cookieless(v)' => v = u
    BY <1>2, <1>6, <1>7, <1>9, <2>3 DEF Relying
  <2> QED
    BY <2>1, <2>2, <2>3 DEF Relying
<1> QED
  BY <1>1, <1>3, <1>4, <1>5, <1>10, OverInv

LEMMA LoseInv == ASSUME IInv, NEW t \in Tab, Lose(t) PROVE IInv'
<1>1. Over(t) /\ UNCHANGED <<menu, secret, issued, jar, page, doubt>>
  BY DEF Lose
<1>2. Typing /\ Relying
  BY DEF IInv
<1>3. /\ at'[t] = "idle"
      /\ \A u \in Tab \ {t} : at'[u] = at[u] /\ req'[u] = req[u]
  BY <1>1, <1>2 DEF Over, Typing
<1>4. \A u \in Tab : Cookieless(u)' => Cookieless(u)
  BY <1>3 DEF Cookieless
<1>5. Relying'
  BY <1>1, <1>2, <1>3, <1>4 DEF Relying
<1> QED
  BY <1>1, <1>2, <1>5, OverInv DEF Typing

LEMMA ExpireInv == ASSUME IInv, Expire PROVE IInv'
<1>1. /\ jar' = None /\ doubt' = [u \in Tab |-> TRUE]
      /\ req' = [u \in Tab |-> IF at[u] = "idle" THEN None ELSE [req[u] EXCEPT !.doubt = TRUE]]
      /\ UNCHANGED <<menu, secret, issued, page, at, ctx>>
  BY DEF Expire
<1>2. Typing' /\ Known' = Known
  BY <1>1 DEF IInv, Typing, Known
<1>3. ASSUME NEW u \in Tab, at[u] # "idle"
      PROVE  /\ DOMAIN req'[u] = {"r", "method", "cookie", "token", "doubt"}
             /\ \A f \in {"r", "method", "cookie", "token"} : req'[u][f] = req[u][f]
             /\ req'[u].doubt
  <2>1. req'[u] = [req[u] EXCEPT !.doubt = TRUE]
    BY <1>1, <1>3
  <2>2. DOMAIN req[u] = {"r", "method", "cookie", "token", "doubt"}
    BY <1>3 DEF IInv, Carrying
  <2> QED
    BY <2>1, <2>2
<1>4. Relying' /\ NoFalseRefusal'
  BY <1>1, <1>3 DEF Relying, NoFalseRefusal
<1>5. ASSUME NEW u \in Tab, at'[u] # "idle"
      PROVE  Passing(at[u], ctx[u], req[u])' /\ Carrying(u)'
  <2>1. at[u] # "idle" /\ Passing(at[u], ctx[u], req[u]) /\ Carrying(u)
    BY <1>1, <1>5 DEF IInv
  <2>2. /\ req'[u].r = req[u].r /\ req'[u].method = req[u].method
        /\ req'[u].cookie = req[u].cookie /\ req'[u].token = req[u].token
        /\ req'[u].doubt = TRUE /\ DOMAIN req'[u] = {"r", "method", "cookie", "token", "doubt"}
    BY <1>3, <2>1
  <2>3. Passing(at[u], ctx[u], req[u])'
    BY <1>1, <2>1, <2>2 DEF Passing, Authentic
  <2>4. Carrying(u)'
    BY <1>1, <1>2, <2>1, <2>2 DEF Carrying
  <2> QED
    BY <2>3, <2>4
<1> QED
  BY <1>1, <1>2, <1>4, <1>5 DEF IInv

LEMMA RestartInv == ASSUME IInv, Restart PROVE IInv'
<1>1. /\ secret \in 1..MaxKey - 1 /\ secret' = secret + 1
      /\ at' = [u \in Tab |-> "idle"] /\ req' = [u \in Tab |-> None]
      /\ ctx' = [u \in Tab |-> NewContext(<<>>)]
      /\ UNCHANGED <<menu, issued, jar, page, doubt>>
  BY DEF Restart
<1>2. Typing'
  BY <1>1, PipelineOK DEF IInv, Typing, Known, Place
<1>3. Relying' /\ NoFalseRefusal'
  BY <1>1 DEF IInv, Relying, NoFalseRefusal, Cookieless
<1>4. \A u \in Tab : IsContext(ctx'[u]) /\ Answering(at'[u], ctx'[u])
  BY <1>1, NewIsContext, NewAnswering
<1> QED
  BY <1>1, <1>2, <1>3, <1>4 DEF IInv

-----------------------------------------------------------------------------
(* The theorems *)

LEMMA IdleInv == ASSUME IInv, UNCHANGED vars PROVE IInv'
<1>1. Typing' /\ Relying' /\ NoFalseRefusal'
  BY DEF IInv, Typing, Relying, NoFalseRefusal, Known, Cookieless, vars
<1>2. ASSUME NEW u \in Tab
      PROVE  /\ at'[u] = at[u] /\ ctx'[u] = ctx[u]
             /\ Passing(at[u], ctx[u], req[u]) => Passing(at[u], ctx[u], req[u])'
             /\ Carrying(u) => Carrying(u)'
  BY DEF vars, Passing, Authentic, Carrying, Known
<1> QED
  BY <1>1, <1>2 DEF IInv

LEMMA TabInv ==
    ASSUME IInv, NEW t \in Tab,
           \/ \E r \in menu.requests : Send(t, r)
           \/ CSRF(t) \/ CSRFExempt(t) \/ CSRFError(t) \/ CORS(t) \/ Guard(t)
           \/ NoRoute(t) \/ Reach(t) \/ (\E found \in BOOLEAN : BindModel(t, found))
           \/ CallJSON(t) \/ CallRedirect(t) \/ CallAbort(t) \/ CallRender(t)
           \/ CallAutoView(t) \/ CallError(t) \/ CallFile(t) \/ CallNoContent(t)
           \/ CallWrite(t) \/ CallValidator(t) \/ CallValidate(t) \/ CallFormRequest(t)
           \/ Panics(t) \/ Return(t)
           \/ SessionReturns(t) \/ ErrorHandler(t) \/ Recover(t) \/ ServeReturns(t)
           \/ Deliver(t) \/ Lose(t)
    PROVE  IInv'
<1>1. CASE \E r \in menu.requests : Send(t, r)
  BY <1>1, SendInv
<1>2. CASE CSRF(t) \/ CSRFExempt(t) \/ CSRFError(t) \/ CORS(t) \/ Guard(t)
  BY <1>2, CSRFInv, CSRFExemptInv, CSRFErrorInv, CORSInv, GuardInv
<1>3. CASE NoRoute(t) \/ Reach(t) \/ (\E found \in BOOLEAN : BindModel(t, found))
  BY <1>3, NoRouteInv, ReachInv, BindModelInv
<1>4. CASE CallJSON(t) \/ CallRedirect(t) \/ CallAbort(t) \/ CallRender(t)
  BY <1>4, AnsweringCallsInv, CallRenderInv
<1>5. CASE CallAutoView(t) \/ CallError(t) \/ CallFile(t) \/ CallNoContent(t) \/ CallWrite(t)
  BY <1>5, CallAutoViewInv, CallErrorInv, WritingCallsInv, CallWriteInv
<1>6. CASE CallValidator(t) \/ CallValidate(t) \/ CallFormRequest(t)
  BY <1>6, ValidatingCallsInv
<1>7. CASE Panics(t) \/ Return(t)
  BY <1>7, PanicsInv, ReturnInv
<1>8. CASE SessionReturns(t) \/ ErrorHandler(t) \/ Recover(t) \/ ServeReturns(t)
  BY <1>8, SessionReturnsInv, ErrorHandlerInv, RecoverInv, ServeReturnsInv
<1>9. CASE Deliver(t) \/ Lose(t)
  BY <1>9, DeliverInv, LoseInv
<1> QED
  BY <1>1, <1>2, <1>3, <1>4, <1>5, <1>6, <1>7, <1>8, <1>9

LEMMA Invariance == Spec => []IInv
<1>1. IInv /\ [Next]_vars => IInv'
  <2> SUFFICES ASSUME IInv, [Next]_vars PROVE IInv'
    OBVIOUS
  <2>1. menu.tabs \subseteq Tab
    BY MenusOK DEF IInv, Typing
  <2>2. CASE Next
    BY <2>1, <2>2, TabInv, ExpireInv, RestartInv DEF Next
  <2>3. CASE UNCHANGED vars
    BY <2>3, IdleInv
  <2> QED
    BY <2>2, <2>3
<1> QED
  BY InitInv, <1>1, PTL DEF Spec

\* However the tabs' requests interleave, cookies expire and keys change: a
\* handler is reached by a form only with the token of this browser's cookie,
\* signed with the current key, and only past every guard of its route
\* (csrf.go:55-69, and Authenticate, Authorize and Signed before their next).
THEOREM Admission == Spec => []Admitted
<1>1. IInv => Admitted
  <2> SUFFICES ASSUME IInv, NEW t \in Tab, at[t] # "idle", ctx[t].reached
               PROVE  /\ Authentic(req[t])
                      /\ \A i \in DOMAIN req[t].r.guards : Grants(req[t].r.guards[i], req[t].r.who)
    BY DEF Admitted, Authentic
  <2>1. Authentic(req[t]) /\ Waits(<<>>, req[t].r)
    BY DEF IInv, Passing
  <2>2. DOMAIN req[t].r.guards = 1..Len(req[t].r.guards) /\ Len(req[t].r.guards) \in Nat
    BY <2>1, LenProperties DEF Waits
  <2> QED
    BY <2>1, <2>2 DEF Waits
<1> QED
  BY <1>1, Invariance, PTL

\* CSRF turns a form of this browser away only if its token was not where it is
\* read, is of an older key, or was put in doubt after its page was asked for:
\* the cookie expired, or another request without a cookie was under way and
\* would replace it (csrf.go:43-68).
THEOREM RefusedForCause == Spec => []NoFalseRefusal
  BY Invariance, PTL DEF IInv

\* Recover, ErrorHandler and ServeHTTP never add to an answer that the handler
\* began through its Context, in any order of its calls, its errors and its
\* panics (recover.go:16, error_handler.go:15, router.go:353).
THEOREM SingleAnswer == Spec => []OneAnswer
<1>1. IInv => OneAnswer
  BY DEF IInv, OneAnswer, Answering
<1> QED
  BY <1>1, Invariance, PTL

\* No request goes unanswered: one whose handler fails is answered 500 or by its
\* handler, one that was refused never 200, and every answer comes with the
\* session saved (session.go:65-69, recover.go:14-18).
THEOREM NoneSilent == Spec => []NoSilence
<1>1. IInv => NoSilence
  BY DEF IInv, NoSilence, Answering
<1> QED
  BY <1>1, Invariance, PTL

-----------------------------------------------------------------------------
(* The loop of the Validator *)

LEMMA LeastExists ==
    ASSUME NEW S, S \subseteq Nat, S # {}
    PROVE  \E x \in S : \A y \in S : x <= y
<1>1. PICK x \in S : \A y \in S : ~ (<<y, x>> \in OpToRel(<, Nat))
  BY NatLessThanWellFounded, WFMin
<1>2. ASSUME NEW y \in S PROVE x <= y
  <2>1. ~(y < x)
    BY <1>1 DEF OpToRel
  <2> QED
    BY <2>1
<1> QED
  BY <1>2

LEMMA UpTo ==
    ASSUME NEW S, NEW n \in Nat, 0 \in S, \A m \in 0..(n - 1) : m \in S => m + 1 \in S
    PROVE  \A m \in 0..n : m \in S
<1> DEFINE Bad == {m \in 0..n : m \notin S}
<1> SUFFICES ASSUME Bad # {} PROVE FALSE
  OBVIOUS
<1>0. Bad \subseteq Nat
  OBVIOUS
<1>1. PICK x \in Bad : \A y \in Bad : x <= y
  <2> HIDE DEF Bad
  <2> QED
    BY <1>0, LeastExists
<1>2. x \in 0..n /\ x # 0 /\ x \notin S
  OBVIOUS
<1>3. x - 1 \in 0..(n - 1) /\ x - 1 \notin Bad /\ x - 1 \in 0..n
  BY <1>1, <1>2
<1>4. x - 1 \in S /\ (x - 1) + 1 = x
  BY <1>2, <1>3
<1> QED
  BY <1>2, <1>3, <1>4

\* What every turn keeps, the loop ends with: S relates the number of rules
\* behind to what has been found so far.
LEMMA LoopKeeps ==
    ASSUME NEW markers, NEW present, NEW val, NEW rules \in Seq(AnyRule), NEW S,
           <<0, Untold>> \in S,
           \A n \in 0..(Len(rules) - 1) : \A s :
              <<n, s>> \in S =>
                 <<n + 1, Judge(markers, present, val, s, rules[n + 1])>> \in S
    PROVE  \E s : <<Len(rules), s>> \in S /\ Told(markers, present, val, rules) = s.errors
<1> DEFINE G(s, n) == Judge(markers, present, val, s, rules[n])
           F(g, n) == [m \in 0..n |-> IF m = 0 THEN Untold ELSE G(g[m - 1], m)]
           L == Len(rules)
<1>1. L \in Nat
  BY LenProperties
<1> HIDE DEF L
<1>0. \A n \in 0..(L - 1) : \A s : <<n, s>> \in S => <<n + 1, G(s, n + 1)>> \in S
  BY DEF L
<1>2. \E g : g = F(g, L)
  <2> HIDE DEF G
  <2> DEFINE P == {n \in 0..L : \E g : g = F(g, n)}
  <2>1. 0 \in P
    <3> DEFINE h == [m \in 0..0 |-> Untold]
    <3>0. 0 \in 0..L /\ \A m \in 0..0 : m = 0
      BY <1>1
    <3>1. \A m \in 0..0 : h[m] = IF m = 0 THEN Untold ELSE G(h[m - 1], m)
      BY <3>0
    <3>2. h = F(h, 0)
      BY <3>1
    <3> HIDE DEF h
    <3> QED
      BY <3>0, <3>2, Zenon
  <2>2. ASSUME NEW n \in 0..(L - 1), n \in P PROVE n + 1 \in P
    <3>1. PICK g : g = F(g, n)
      BY <2>2
    <3> DEFINE h == [m \in 0..(n + 1) |-> IF m <= n THEN g[m] ELSE G(g[n], n + 1)]
    <3>2. \A m \in 0..(n + 1) : h[m] = IF m = 0 THEN Untold ELSE G(h[m - 1], m)
      <4> SUFFICES ASSUME NEW m \in 0..(n + 1)
                   PROVE  h[m] = IF m = 0 THEN Untold ELSE G(h[m - 1], m)
        OBVIOUS
      <4>1. CASE m = 0
        BY <3>1, <4>1, <1>1
      <4>2. CASE m \in 1..n
        <5>1. m \in 0..n /\ m - 1 \in 0..n /\ m # 0
          BY <4>2, <1>1
        <5>2. h[m] = g[m] /\ h[m - 1] = g[m - 1]
          BY <5>1, <1>1
        <5>3. g[m] = G(g[m - 1], m)
          BY <3>1, <5>1
        <5> QED
          BY <5>1, <5>2, <5>3
      <4>3. CASE m = n + 1
        <5>1. m # 0 /\ m - 1 = n /\ n \in 0..(n + 1) /\ ~(m <= n) /\ n <= n
          BY <4>3, <1>1
        <5>2. h[m] = G(g[n], n + 1) /\ h[m - 1] = g[n]
          BY <5>1, <4>3
        <5> QED
          BY <5>1, <5>2, <4>3
      <4> QED
        BY <4>1, <4>2, <4>3, <1>1
    <3>3. h = F(h, n + 1)
      BY <3>2
    <3> HIDE DEF h
    <3>4. n + 1 \in 0..L
      BY <1>1
    <3> QED
      BY <3>3, <3>4, Zenon
  <2> HIDE DEF P
  <2>3. \A m \in 0..L : m \in P
    BY <1>1, <2>1, <2>2, UpTo, Zenon
  <2>4. L \in P
    BY <1>1, <2>3
  <2> QED
    BY <2>4 DEF P
<1> DEFINE after == CHOOSE g : g = F(g, L)
<1>3. after = F(after, L)
  BY <1>2
<1>4. Told(markers, present, val, rules) = after[L].errors
  BY Zenon DEF Told, L
<1> HIDE DEF G, after
<1> DEFINE P == {n \in 0..L : <<n, after[n]>> \in S}
<1>5. 0 \in P
  <2>1. 0 \in 0..L /\ after[0] = Untold
    BY <1>1, <1>3
  <2> QED
    BY <2>1
<1>6. ASSUME NEW n \in 0..(L - 1), n \in P PROVE n + 1 \in P
  <2>1. n + 1 \in 0..L /\ n + 1 # 0 /\ (n + 1) - 1 = n
    BY <1>1
  <2>2. after[n + 1] = G(after[n], n + 1)
    BY <1>3, <2>1
  <2> QED
    BY <1>0, <1>6, <2>1, <2>2
<1> HIDE DEF P
<1>7. \A m \in 0..L : m \in P
  BY <1>1, <1>5, <1>6, UpTo, Zenon
<1>8. <<L, after[L]>> \in S
  BY <1>1, <1>7 DEF P
<1> QED
  BY <1>4, <1>8 DEF L

\* Rule i answers marker c; one up to n does.
Marks(markers, rules, i, c) == c \in markers /\ rules[i].code = c
MarkedBy(markers, rules, n, c) == \E i \in 1..n : Marks(markers, rules, i, c)

\* The rules that reject the value, but for those behind the Sometimes of an
\* absent field, and those of them in front of which none has failed behind a
\* Bail.
Failing(markers, present, val, rules) ==
    {i \in DOMAIN rules :
        /\ rules[i].code \notin markers /\ val \notin rules[i].ok
        /\ present \/ ~MarkedBy(markers, rules, i, "_skip_")}

Final(markers, present, val, rules, n) ==
    \E j \in Failing(markers, present, val, rules) :
        j <= n /\ MarkedBy(markers, rules, j, "_bail_")

Reported(markers, present, val, rules) ==
    {i \in Failing(markers, present, val, rules) :
        ~Final(markers, present, val, rules, i - 1)}

UpToRule(T, n) == {i \in T : i <= n}

\* errors are the codes of the rules T in their order.
Lists(errors, rules, T) ==
    /\ errors \in Seq(STRING) /\ Len(errors) = Cardinality(T)
    /\ \A i \in T : errors[Cardinality(UpToRule(T, i))] = rules[i].code

LEMMA PlaceInList ==
    ASSUME NEW T, IsFiniteSet(T), T \subseteq Nat, NEW i \in T
    PROVE  Cardinality(UpToRule(T, i)) \in 1..Cardinality(T)
<1>1. UpToRule(T, i) \subseteq T /\ i \in UpToRule(T, i)
  BY DEF UpToRule
<1>2. /\ IsFiniteSet(UpToRule(T, i)) /\ Cardinality(UpToRule(T, i)) <= Cardinality(T)
      /\ Cardinality(UpToRule(T, i)) \in Nat /\ Cardinality(T) \in Nat
  BY <1>1, FS_Subset, FS_CardinalityType
<1>3. Cardinality(UpToRule(T, i)) # 0
  BY <1>1, <1>2, FS_EmptySet
<1> QED
  BY <1>2, <1>3

LEMMA ListsOneMore ==
    ASSUME NEW rules, NEW n \in Nat, NEW T, T \subseteq 1..n, NEW errors,
           Lists(errors, rules, T), rules[n + 1].code \in STRING
    PROVE  Lists(Append(errors, rules[n + 1].code), rules, T \cup {n + 1})
<1> DEFINE c == rules[n + 1].code
           more == Append(errors, c)
           U == T \cup {n + 1}
<1>1. IsFiniteSet(T) /\ n + 1 \notin T /\ T \subseteq Nat
  <2>1. IsFiniteSet(1..n)
    BY FS_Interval
  <2>2. IsFiniteSet(T)
    BY <2>1, FS_Subset
  <2>3. n + 1 \notin 1..n /\ 1..n \subseteq Nat
    OBVIOUS
  <2> QED
    BY <2>2, <2>3
<1>2. Cardinality(T) \in Nat /\ Cardinality(U) = Cardinality(T) + 1
  BY <1>1, FS_AddElement, FS_CardinalityType
<1>3. errors \in Seq(STRING) /\ Len(errors) = Cardinality(T)
  BY DEF Lists
<1>4. /\ more \in Seq(STRING) /\ Len(more) = Len(errors) + 1 /\ more[Len(errors) + 1] = c
      /\ \A i \in 1..Len(errors) : more[i] = errors[i]
  BY <1>3, AppendProperties
<1> HIDE DEF more, c
<1>5. ASSUME NEW i \in T PROVE more[Cardinality(UpToRule(U, i))] = rules[i].code
  <2>1. UpToRule(U, i) = UpToRule(T, i)
    <3>1. i \in Nat /\ ~(n + 1 <= i)
      OBVIOUS
    <3> QED
      BY <3>1 DEF UpToRule
  <2>2. Cardinality(UpToRule(T, i)) \in 1..Len(errors)
    BY <1>1, <1>3, PlaceInList
  <2> QED
    BY <1>4, <2>1, <2>2 DEF Lists
<1>6. more[Cardinality(UpToRule(U, n + 1))] = c
  <2>1. UpToRule(U, n + 1) = U
    BY DEF UpToRule
  <2> QED
    BY <1>2, <1>3, <1>4, <2>1
<1> QED
  BY <1>2, <1>3, <1>4, <1>5, <1>6 DEF Lists, c, more

Found == [errors: Seq(STRING), bail: BOOLEAN, stop: BOOLEAN]

\* Where the loop is after n rules.
LoopState(markers, present, val, rules, n, s) ==
    /\ s \in Found
    /\ ~s.stop => (s.bail <=> MarkedBy(markers, rules, n, "_bail_"))
    /\ s.stop <=> \/ ~present /\ MarkedBy(markers, rules, n, "_skip_")
                  \/ Final(markers, present, val, rules, n)
    /\ Lists(s.errors, rules, UpToRule(Reported(markers, present, val, rules), n))

LEMMA TurnKeeps ==
    ASSUME NEW markers \in SUBSET Markers, NEW present \in BOOLEAN, NEW val,
           NEW rules \in Seq(AnyRule), NEW n \in 0..(Len(rules) - 1), NEW s,
           LoopState(markers, present, val, rules, n, s)
    PROVE  LoopState(markers, present, val, rules, n + 1,
                     Judge(markers, present, val, s, rules[n + 1]))
<1> DEFINE k == n + 1
           r == rules[k]
           y == Judge(markers, present, val, s, r)
           Bailed(i) == MarkedBy(markers, rules, i, "_bail_")
           Skipped(i) == MarkedBy(markers, rules, i, "_skip_")
           Failed == Failing(markers, present, val, rules)
           Ended(i) == Final(markers, present, val, rules, i)
           R == Reported(markers, present, val, rules)
<1>1. /\ Len(rules) \in Nat /\ DOMAIN rules = 1..Len(rules) /\ k \in DOMAIN rules
      /\ k \in Nat /\ n \in Nat /\ k - 1 = n
  BY LenProperties
<1>2. r.code \in STRING /\ (r.code \in markers => val \notin r.ok)
  BY <1>1, ElementOfSeq DEF AnyRule
<1>3. \A c : MarkedBy(markers, rules, k, c) <=>
               MarkedBy(markers, rules, n, c) \/ (c \in markers /\ r.code = c)
  <2>1. 1..k = 1..n \cup {k}
    BY <1>1
  <2> QED
    BY <2>1 DEF MarkedBy, Marks
<1>4. k \in Failed <=> r.code \notin markers /\ val \notin r.ok /\ (present \/ ~Skipped(k))
  BY <1>1 DEF Failing
<1>5. Ended(k) <=> Ended(n) \/ (k \in Failed /\ Bailed(k))
  <2>1. \A i \in Failed : i \in Nat /\ (i <= k <=> i <= n \/ i = k)
    BY <1>1 DEF Failing
  <2> QED
    BY <1>1, <2>1 DEF Final
<1>6. k \in R <=> k \in Failed /\ ~Ended(n)
  BY <1>1 DEF Reported
<1>7. UpToRule(R, k) = UpToRule(R, n) \cup (IF k \in R THEN {k} ELSE {})
  <2>1. \A i \in R : i \in Nat /\ (i <= k <=> i <= n \/ i = k)
    BY <1>1 DEF Reported, Failing
  <2> QED
    BY <1>1, <2>1 DEF UpToRule
<1>8. /\ s \in Found /\ s.errors \in Seq(STRING) /\ s.bail \in BOOLEAN /\ s.stop \in BOOLEAN
      /\ ~s.stop => (s.bail <=> Bailed(n))
      /\ s.stop <=> (~present /\ Skipped(n)) \/ Ended(n)
      /\ Lists(s.errors, rules, UpToRule(R, n))
  BY DEF LoopState, Found
<1>9. SUFFICES /\ y \in Found
               /\ ~y.stop => (y.bail <=> Bailed(k))
               /\ y.stop <=> (~present /\ Skipped(k)) \/ Ended(k)
               /\ Lists(y.errors, rules, UpToRule(R, k))
  BY DEF LoopState
<1> HIDE DEF k, r, Bailed, Skipped, Failed, Ended, R
<1>10. /\ Bailed(k) <=> Bailed(n) \/ ("_bail_" \in markers /\ r.code = "_bail_")
       /\ Skipped(k) <=> Skipped(n) \/ ("_skip_" \in markers /\ r.code = "_skip_")
  BY <1>3 DEF Bailed, Skipped
<1>11. k \notin R => UpToRule(R, k) = UpToRule(R, n)
  BY <1>7
<1>12. CASE s.stop
  <2>1. y = s
    BY <1>12 DEF Judge
  <2>2. k \notin R
    BY <1>4, <1>6, <1>8, <1>10, <1>12
  <2> HIDE DEF y
  <2> QED
    BY <1>5, <1>8, <1>10, <1>11, <1>12, <2>1, <2>2
<1>13. CASE ~s.stop /\ val \in r.ok
  <2>1. y = s
    BY <1>13 DEF Judge
  <2>2. k \notin R /\ k \notin Failed /\ r.code \notin markers
    BY <1>2, <1>4, <1>6, <1>13
  <2> HIDE DEF y
  <2> QED
    BY <1>5, <1>8, <1>10, <1>11, <1>13, <2>1, <2>2
<1>14. CASE ~s.stop /\ val \notin r.ok /\ r.code \notin markers
  <2>1. y = [s EXCEPT !.errors = Append(@, r.code), !.stop = s.bail]
    BY <1>14 DEF Judge
  <2>2. /\ y \in Found /\ y.bail = s.bail /\ y.stop = s.bail
        /\ y.errors = Append(s.errors, r.code)
    <3>1. Append(s.errors, r.code) \in Seq(STRING)
      BY <1>2, <1>8, AppendProperties
    <3> QED
      BY <1>8, <2>1, <3>1 DEF Found
  <2> HIDE DEF y
  <2>3. k \in R /\ k \in Failed
    BY <1>4, <1>6, <1>8, <1>10, <1>14
  <2>4. (Bailed(k) <=> Bailed(n)) /\ (Skipped(k) <=> Skipped(n))
    BY <1>10, <1>14
  <2>5. Lists(y.errors, rules, UpToRule(R, k))
    <3>1. UpToRule(R, n) \subseteq 1..n
      BY <1>1 DEF UpToRule, R, Reported, Failing
    <3>2. Lists(Append(s.errors, rules[n + 1].code), rules, UpToRule(R, n) \cup {n + 1})
      BY <1>1, <1>2, <1>8, <3>1, ListsOneMore DEF r, k
    <3> QED
      BY <1>7, <2>2, <2>3, <3>2 DEF r, k
  <2> QED
    BY <1>5, <1>8, <1>14, <2>2, <2>3, <2>4, <2>5
<1>15. CASE ~s.stop /\ r.code \in markers /\ r.code = "_bail_"
  <2>1. y = [s EXCEPT !.bail = TRUE]
    BY <1>2, <1>15 DEF Judge
  <2>2. /\ y \in Found /\ y.bail = TRUE /\ y.stop = s.stop
        /\ y.errors = s.errors
    BY <1>8, <2>1 DEF Found
  <2> HIDE DEF y
  <2>3. k \notin R /\ k \notin Failed /\ Bailed(k) /\ (Skipped(k) <=> Skipped(n))
    BY <1>4, <1>6, <1>10, <1>15
  <2> QED
    BY <1>5, <1>8, <1>11, <1>15, <2>2, <2>3
<1>16. CASE ~s.stop /\ r.code \in markers /\ r.code # "_bail_"
  <2>1. y = [s EXCEPT !.stop = ~present]
    BY <1>2, <1>16 DEF Judge
  <2>2. /\ y \in Found /\ y.bail = s.bail /\ y.stop = ~present
        /\ y.errors = s.errors
    BY <1>8, <2>1 DEF Found
  <2> HIDE DEF y
  <2>3. k \notin R /\ k \notin Failed /\ (Bailed(k) <=> Bailed(n)) /\ Skipped(k)
    BY <1>4, <1>6, <1>10, <1>16 DEF Markers
  <2> QED
    BY <1>5, <1>8, <1>11, <1>16, <2>2, <2>3
<1> QED
  BY <1>12, <1>13, <1>14, <1>15, <1>16

\* What the loop tells is what the rules say.
LEMMA ToldRight ==
    ASSUME NEW markers \in SUBSET Markers, NEW present \in BOOLEAN, NEW val,
           NEW rules \in Seq(AnyRule)
    PROVE  Lists(Told(markers, present, val, rules), rules,
                 Reported(markers, present, val, rules))
<1> DEFINE R == Reported(markers, present, val, rules)
           At(n, s) == LoopState(markers, present, val, rules, n, s)
           S == {p \in (0..Len(rules)) \X Found : At(p[1], p[2])}
<1>1. Len(rules) \in Nat /\ DOMAIN rules = 1..Len(rules)
  BY LenProperties
<1>2. At(0, Untold)
  <2>1. Untold \in Found /\ Untold.errors = <<>> /\ ~Untold.bail /\ ~Untold.stop
    BY DEF Untold, Found
  <2>2. \A c : ~MarkedBy(markers, rules, 0, c)
    BY DEF MarkedBy
  <2>3. ~Final(markers, present, val, rules, 0) /\ UpToRule(R, 0) = {}
    BY <1>1 DEF Final, UpToRule, Reported, Failing
  <2>4. Lists(<<>>, rules, {})
    BY FS_EmptySet, EmptySeq DEF Lists
  <2> QED
    BY <2>1, <2>2, <2>3, <2>4 DEF LoopState
<1>3. \A n \in 0..(Len(rules) - 1) : \A s :
         At(n, s) => At(n + 1, Judge(markers, present, val, s, rules[n + 1]))
  BY TurnKeeps
<1>4. \A n, s : At(n, s) => s \in Found
  BY DEF LoopState
<1> HIDE DEF At
<1>5. <<0, Untold>> \in S
  BY <1>1, <1>2, <1>4
<1>6. \A n \in 0..(Len(rules) - 1) : \A s :
         <<n, s>> \in S => <<n + 1, Judge(markers, present, val, s, rules[n + 1])>> \in S
  BY <1>1, <1>3, <1>4
<1> HIDE DEF S
<1>7. PICK s : <<Len(rules), s>> \in S /\ Told(markers, present, val, rules) = s.errors
  BY <1>5, <1>6, LoopKeeps
<1>8. At(Len(rules), s)
  BY <1>7 DEF S
<1>9. UpToRule(R, Len(rules)) = R
  BY <1>1 DEF UpToRule, Reported, Failing
<1> QED
  BY <1>7, <1>8, <1>9 DEF At, LoopState

\* e and d put together: the codes of the rules in T, then those in A.
Joined(e, rules, T, d, with, A) ==
    /\ Len(e \o d) = Cardinality(T) + Cardinality(A)
    /\ \A i \in T : (e \o d)[Cardinality(UpToRule(T, i))] = rules[i].code
    /\ \A i \in A : (e \o d)[Cardinality(T) + Cardinality(UpToRule(A, i))] = with[i].code

\* A list follows another: Field's errors and those of FieldWith.
LEMMA ListsJoin ==
    ASSUME NEW e, NEW rules \in Seq(AnyRule), NEW T \in SUBSET (DOMAIN rules), Lists(e, rules, T),
           NEW d, NEW with \in Seq(AnyRule), NEW A \in SUBSET (DOMAIN with), Lists(d, with, A)
    PROVE  Joined(e, rules, T, d, with, A)
<1>1. ASSUME NEW s \in Seq(AnyRule), NEW B \in SUBSET (DOMAIN s)
      PROVE  B \subseteq Nat /\ IsFiniteSet(B) /\ Cardinality(B) \in Nat
  <2>1. DOMAIN s = 1..Len(s) /\ Len(s) \in Nat
    BY LenProperties
  <2>2. IsFiniteSet(1..Len(s))
    BY <2>1, FS_Interval
  <2>3. IsFiniteSet(B)
    BY <2>1, <2>2, FS_Subset
  <2> QED
    BY <2>1, <2>3, FS_CardinalityType
<1>2. /\ T \subseteq Nat /\ IsFiniteSet(T) /\ Cardinality(T) \in Nat
      /\ A \subseteq Nat /\ IsFiniteSet(A) /\ Cardinality(A) \in Nat
  BY <1>1
<1>3. /\ e \in Seq(STRING) /\ Len(e) = Cardinality(T)
      /\ d \in Seq(STRING) /\ Len(d) = Cardinality(A)
  BY DEF Lists
<1>4. /\ Len(e \o d) = Len(e) + Len(d)
      /\ \A i \in 1..Len(e) : (e \o d)[i] = e[i]
      /\ \A i \in 1..Len(d) : (e \o d)[Len(e) + i] = d[i]
  <2>1. \A i \in 1..(Len(e) + Len(d)) :
           (e \o d)[i] = IF i <= Len(e) THEN e[i] ELSE d[i - Len(e)]
    BY <1>3, ConcatProperties
  <2>2. Len(e \o d) = Len(e) + Len(d)
    BY <1>3, ConcatProperties
  <2>3. ASSUME NEW i \in 1..Len(d)
        PROVE  Len(e) + i \in 1..(Len(e) + Len(d)) /\ ~(Len(e) + i <= Len(e)) /\ (Len(e) + i) - Len(e) = i
    BY <1>2, <1>3
  <2>4. \A i \in 1..Len(e) : i \in 1..(Len(e) + Len(d)) /\ i <= Len(e)
    BY <1>2, <1>3
  <2> QED
    BY <2>1, <2>2, <2>3, <2>4
<1>5. \A i \in T : Cardinality(UpToRule(T, i)) \in 1..Len(e)
  BY <1>2, <1>3, PlaceInList
<1>6. \A i \in A : Cardinality(UpToRule(A, i)) \in 1..Len(d)
  BY <1>2, <1>3, PlaceInList
<1>7. \A i \in A : (e \o d)[Cardinality(T) + Cardinality(UpToRule(A, i))] = with[i].code
  BY <1>3, <1>4, <1>6 DEF Lists
<1>8. \A i \in T : (e \o d)[Cardinality(UpToRule(T, i))] = rules[i].code
  BY <1>4, <1>5 DEF Lists
<1> QED
  BY <1>3, <1>4, <1>7, <1>8 DEF Joined

\* What ValidatedRight says of the errors of one field.
Complete(data, f, rules, with, errors) ==
    LET failing == {i \in DOMAIN rules :
            /\ rules[i].code \notin {"_bail_", "_skip_"}
            /\ Value(data, f) \notin rules[i].ok
            /\ f \in DOMAIN data \/ \A j \in 1..i : rules[j].code # "_skip_"}
        told == {i \in failing : ~\E j \in failing : j < i
                    /\ \E b \in 1..j : rules[b].code = "_bail_"}
        also == {i \in DOMAIN with : Value(data, f) \notin with[i].ok}
    IN  /\ Len(errors) = Cardinality(told) + Cardinality(also)
        /\ \A i \in told : errors[Cardinality({j \in told : j <= i})] = rules[i].code
        /\ \A i \in also :
              errors[Cardinality(told) + Cardinality({j \in also : j <= i})] = with[i].code

\* Field and FieldWith, over any data and any lists of rules.
LEMMA FieldRight ==
    ASSUME NEW data, NEW f, NEW rules \in Seq(AnyRule), NEW with \in Seq(AnyRule)
    PROVE  Complete(data, f, rules, with, Field(data, f, rules) \o FieldWith(data, f, with))
<1> DEFINE present == f \in DOMAIN data
           val == Value(data, f)
           failing == {i \in DOMAIN rules :
                   /\ rules[i].code \notin {"_bail_", "_skip_"}
                   /\ val \notin rules[i].ok
                   /\ present \/ \A j \in 1..i : rules[j].code # "_skip_"}
           told == {i \in failing : ~\E j \in failing : j < i
                           /\ \E b \in 1..j : rules[b].code = "_bail_"}
           also == {i \in DOMAIN with : val \notin with[i].ok}
<1>1. present \in BOOLEAN /\ Markers \in SUBSET Markers /\ {} \in SUBSET Markers
  OBVIOUS
<1> HIDE DEF val
<1>2. Failing(Markers, present, val, rules) = failing
  BY DEF Failing, MarkedBy, Marks, Markers
<1>3. Reported(Markers, present, val, rules) = told
  <2>1. \A i, j \in failing : j <= i - 1 <=> j < i
    BY LenProperties
  <2> QED
    BY <1>2, <2>1 DEF Reported, Final, MarkedBy, Marks, Markers
<1>4. Reported({}, present, val, with) = also
  BY DEF Reported, Final, Failing, MarkedBy, Marks
<1>5. told \in SUBSET (DOMAIN rules) /\ also \in SUBSET (DOMAIN with)
  OBVIOUS
<1> HIDE DEF told, also, present
<1>6. Lists(Field(data, f, rules), rules, told)
  <2>1. Lists(Told(Markers, present, val, rules), rules, told)
    BY <1>1, <1>3, ToldRight
  <2> QED
    BY <2>1 DEF Field, val, present
<1>7. Lists(FieldWith(data, f, with), with, also)
  <2>1. Lists(Told({}, present, val, with), with, also)
    BY <1>1, <1>4, ToldRight
  <2> QED
    BY <2>1 DEF FieldWith, val, present
<1> DEFINE e == Field(data, f, rules)
           d == FieldWith(data, f, with)
<1>8. Joined(e, rules, told, d, with, also)
  <2>1. Lists(e, rules, told) /\ Lists(d, with, also)
    BY <1>6, <1>7
  <2> HIDE DEF e, d
  <2> QED
    BY <1>5, <2>1, ListsJoin
<1> QED
  BY <1>8, Zenon DEF Complete, Joined, UpToRule, told, also, val, present

-----------------------------------------------------------------------------
(* What the Validator found stays with the request *)

\* The errors of tab t's Context are those of its rules over its own data.
Justified(t) ==
    \/ ctx[t].errors = None
    \/ ctx[t].rules \in menu.rules /\ ctx[t].errors = Judged(t, ctx[t].rules)

Judging == \A t \in Tab : at[t] # "idle" => Justified(t)

\* A step that leaves the findings of tab t alone.
SameFindings(x, y) == IsContext(y) /\ y.errors = x.errors /\ y.rules = x.rules

LEMMA StaysJustified ==
    ASSUME NEW t \in Tab, Justified(t), SameFindings(ctx[t], ctx'[t]), req'[t].r = req[t].r,
           menu' = menu
    PROVE  Justified(t)'
  BY DEF Justified, Judged, SameFindings

LEMMA AnswerFindings ==
    ASSUME NEW x, IsContext(x), NEW code, NEW who
    PROVE  /\ SameFindings(x, WriteHeader(x, code)) /\ SameFindings(x, Wrote(x, code, who))
           /\ SameFindings(x, Answer(x, code, who)) /\ SameFindings(x, Render(x, who))
<1>1. SameFindings(x, WriteHeader(x, code)) /\ SameFindings(x, Wrote(x, code, who))
  BY HeaderFields, WroteFields DEF SameFindings, Keeps, Fields
<1>2. SameFindings(x, Answer(x, code, who))
  BY <1>1 DEF Answer, SameFindings
<1>3. SameFindings(x, Render(x, who))
  BY RenderFields DEF SameFindings, Keeps, Fields
<1> QED
  BY <1>1, <1>2, <1>3

\* What Go makes of the tab and of the others.
LEMMA GoJudging ==
    ASSUME IInv, Judging, NEW t \in Tab, NEW to, NEW y, Go(t, to, y), UNCHANGED <<menu, req>>,
           to # "idle" => Justified(t)'
    PROVE  Judging'
<1>1. /\ at'[t] = to /\ ctx'[t] = y
      /\ \A u \in Tab \ {t} : at'[u] = at[u] /\ ctx'[u] = ctx[u]
  BY DEF Go, IInv, Typing
<1>2. ASSUME NEW u \in Tab \ {t}, at'[u] # "idle" PROVE Justified(u)'
  BY <1>1, <1>2 DEF Judging, Justified, Judged
<1> QED
  BY <1>1, <1>2 DEF Judging

LEMMA KeepsJudging ==
    ASSUME IInv, Judging, NEW t \in Tab, at[t] # "idle", NEW to, NEW y, Go(t, to, y),
           UNCHANGED <<menu, req>>, SameFindings(ctx[t], y)
    PROVE  Judging'
<1>1. ctx'[t] = y
  BY DEF Go, IInv, Typing
<1>2. Justified(t)'
  BY <1>1, StaysJustified DEF Judging
<1> QED
  BY <1>2, GoJudging

LEMMA CallsFindings ==
    ASSUME NEW t \in Tab, NEW op, NEW x, Calls(t, op, x), IsContext(x)
    PROVE  /\ at[t] # "idle" /\ UNCHANGED <<menu, req>>
           /\ \E y : Go(t, "handler", y) /\ SameFindings(x, y)
<1> DEFINE y == [x EXCEPT !.ops = @ - 1]
<1>1. Go(t, "handler", y) /\ at[t] = "handler" /\ UNCHANGED <<menu, req>>
  BY DEF Calls, server
<1>2. SameFindings(x, y)
  BY DEF SameFindings, IsContext, Fields
<1> HIDE DEF y
<1> QED
  BY <1>1, <1>2

LEMMA PlainCallsJudging ==
    ASSUME IInv, Judging, NEW t \in Tab, NEW op, NEW x, Calls(t, op, x), SameFindings(ctx[t], x)
    PROVE  Judging'
<1>1. PICK y : Go(t, "handler", y) /\ SameFindings(x, y)
  BY CallsFindings DEF SameFindings
<1>2. SameFindings(ctx[t], y) /\ at[t] # "idle" /\ UNCHANGED <<menu, req>>
  BY <1>1, CallsFindings DEF SameFindings
<1> QED
  BY <1>1, <1>2, KeepsJudging

\* A call that validates v, and may answer.
LEMMA ValidatingJudging ==
    ASSUME IInv, Judging, NEW t \in Tab, NEW v \in menu.rules, NEW op, NEW x,
           Calls(t, op, x), SameFindings(Validated(t, v, ctx[t]), x)
    PROVE  Judging'
<1>1. IsContext(x) /\ x.errors = Judged(t, v) /\ x.rules = v
  BY DEF SameFindings, Validated, IsContext, Fields, IInv
<1>2. PICK y : Go(t, "handler", y) /\ SameFindings(x, y)
  BY <1>1, CallsFindings
<1>3. y.errors = Judged(t, v) /\ y.rules = v /\ UNCHANGED <<menu, req>>
  BY <1>1, <1>2, CallsFindings DEF SameFindings
<1>4. ctx'[t] = y
  BY <1>2 DEF Go, IInv, Typing
<1>5. Justified(t)'
  BY <1>3, <1>4 DEF Justified, Judged
<1> QED
  BY <1>2, <1>3, <1>5, GoJudging

LEMMA HandlerJudging ==
    ASSUME IInv, Judging, NEW t \in Tab,
           \/ CallJSON(t) \/ CallRedirect(t) \/ CallAbort(t) \/ CallRender(t)
           \/ CallAutoView(t) \/ CallError(t) \/ CallFile(t) \/ CallNoContent(t) \/ CallWrite(t)
    PROVE  Judging'
<1> DEFINE x == ctx[t]
<1>0. IsContext(x)
  BY DEF IInv
<1>1. CASE \/ CallJSON(t) \/ CallRedirect(t) \/ CallAbort(t) \/ CallRender(t)
           \/ CallFile(t) \/ CallNoContent(t)
  <2>1. PICK op, y : Calls(t, op, y) /\ SameFindings(x, y)
    <3>1. CASE CallFile(t)
      <4>1. SameFindings(x, x) /\ SameFindings(x, Wrote(x, 200, "handler"))
        BY <1>0, AnswerFindings DEF SameFindings
      <4> QED
        BY <3>1, <4>1 DEF CallFile
    <3>2. CASE ~CallFile(t)
      BY <1>0, <1>1, <3>2, AnswerFindings DEF CallJSON, CallRedirect, CallAbort, CallRender,
         CallNoContent, JSON, Redirect, AbortWithStatus
    <3> QED
      BY <3>1, <3>2
  <2> QED
    BY <2>1, PlainCallsJudging
<1>2. CASE CallAutoView(t)
  <2>1. SameFindings(x, [x EXCEPT !.auto = TRUE])
    BY <1>0 DEF SameFindings, IsContext, Fields
  <2> QED
    BY <1>2, <2>1, PlainCallsJudging DEF CallAutoView
<1>3. CASE CallError(t)
  <2>1. SameFindings(x, [x EXCEPT !.error = TRUE])
    BY <1>0 DEF SameFindings, IsContext, Fields
  <2> QED
    BY <1>3, <2>1, PlainCallsJudging DEF CallError
<1>4. CASE CallWrite(t)
  <2> DEFINE w == WriteHeader(x, 200)
             y == [w EXCEPT !.by = @ \cup {"handler"}, !.loose = TRUE]
  <2>1. SameFindings(x, w)
    BY <1>0, AnswerFindings
  <2>2. Calls(t, "write", y)
    BY <1>4 DEF CallWrite
  <2> HIDE DEF w
  <2>3. SameFindings(x, y)
    BY <2>1 DEF SameFindings, IsContext, Fields
  <2> HIDE DEF y
  <2> QED
    BY <2>2, <2>3, PlainCallsJudging
<1> QED
  BY <1>1, <1>2, <1>3, <1>4

LEMMA ValidatorJudging ==
    ASSUME IInv, Judging, NEW t \in Tab, CallValidator(t) \/ CallValidate(t) \/ CallFormRequest(t)
    PROVE  Judging'
<1>0. IsContext(ctx[t])
  BY DEF IInv
<1>1. ASSUME NEW v PROVE IsContext(Validated(t, v, ctx[t]))
  BY <1>0 DEF Validated, IsContext, Fields
<1>2. ASSUME NEW v \in menu.rules, NEW op,
             \/ Calls(t, op, Validated(t, v, ctx[t]))
             \/ Calls(t, op, JSON(Validated(t, v, ctx[t]), 422, "handler"))
      PROVE  Judging'
  <2> DEFINE x == Validated(t, v, ctx[t])
  <2>1. SameFindings(x, x) /\ SameFindings(x, JSON(x, 422, "handler"))
    BY <1>1, AnswerFindings DEF SameFindings, JSON
  <2> QED
    BY <1>2, <2>1, ValidatingJudging
<1>3. ASSUME NEW op, NEW code, Calls(t, op, JSON(ctx[t], code, "handler")) PROVE Judging'
  BY <1>0, <1>3, AnswerFindings, PlainCallsJudging DEF JSON
<1>4. CASE CallValidator(t)
  BY <1>2, <1>4 DEF CallValidator
<1>5. CASE CallValidate(t)
  <2>1. PICK v \in menu.rules : LET x == Validated(t, v, ctx[t]) IN
            Calls(t, "validate", IF Fails(x.errors) THEN JSON(x, 422, "handler") ELSE x)
    BY <1>5 DEF CallValidate
  <2>2. CASE Fails(Validated(t, v, ctx[t]).errors)
    BY <1>2, <2>1, <2>2
  <2>3. CASE ~Fails(Validated(t, v, ctx[t]).errors)
    BY <1>2, <2>1, <2>3
  <2> QED
    BY <2>2, <2>3
<1>6. CASE CallFormRequest(t)
  <2>1. PICK v \in menu.rules : LET x == Validated(t, v, ctx[t]) IN
            \/ Calls(t, "formrequest", JSON(ctx[t], 422, "handler"))
            \/ Calls(t, "formrequest", JSON(ctx[t], 403, "handler"))
            \/ Calls(t, "formrequest", IF Fails(x.errors) THEN JSON(x, 422, "handler") ELSE x)
    BY <1>6 DEF CallFormRequest
  <2>2. CASE \/ Calls(t, "formrequest", JSON(ctx[t], 422, "handler"))
             \/ Calls(t, "formrequest", JSON(ctx[t], 403, "handler"))
    BY <1>3, <2>2
  <2>3. CASE Fails(Validated(t, v, ctx[t]).errors)
    BY <1>2, <2>1, <2>2, <2>3
  <2>4. CASE ~Fails(Validated(t, v, ctx[t]).errors)
    BY <1>2, <2>1, <2>2, <2>4
  <2> QED
    BY <2>3, <2>4
<1> QED
  BY <1>4, <1>5, <1>6

LEMMA WayInJudging ==
    ASSUME IInv, Judging, NEW t \in Tab,
           \/ CSRF(t) \/ CSRFExempt(t) \/ CSRFError(t) \/ CORS(t) \/ Guard(t)
           \/ NoRoute(t) \/ Reach(t) \/ (\E found \in BOOLEAN : BindModel(t, found))
    PROVE  Judging'
<1> DEFINE x == ctx[t]
<1>0. IsContext(x) /\ SameFindings(x, x)
  BY DEF IInv, SameFindings
<1>1. CASE CSRF(t)
  <2> DEFINE token == CookieToken(req[t])
             z == [x EXCEPT !.csrf = token, !.sets = IF token = req[t].cookie THEN None ELSE token]
             y == PlainText(z, 403, "framework")
             w == [y EXCEPT !.refused = TRUE]
  <2>1. SameFindings(x, z)
    BY <1>0 DEF SameFindings, IsContext, Fields
  <2>2. \E to \in {"guards", "session"} : at[t] # "idle" /\ (Go(t, to, z) \/ Go(t, to, w))
    BY <1>1 DEF CSRF
  <2> HIDE DEF z
  <2>3. SameFindings(z, y)
    BY <2>1, AnswerFindings DEF SameFindings, PlainText
  <2> HIDE DEF y
  <2>4. SameFindings(x, w)
    BY <2>1, <2>3 DEF SameFindings, IsContext, Fields
  <2> HIDE DEF w
  <2>5. UNCHANGED <<menu, req>>
    BY <1>1 DEF CSRF
  <2> QED
    BY <2>1, <2>2, <2>4, <2>5, KeepsJudging
<1>2. CASE CSRFExempt(t) \/ CSRFError(t) \/ CORS(t) \/ NoRoute(t)
  <2>1. \E to, y : at[t] # "idle" /\ Go(t, to, y) /\ SameFindings(x, y)
    BY <1>0, <1>2, AnswerFindings DEF CSRFExempt, CSRFError, CORS, NoRoute, PlainText, Passed
  <2>2. UNCHANGED <<menu, req>>
    BY <1>2 DEF CSRFExempt, CSRFError, CORS, NoRoute, server
  <2> QED
    BY <2>1, <2>2, KeepsJudging
<1>3. CASE Guard(t)
  <2> DEFINE g == Head(x.todo)
  <2>1. SameFindings(x, Refusal(g, x))
    BY <1>0, AnswerFindings DEF Refusal, JSON, Redirect
  <2>2. SameFindings(x, [x EXCEPT !.todo = Tail(@)])
    BY <1>0 DEF SameFindings, IsContext, Fields
  <2>3. \E to, y : at[t] # "idle" /\ Go(t, to, y) /\ SameFindings(x, y)
    BY <1>3, <2>1, <2>2 DEF Guard
  <2>4. UNCHANGED <<menu, req>>
    BY <1>3 DEF Guard, server
  <2> QED
    BY <2>3, <2>4, KeepsJudging
<1>4. CASE Reach(t)
  <2>1. SameFindings(x, [x EXCEPT !.reached = TRUE])
    BY <1>0 DEF SameFindings, IsContext, Fields
  <2> QED
    BY <1>4, <2>1, KeepsJudging DEF Reach, Passed, server
<1>5. ASSUME NEW found \in BOOLEAN, BindModel(t, found) PROVE Judging'
  <2> DEFINE y == [x EXCEPT !.error = ~found, !.panicked = found]
  <2>1. SameFindings(x, y)
    BY <1>0 DEF SameFindings, IsContext, Fields
  <2>2. \E to : at[t] # "idle" /\ Go(t, to, y) /\ UNCHANGED <<menu, req>>
    BY <1>5 DEF BindModel, Passed, server
  <2> HIDE DEF y
  <2> QED
    BY <2>1, <2>2, KeepsJudging
<1> QED
  BY <1>1, <1>2, <1>3, <1>4, <1>5

LEMMA WayBackJudging ==
    ASSUME IInv, Judging, NEW t \in Tab,
           \/ Panics(t) \/ Return(t)
           \/ SessionReturns(t) \/ ErrorHandler(t) \/ Recover(t) \/ ServeReturns(t)
    PROVE  Judging'
<1> DEFINE x == ctx[t]
<1>0. IsContext(x) /\ SameFindings(x, x)
  BY DEF IInv, SameFindings
<1>1. /\ SameFindings(x, [x EXCEPT !.panicked = TRUE]) /\ SameFindings(x, [x EXCEPT !.auto = TRUE])
      /\ SameFindings(x, [x EXCEPT !.error = TRUE]) /\ SameFindings(x, [x EXCEPT !.saved = TRUE])
  BY <1>0 DEF SameFindings, IsContext, Fields
<1>2. \A y \in Returned(t) : SameFindings(x, y)
  BY <1>0, <1>1 DEF Returned
<1>3. \E to, y : at[t] # "idle" /\ Go(t, to, y) /\ SameFindings(x, y)
  <2>1. CASE Panics(t) \/ Return(t) \/ SessionReturns(t)
    BY <1>1, <1>2, <2>1 DEF Panics, Return, SessionReturns
  <2>2. CASE ErrorHandler(t) \/ Recover(t) \/ ServeReturns(t)
    BY <1>0, <2>2, AnswerFindings DEF ErrorHandler, Recover, ServeReturns, JSON, PlainText
  <2> QED
    BY <2>1, <2>2
<1>4. UNCHANGED <<menu, req>>
  BY DEF Panics, Return, SessionReturns, ErrorHandler, Recover, ServeReturns, server
<1> QED
  BY <1>3, <1>4, KeepsJudging

\* The requests of the other tabs are left as they are, but for the doubt.
LEMMA OthersJudging ==
    ASSUME IInv, Judging, menu' = menu,
           \A u \in Tab : at'[u] # "idle" =>
               \/ Justified(u)'
               \/ at[u] # "idle" /\ ctx'[u] = ctx[u] /\ req'[u].r = req[u].r
    PROVE  Judging'
<1>1. ASSUME NEW u \in Tab, at[u] # "idle", ctx'[u] = ctx[u], req'[u].r = req[u].r
      PROVE  Justified(u)'
  BY <1>1, StaysJustified DEF Judging, IInv, SameFindings
<1> QED
  BY <1>1 DEF Judging

LEMMA SendJudging ==
    ASSUME IInv, Judging, NEW t \in Tab, NEW r \in menu.requests, Send(t, r)
    PROVE  Judging'
<1>1. /\ at[t] = "idle" /\ menu' = menu /\ Go(t, "csrf", NewContext(r.guards))
  BY DEF Send
<1>2. /\ ctx'[t] = NewContext(r.guards)
      /\ \A u \in Tab \ {t} : at'[u] = at[u] /\ ctx'[u] = ctx[u]
  BY <1>1 DEF Go, IInv, Typing
<1>3. Justified(t)'
  BY <1>2 DEF Justified, NewContext
<1>4. ASSUME NEW u \in Tab \ {t}, at[u] # "idle" PROVE req'[u].r = req[u].r
  <2>1. req'[u] \in {req[u], [req[u] EXCEPT !.doubt = TRUE]}
    BY DEF Send
  <2>2. DOMAIN req[u] = {"r", "method", "cookie", "token", "doubt"}
    BY <1>4 DEF IInv, Carrying
  <2> QED
    BY <2>1, <2>2
<1> QED
  BY <1>1, <1>2, <1>3, <1>4, OthersJudging

LEMMA OverJudging ==
    ASSUME IInv, Judging, NEW t \in Tab, Deliver(t) \/ Lose(t)
    PROVE  Judging'
<1>1. Over(t) /\ menu' = menu
  BY DEF Deliver, Lose
<1>2. /\ at'[t] = "idle"
      /\ \A u \in Tab \ {t} : at'[u] = at[u] /\ ctx'[u] = ctx[u] /\ req'[u] = req[u]
  BY <1>1 DEF Over, IInv, Typing
<1> QED
  BY <1>1, <1>2, OthersJudging

LEMMA ExpireJudging == ASSUME IInv, Judging, Expire PROVE Judging'
<1>1. /\ req' = [u \in Tab |-> IF at[u] = "idle" THEN None ELSE [req[u] EXCEPT !.doubt = TRUE]]
      /\ UNCHANGED <<menu, at, ctx>>
  BY DEF Expire
<1>2. ASSUME NEW u \in Tab, at[u] # "idle" PROVE req'[u].r = req[u].r
  <2>1. req'[u] = [req[u] EXCEPT !.doubt = TRUE]
    BY <1>1, <1>2
  <2>2. DOMAIN req[u] = {"r", "method", "cookie", "token", "doubt"}
    BY <1>2 DEF IInv, Carrying
  <2> QED
    BY <2>1, <2>2
<1> QED
  BY <1>1, <1>2, OthersJudging

LEMMA JudgingStep == IInv /\ Judging /\ [Next]_vars => Judging'
<1> SUFFICES ASSUME IInv, Judging, [Next]_vars PROVE Judging'
  OBVIOUS
<1>1. menu.tabs \subseteq Tab
  BY MenusOK DEF IInv, Typing
<1>2. ASSUME NEW t \in Tab, \E r \in menu.requests : Send(t, r) PROVE Judging'
  BY <1>2, SendJudging
<1>3. CASE Restart
  BY <1>3 DEF Restart, Judging
<1>4. CASE UNCHANGED vars
  BY <1>4 DEF vars, Judging, Justified, Judged
<1> QED
  BY <1>1, <1>2, <1>3, <1>4, WayInJudging, HandlerJudging, ValidatorJudging, WayBackJudging,
     OverJudging, ExpireJudging DEF Next

\* Whatever the rules of a field, their order and their markers, and whatever
\* else the handler calls: what the Validator found of the request's own data is
\* each rule that fails and counts, in the order of the rules, and nothing more
\* (validator.go:53-93).
THEOREM ValidationRight == Spec => []ValidatedRight
<1>1. IInv /\ Judging => ValidatedRight
  <2> SUFFICES ASSUME IInv, Judging, NEW t \in Tab, at[t] # "idle", ctx[t].errors # None,
                      NEW f \in FieldName
               PROVE  Complete(Data(req[t].r), f, ctx[t].rules.rules[f], ctx[t].rules.with[f],
                               ctx[t].errors[f])
    BY Zenon DEF ValidatedRight, Complete
  <2> DEFINE data == Data(req[t].r)
             v == ctx[t].rules
  <2>1. v \in menu.rules /\ ctx[t].errors = Errors(data, v.rules, v.with)
    BY DEF Judging, Justified, Judged
  <2>2. v.rules[f] \in Seq(AnyRule) /\ v.with[f] \in Seq(AnyRule)
    BY <2>1, RulesOK DEF IInv, Typing
  <2>3. ctx[t].errors[f] = Field(data, f, v.rules[f]) \o FieldWith(data, f, v.with[f])
    BY <2>1 DEF Errors
  <2> HIDE DEF data, v
  <2>4. Complete(data, f, v.rules[f], v.with[f], ctx[t].errors[f])
    BY <2>2, <2>3, FieldRight
  <2> QED
    BY <2>4 DEF data, v
<1>2. Spec => []Judging
  <2>1. Init => Judging
    BY DEF Init, Judging
  <2> QED
    BY <2>1, JudgingStep, Invariance, PTL DEF Spec
<1> QED
  BY <1>1, <1>2, Invariance, PTL
=============================================================================
