----------------------------- MODULE MCPipeline -----------------------------
(* A small instance of Pipeline for TLC. *)
EXTENDS Pipeline, TLC

CONSTANTS t1, t2, ada, bob, f, g

-----------------------------------------------------------------------------
(* Texts and rules *)

MCText == {"", " ", "ada", "a@b", "1", "12", "NaN", "2024-01-01", "2024-01-02"}

MCLength ==
    ("" :> 0) @@ (" " :> 1) @@ ("ada" :> 3) @@ ("a@b" :> 3) @@ ("1" :> 1) @@ ("12" :> 2)
    @@ ("NaN" :> 3) @@ ("2024-01-01" :> 10) @@ ("2024-01-02" :> 10)

MCNumber == ("1" :> 1) @@ ("12" :> 12) @@ ("NaN" :> NaN)
MCDay == ("2024-01-01" :> 1) @@ ("2024-01-02" :> 2)

MCShape ==
    [email |-> {"a@b"}, alpha |-> {"ada", "NaN"}, alpha_num |-> {"ada", "1", "12", "NaN"},
     url |-> {}, uuid |-> {}, boolean |-> {"1"}]

\* Rule lists for Field: markers at every place among rules that fail.
Lists ==
    {<<Required, Email, Min(3)>>, <<Bail, Required, Numeric, MinValue(2)>>,
     <<Sometimes, Required, Max(3)>>, <<Required, Sometimes, Bail, Alpha, AlphaNum>>,
     <<Bail, Sometimes, Date, Before("2024-01-02"), After("ada")>>,
     <<Between(2, 20), Bail, MaxValue(5), Boolean, In({"1"})>>,
     <<NotIn({"ada"}), URL, UUID, Bail, NotInList({"ada"}), Regex({"1"})>>}

\* Rule lists for FieldWith.
WithLists(data) ==
    {<<>>, <<Confirmed(data, g), Same(data, g)>>, <<Different(data, g), Unique({"ada"}, FALSE)>>,
     <<Unique({}, TRUE)>>}

MCData ==
    [{f} -> MCText] \cup [{f, g} -> {"", "ada"}] \cup [{g} -> {"ada"}]

Alone(list) == [rules |-> [h \in FieldName |-> IF h = f THEN list ELSE <<>>],
                with |-> [h \in FieldName |-> <<>>]]

And(v, list) == [v EXCEPT !.with[f] = list]

MCRules == {Alone(list) : list \in Lists} \cup
    UNION {{And(Alone(<<Required, Sometimes>>), list) : list \in WithLists(data)} :
            data \in {[h \in {g} |-> "ada"], [h \in {} |-> ""]}}

-----------------------------------------------------------------------------
(* Requests *)

Nobody == [user |-> None, roles |-> {}, bearer |-> "none", link |-> "bare", jwt |-> "none"]

GET ==
    [sent |-> "GET", enc |-> "none", url |-> {}, spoof |-> None, kind |-> "plain", exempt |-> FALSE,
     cors |-> FALSE, guards |-> <<>>, who |-> Nobody, data |-> [h \in {} |-> ""]]

From(sent, enc) == [GET EXCEPT !.sent = sent, !.enc = enc]

\* The same with some values in its URL.
WithURL(r, values) == [r EXCEPT !.url = values]

\* Every way in which a form or a script may send its token.
Forms ==
    {From("POST", "form"), From("PUT", "form"), From("DELETE", "form"), From("POST", "multipart"),
     From("PUT", "multipart"), From("POST", "json"), From("DELETE", "ajax"),
     [From("POST", "form") EXCEPT !.spoof = "DELETE"],
     WithURL([From("POST", "json") EXCEPT !.spoof = "PUT"], {"_method"}),
     WithURL(From("DELETE", "json"), {"_token"}),
     [From("POST", "json") EXCEPT !.exempt = TRUE]}

Pages == {[GET EXCEPT !.kind = k] : k \in {"plain", "view", "view+error", "model", "404", "405"}}

MCAbilities == [edit |-> {ada}]

Guards ==
    {<<[kind |-> "login", redirect |-> TRUE], [kind |-> "role", roles |-> {"admin"}]>>,
     <<[kind |-> "login", redirect |-> FALSE], [kind |-> "gate", name |-> "edit"]>>,
     <<[kind |-> "gate", name |-> "none"]>>,
     <<[kind |-> "bearer", status |-> 403]>>, <<[kind |-> "signed"]>>, <<[kind |-> "jwt"]>>}

Visitors ==
    {Nobody,
     [user |-> ada, roles |-> {"admin"}, bearer |-> "live", link |-> "live", jwt |-> "expired"],
     [user |-> bob, roles |-> {"staff"}, bearer |-> "expired", link |-> "expired", jwt |-> "live"],
     [user |-> bob, roles |-> {}, bearer |-> "undated", link |-> "altered", jwt |-> "undated"],
     [user |-> ada, roles |-> {}, bearer |-> "unknown", link |-> "garbled", jwt |-> "altered"]}

Guarded == {[GET EXCEPT !.guards = gs, !.who = w] : gs \in Guards, w \in Visitors}

Posts ==
    {[r EXCEPT !.data = d] : d \in MCData,
        r \in {From("POST", "form"), From("POST", "json"), WithURL(From("POST", "ajax"), {"data"})}}

Menu(tabs, requests, ops, rules) ==
    [tabs |-> tabs, requests |-> requests, ops |-> ops, rules |-> rules]

Calling ==
    {"json", "redirect", "abort", "render", "view", "error", "file", "nocontent", "write",
     "validate", "formrequest", "panic", "sse"}

MCMenus ==
    {Menu({t1}, Pages, Calling, {Alone(<<Required>>)}),
     Menu({t1, t2}, {GET, From("POST", "form")}, {}, {}),
     Menu({t1}, {GET} \cup Forms, {}, {}),
     Menu({t1}, Guarded \cup {[From("OPTIONS", "none") EXCEPT !.cors = TRUE, !.kind = "405"]}, {}, {}),
     Menu({t1}, {GET} \cup Posts, {"validator", "validate", "formrequest"}, MCRules)}
=============================================================================
