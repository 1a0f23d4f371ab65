---------------------------- MODULE MCConnections ----------------------------
(* The scenarios of the feature files of RFC 0160 and RFC 0023. *)
EXTENDS Connections

CONSTANTS Acme, Bob, Mallory, x1, x2

MCAgents == {Acme, Bob, Mallory}
MCExchanges == {x1, x2}

S(d, a, b) == [do |-> d, by |-> a, to |-> b]

Request(a, b) == <<S("generate", a, b), S("receive", b, a), S("request", b, a)>>
Connect(a, b) ==
  Request(a, b) \o <<S("respond", a, b), S("ping", b, a), S("connected", a, b)>>
Ask(a, b) == <<S("invite", a, b), S("take", b, a), S("ask", b, a), S("hear", a, b)>>
Exchange(a, b) ==
  Ask(a, b) \o <<S("answer", a, b), S("answered", b, a), S("connected", a, b)>>

Protocol0160(steps) ==
  [protocol |-> "connection", form |-> "connection", reuse |-> FALSE, first |-> Acme, second |-> Bob,
   steps |-> steps]
Protocol0023(form, reuse, steps) ==
  [protocol |-> "did-exchange", form |-> form, reuse |-> reuse, first |-> Bob, second |-> Acme,
   steps |-> steps]

\* T001, T003, T004 and T006 of RFC 0160.
Scenarios0160 ==
  {Protocol0160(Connect(Acme, Bob)),
   Protocol0160(Connect(Acme, Bob) \o <<S("receive", Mallory, Acme)>>),
   Protocol0160(Request(Acme, Bob) \o <<S("receive", Mallory, Acme)>>),
   Protocol0160(Connect(Acme, Bob) \o Connect(Bob, Acme))}

\* T007, which begins like T001, and T005 of RFC 0023, and "have an existing connection",
\* which goes on like T003 where no connection is reused.
Scenarios0023 ==
  {Protocol0023("invitation", FALSE,
     Ask(Bob, Acme) \o <<S("answer", Bob, Acme), S("answered", Acme, Bob), S("repeat", Bob, Acme),
                         S("connected", Acme, Bob)>>),
   Protocol0023("public", TRUE, Exchange(Bob, Acme)),
   Protocol0023("request", FALSE,
     <<S("askPublic", Acme, Bob), S("hearPublic", Bob, Acme), S("answer", Bob, Acme),
       S("answered", Acme, Bob), S("connected", Acme, Bob)>>)}

MCScenarios == Scenarios0160 \cup Scenarios0023
=============================================================================
