---------------------------- MODULE MCFixtureRewriting --------------------------
(* Queries over three tables in two schemas, two of which get the same first
   alias candidate, with up to two CTEs and two sources.                      *)
EXTENDS FixtureRewriting

MCIdentifiers == STRING
MCSchemas == {"app", "app_x"}

\* app_x.users and app.x_users both become app_x_users.
Underscores == <<"", "_", "__", "___">>
MCCandidate(n, at) ==
  IF n.schema = NoSchema THEN n.table \o Underscores[at]
  ELSE n.schema \o Underscores[at + 1] \o n.table

Users == Bare("users")
AppUsers == In("app", Bare("users"))
XUsers == In("app_x", Bare("users"))
AppXUsers == In("app", Bare("x_users"))
Lookalike == Bare("app_x_users")
AppLookalike == In("app", Lookalike)
Recent == In("app_x", Bare("recent"))

Source(n, alias, column) == [name |-> n, alias |-> alias, column |-> column]

AppRecent == In("app", Bare("recent"))

\* A source's columns go by its name, its last part or its alias.
MCSources ==
  {Source(n, NoAlias, n) : n \in {Users, XUsers, AppXUsers, Lookalike, Bare("recent"), AppRecent}}
    \cup {Source(XUsers, NoAlias, Users), Source(XUsers, "users", Users), Source(Users, "u", Bare("u")),
          Source(Recent, "r", Bare("r")), Source(AppLookalike, "v", Bare("v"))}

Label(s) == IF s.alias = NoAlias THEN s.name.table ELSE s.alias

MCBodies ==
  {body \in {{s, t} : s, t \in MCSources} :
     \A s, t \in body : Label(s) = Label(t) => s = t}

MCCteLists ==
  LET plain == {[name |-> id, sources |-> {Source(n, NoAlias, n)}] :
                  id \in {"users", "app_x_users", "recent"}, n \in {Users, XUsers, Lookalike}}
  IN  {<<>>} \cup {<<c>> : c \in plain} \cup {p \in plain \X plain : p[1].name # p[2].name}

RecentView == [key |-> Recent, cteName |-> "recent", reads |-> {XUsers, Lookalike}]

LookalikeView == [key |-> AppLookalike, cteName |-> "app_x_users", reads |-> {XUsers}]

MCPaths == {<<>>, <<"app">>, <<"app_x">>, <<"app", "app_x">>}
MCFixtureLists ==
  {<<XUsers, AppXUsers>>, <<XUsers, Lookalike>>, <<Users, XUsers>>, <<AppXUsers, Users>>,
   <<AppRecent, XUsers>>}
MCViewSets == {{}, {RecentView}, {RecentView, [RecentView EXCEPT !.key = AppRecent]},
               {LookalikeView}}
================================================================================
