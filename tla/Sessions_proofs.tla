--------------------------- MODULE Sessions_proofs ---------------------------
(* Proofs about the web server and its users, for any requests on any number *)
(* of connections: that a function of a node runs only with a permission a   *)
(* login has granted, and that the table of users stays consistent.          *)
EXTENDS Sessions, FiniteSetTheorems, TLAPS

-----------------------------------------------------------------------------
(***************************************************************************)
(* Users                                                                   *)
(***************************************************************************)
Groups == {0, 1000}
\* The names and passwords, with those of the factory (the provers do not know that
\* a text in quotes is in STRING).
Texts == STRING \cup {"admin", "123456"}
Row == [username : Texts, password : Texts, gid : Groups, token : Nat]
Levels == {PERMISSION_READ, PERMISSION_ADMIN}
Context == [id : Nat, gid : Groups, token : Nat, permission : Levels \cup {{}}]

\* A name has one row, and only admin is an administrator.
TableOK(table) ==
  /\ table \in Seq(Row)
  /\ \A i, j \in 1 .. Len(table) : table[i].username = table[j].username => i = j
  /\ \A i \in 1 .. Len(table) : table[i].gid = 0 => table[i].username = "admin"

\* A context is that of a user of the table, whose row holds its token, unless the
\* token was lost.
Matches(table, ctx, lost) ==
  ctx.id \in 0 .. Len(table) /\ (ctx.id # 0 /\ ~lost => table[ctx.id].token = ctx.token)

\* The token of a context comes from a login.
Issued(ctx, n) == ctx \in Context /\ ctx.token <= n

UsersOK ==
  /\ TableOK(userTable) /\ Matches(userTable, managerCtx, unsaved)
  /\ unsaved \in BOOLEAN /\ logins \in Nat /\ Issued(managerCtx, logins)
  /\ Issued(apiCtx, logins) /\ apiCtx.id \in 0 .. Len(userTable)

IsOutcome(o) ==
  o = [answer |-> o.answer, users |-> o.users, manager |-> o.manager, api |-> o.api,
       run |-> o.run, login |-> o.login, unsaved |-> o.unsaved]

\* What an answer to a request leaves behind: either the user logs in, or the context
\* of the user manager stays; a function runs with the permissions of apiCtx only.
Sound(o, url) ==
  /\ IsOutcome(o)
  /\ TableOK(o.users) /\ Len(o.users) >= Len(userTable) /\ Matches(o.users, o.manager, o.unsaved)
  /\ o.api \in {apiCtx, managerCtx}
  /\ o.login \in BOOLEAN /\ o.unsaved \in BOOLEAN
  /\ IF o.login
     THEN /\ Len(url) > 3 /\ url[4] = "login"
          /\ o.run = executed
          /\ Issued(o.manager, logins + 1) /\ o.manager.permission \in Levels
     ELSE o.manager = managerCtx /\ o.unsaved = unsaved
  /\ \/ o.run = executed
     \/ o.run.needs # {} /\ o.run.needs \subseteq apiCtx.permission

\* An answer that changes nothing is sound, with either context.
LEMMA PlainSound ==
  ASSUME UsersOK, NEW url, NEW o, IsOutcome(o),
         o.users = userTable, o.manager = managerCtx, o.api \in {apiCtx, managerCtx},
         o.login = FALSE, o.run = executed, o.unsaved = unsaved
  PROVE  Sound(o, url)
<1>1. Len(userTable) \in Nat
  BY DEF UsersOK, TableOK
<1>2. /\ TableOK(o.users) /\ Matches(o.users, o.manager, o.unsaved)
      /\ Len(o.users) >= Len(userTable) /\ o.unsaved \in BOOLEAN
  BY <1>1 DEF UsersOK
<1> QED
  BY <1>2, Zenon DEF Sound

\* The fields of an answer.
LEMMA OutcomeFields ==
  ASSUME NEW a
  PROVE  /\ Outcome(a).users = userTable /\ Outcome(a).manager = managerCtx
         /\ Outcome(a).api = apiCtx /\ Outcome(a).run = executed /\ Outcome(a).login = FALSE
         /\ Outcome(a).unsaved = unsaved
         /\ IsOutcome(Outcome(a))
BY DEF Outcome, IsOutcome

\* Where a name has a row, RowOf finds it: there is no other.
LEMMA OneRow ==
  ASSUME TableOK(userTable), NEW user, RowsOf(user) # {}
  PROVE  /\ RowOf(user) \in 1 .. Len(userTable)
         /\ userTable[RowOf(user)].username = user
         /\ RowsOf(user) = {RowOf(user)}
<1>1. RowsOf(user) = {i \in 1 .. Len(userTable) : userTable[i].username = user}
  BY DEF RowsOf, TableOK
<1>2. PICK i \in 1 .. Len(userTable) : i \in RowsOf(user)
  BY <1>1
<1>3. RowsOf(user) = {i}
  BY <1>1, <1>2 DEF TableOK
<1>4. RowOf(user) \in RowsOf(user)
  <2>1. \E k \in RowsOf(user) : \A j \in RowsOf(user) : k <= j
    BY <1>2, <1>3
  <2> QED
    BY <2>1 DEF RowOf
<1> QED
  BY <1>1, <1>2, <1>3, <1>4

\* An UPDATE of the token or the password leaves names and groups as they are.
LEMMA UpdatedTable ==
  ASSUME TableOK(userTable), NEW user, RowsOf(user) # {},
         NEW field \in {"token", "password"}, NEW value,
         field = "token" => value \in Nat, field = "password" => value \in Texts
  PROVE  LET table == Updated(user, field, value)
         IN  /\ TableOK(table) /\ Len(table) = Len(userTable)
             /\ \A i \in 1 .. Len(userTable) :
                  field = "token" => table[i].token = IF i = RowOf(user) THEN value
                                                      ELSE userTable[i].token
             /\ \A i \in 1 .. Len(userTable) :
                  field = "password" => table[i].token = userTable[i].token
<1> DEFINE table == Updated(user, field, value)
           new(i) == IF i \in RowsOf(user) THEN [userTable[i] EXCEPT ![field] = value]
                     ELSE userTable[i]
<1>1. /\ Len(userTable) \in Nat /\ DOMAIN userTable = 1 .. Len(userTable)
      /\ \A i \in 1 .. Len(userTable) : userTable[i] \in Row
  BY DEF TableOK
<1>2. table = [i \in 1 .. Len(userTable) |-> new(i)]
  BY <1>1 DEF Updated
<1>3. \A i \in 1 .. Len(userTable) :
        /\ new(i) \in Row /\ new(i).username = userTable[i].username
        /\ new(i).gid = userTable[i].gid
        /\ field = "token" => new(i).token = IF i \in RowsOf(user) THEN value
                                             ELSE userTable[i].token
        /\ field = "password" => new(i).token = userTable[i].token
  <2>1. CASE field = "token"
    BY <1>1, <2>1 DEF Row
  <2>2. CASE field = "password"
    BY <1>1, <2>2 DEF Row
  <2> QED
    BY <2>1, <2>2
<1> HIDE DEF new, table
<1>4. table \in Seq(Row) /\ Len(table) = Len(userTable)
  BY <1>1, <1>2, <1>3
<1>5. \A i \in 1 .. Len(userTable) : table[i] = new(i)
  BY <1>2
<1>6. TableOK(table)
  BY <1>1, <1>3, <1>4, <1>5 DEF TableOK
<1>7. RowsOf(user) = {RowOf(user)}
  BY OneRow
<1> QED
  BY <1>3, <1>4, <1>5, <1>6, <1>7 DEF table

\* db_get_user_ctx fills in who logs in, after the token.
Filled(c, t, i, g) == [c EXCEPT !.token = t, !.id = i, !.gid = g]

LEMMA ContextFilled ==
  ASSUME NEW c \in Context, NEW t \in Nat, NEW i \in Nat, NEW g \in Groups
  PROVE  /\ Filled(c, t, i, g) \in Context /\ Filled(c, t, i, g).token = t
         /\ Filled(c, t, i, g).id = i /\ Filled(c, t, i, g).gid = g
<1> DEFINE P == Levels \cup {{}}
<1>1. Context = [id : Nat, gid : Groups, token : Nat, permission : P]
  BY DEF Context
<1> HIDE DEF P
<1> QED
  BY <1>1 DEF Filled

\* The context of the user who logs in.
LEMMA ContextGranted ==
  ASSUME NEW c \in Context, NEW t \in Nat, NEW i \in Nat, NEW g \in Groups,
         NEW new, new = Filled(c, t, i, g)
  PROVE  /\ new \in Context /\ new.token = t /\ new.id = i
         /\ \A l \in Levels :
              LET ctx == [new EXCEPT !.permission = l]
              IN  ctx \in Context /\ ctx.token = t /\ ctx.id = i /\ ctx.permission = l
<1> DEFINE P == Levels \cup {{}}
<1>1. Context = [id : Nat, gid : Groups, token : Nat, permission : P]
  BY DEF Context
<1>2. \A l \in Levels : l \in P
  OBVIOUS
<1> HIDE DEF P
<1>3. new \in Context /\ new.token = t /\ new.id = i
  BY ContextFilled
<1>4. ASSUME NEW l \in Levels
      PROVE  LET ctx == [new EXCEPT !.permission = l]
             IN  ctx \in Context /\ ctx.token = t /\ ctx.id = i /\ ctx.permission = l
  BY <1>1, <1>2, <1>3
<1> QED
  BY <1>3, <1>4

Body == [username : STRING, password : STRING, newpassword : STRING]

\* A login gives the user a new token, and the context the permission of its group.
LEMMA LoginSound ==
  ASSUME UsersOK, NEW b \in Body, NEW url, Len(url) > 3, url[4] = "login",
         NEW o \in wtsl_core_user_login(b)
  PROVE  Sound(o, url)
<1> DEFINE user == db_get_user_ctx(b.username, [managerCtx EXCEPT !.token = generate_token])
           ctx == [user EXCEPT !.permission = Granted(user.gid)]
           done(t) == [Outcome("ok") EXCEPT !.users = t, !.manager = ctx, !.login = TRUE,
                                            !.unsaved = (t = userTable)]
           tables == db_update_user_token(b.username, ctx.token)
<1>1. CASE o \in Missing \/ o = Outcome("error")
  BY <1>1, PlainSound, OutcomeFields DEF Missing
<1>2. CASE db_check_password(b.username, b.password) /\ \E t \in tables : o = done(t)
  <2> DEFINE row == RowOf(b.username)
  <2>1. RowsOf(b.username) # {}
    BY <1>2 DEF db_check_password, db_user_exists
  <2>2. row \in 1 .. Len(userTable) /\ userTable[row] \in Row /\ TableOK(userTable)
    BY <2>1, OneRow DEF UsersOK, TableOK
  <2>3. logins \in Nat /\ generate_token = logins + 1 /\ managerCtx \in Context
    BY DEF UsersOK, Issued, generate_token
  <2>4. user = [managerCtx EXCEPT !.token = logins + 1, !.id = row, !.gid = userTable[row].gid]
    BY <2>3 DEF db_get_user_ctx, Context
  <2> HIDE DEF row, user
  <2>5. Granted(user.gid) \in Levels
    BY DEF Granted, Levels
  <2>6. row \in Nat /\ userTable[row].gid \in Groups /\ logins + 1 \in Nat
    BY <2>2, <2>3 DEF TableOK, Row
  <2>7. /\ ctx \in Context /\ ctx.token = logins + 1 /\ ctx.id = row
        /\ ctx.permission = Granted(user.gid)
    <3>1. \A u : \A t, i \in Nat : \A g \in Groups :
            u = Filled(managerCtx, t, i, g) =>
              \A l \in Levels :
                /\ [u EXCEPT !.permission = l] \in Context
                /\ [u EXCEPT !.permission = l].token = t
                /\ [u EXCEPT !.permission = l].id = i
                /\ [u EXCEPT !.permission = l].permission = l
      BY <2>3, ContextGranted
    <3>2. user = Filled(managerCtx, logins + 1, row, userTable[row].gid)
      BY <2>4 DEF Filled
    <3> QED
      BY <2>5, <2>6, <3>1, <3>2
  <2> HIDE DEF ctx
  <2> DEFINE table == Updated(b.username, "token", logins + 1)
  <2>8. /\ TableOK(table) /\ Len(table) = Len(userTable)
        /\ table[row].token = logins + 1
    <3>1. logins + 1 \in Nat
      BY <2>3
    <3> QED
      BY <2>1, <2>2, <3>1, UpdatedTable DEF row
  <2>9. PICK t \in {userTable, table} : o = done(t)
    BY <1>2, <2>7 DEF db_update_user_token, Written
  <2> HIDE DEF table
  <2>a. /\ o.users = t /\ o.manager = ctx /\ o.login = TRUE /\ o.unsaved = (t = userTable)
        /\ o.api = apiCtx /\ o.run = executed /\ IsOutcome(o)
    BY <2>9 DEF Outcome, IsOutcome
  <2>10. Len(userTable) \in Nat
    BY <2>2 DEF TableOK
  <2>11. Matches(t, ctx, t = userTable) /\ Issued(ctx, logins + 1)
    BY <2>2, <2>3, <2>7, <2>8, <2>9, <2>10 DEF Matches, Issued
  <2>12. /\ TableOK(o.users) /\ Matches(o.users, o.manager, o.unsaved)
         /\ Len(o.users) >= Len(userTable) /\ o.unsaved \in BOOLEAN
    BY <2>2, <2>8, <2>9, <2>a, <2>10, <2>11
  <2>13. Issued(o.manager, logins + 1) /\ o.manager.permission \in Levels
    BY <2>5, <2>7, <2>a, <2>11
  <2> QED
    BY <2>a, <2>12, <2>13, Zenon DEF Sound
<1>3. o \in Missing \/ o = Outcome("error")
        \/ (db_check_password(b.username, b.password) /\ \E t \in tables : o = done(t))
  BY DEF wtsl_core_user_login
<1> QED
  BY <1>1, <1>2, <1>3

\* An INSERT adds a row at the end, or fails.
LEMMA Registered ==
  ASSUME NEW table, TableOK(table), NEW user \in Texts, NEW gid \in Groups, NEW pwd \in Texts,
         \A i \in 1 .. Len(table) : table[i].username # user, gid = 0 => user = "admin",
         NEW t \in db_register(table, user, gid, pwd)
  PROVE  /\ TableOK(t) /\ Len(t) >= Len(table)
         /\ \A i \in 1 .. Len(table) : t[i] = table[i]
<1> DEFINE new == [username |-> user, password |-> pwd, gid |-> gid, token |-> 0]
<1>1. Len(table) \in Nat /\ table \in Seq(Row)
  BY DEF TableOK
<1>2. new \in Row /\ new.username = user /\ new.gid = gid
  BY DEF Row
<1> HIDE DEF new
<1>3. t = table \/ t = Append(table, new)
  BY DEF db_register, Written, new
<1>4. CASE t = Append(table, new)
  <2>1. /\ t \in Seq(Row) /\ Len(t) = Len(table) + 1 /\ t[Len(table) + 1] = new
        /\ \A i \in 1 .. Len(table) : t[i] = table[i]
    BY <1>1, <1>2, <1>4
  <2>2. \A i \in 1 .. Len(t) : i \in 1 .. Len(table) \/ i = Len(table) + 1
    BY <1>1, <2>1
  <2>3. \A i, j \in 1 .. Len(t) : t[i].username = t[j].username => i = j
    BY <1>2, <2>1, <2>2 DEF TableOK
  <2>4. \A i \in 1 .. Len(t) : t[i].gid = 0 => t[i].username = "admin"
    BY <1>2, <2>1, <2>2 DEF TableOK
  <2> QED
    BY <1>1, <2>1, <2>3, <2>4 DEF TableOK
<1> QED
  BY <1>1, <1>3, <1>4

\* A registration adds a row for a name that has none, which is no administrator's.
LEMMA RegisterSound ==
  ASSUME UsersOK, NEW b \in Body, NEW url, NEW o \in wtsl_core_user_register(b)
  PROVE  Sound(o, url)
<1> DEFINE tables == db_register(userTable, b.username, 1000, b.password)
           done(t) == [Outcome("ok") EXCEPT !.users = t]
<1>1. CASE o \in Missing \/ o = Outcome("error")
  BY <1>1, PlainSound, OutcomeFields DEF Missing
<1>2. CASE ~db_user_exists(b.username) /\ \E t \in tables : o = done(t)
  <2>1. TableOK(userTable) /\ Len(userTable) \in Nat
    BY DEF UsersOK, TableOK
  <2>2. \A i \in 1 .. Len(userTable) : userTable[i].username # b.username
    BY <1>2, <2>1 DEF db_user_exists, RowsOf, TableOK
  <2>3. PICK t \in tables : o = done(t)
    BY <1>2
  <2>4. b.username \in Texts /\ b.password \in Texts /\ 1000 \in Groups /\ 1000 # 0
    BY DEF Body, Texts, Groups
  <2>5. /\ TableOK(t) /\ Len(t) >= Len(userTable) /\ Len(t) \in Nat
        /\ \A i \in 1 .. Len(userTable) : t[i] = userTable[i]
    <3>1. /\ TableOK(t) /\ Len(t) >= Len(userTable)
          /\ \A i \in 1 .. Len(userTable) : t[i] = userTable[i]
      BY <2>1, <2>2, <2>3, <2>4, Registered
    <3> QED
      BY <3>1 DEF TableOK
  <2>6. Matches(t, managerCtx, unsaved) /\ unsaved \in BOOLEAN
    BY <2>1, <2>5 DEF Matches, UsersOK
  <2>7. /\ o.users = t /\ o.manager = managerCtx /\ o.api = apiCtx /\ o.run = executed
        /\ o.login = FALSE /\ o.unsaved = unsaved /\ IsOutcome(o)
    BY <2>3 DEF Outcome, IsOutcome
  <2>8. TableOK(o.users) /\ Len(o.users) >= Len(userTable)
          /\ Matches(o.users, o.manager, o.unsaved) /\ o.unsaved \in BOOLEAN
    BY <2>5, <2>6, <2>7
  <2> QED
    BY <2>7, <2>8, Zenon DEF Sound
<1>3. \/ o \in Missing \/ o = Outcome("error")
      \/ ~db_user_exists(b.username) /\ \E t \in tables : o = done(t)
  BY DEF wtsl_core_user_register
<1> QED
  BY <1>1, <1>2, <1>3

\* A new password changes nobody's name, group or token.
LEMMA ChangeSound ==
  ASSUME UsersOK, NEW b \in Body, NEW url, NEW o \in wtsl_core_user_change_pwd(b)
  PROVE  Sound(o, url)
<1> DEFINE table == Updated(b.username, "password", b.newpassword)
           done(t) == [Outcome("ok") EXCEPT !.users = t]
<1>1. CASE o \in Missing \/ o = Outcome("error") \/ o = Outcome("fault")
  BY <1>1, PlainSound, OutcomeFields DEF Missing
<1>2. CASE db_check_password(b.username, b.password) /\ \E t \in {userTable, table} : o = done(t)
  <2>1. RowsOf(b.username) # {} /\ TableOK(userTable) /\ Len(userTable) \in Nat
    BY <1>2 DEF db_check_password, db_user_exists, UsersOK, TableOK
  <2>2. b.newpassword \in Texts
    BY DEF Body, Texts
  <2>3. /\ TableOK(table) /\ Len(table) = Len(userTable)
        /\ \A i \in 1 .. Len(userTable) : table[i].token = userTable[i].token
    BY <2>1, <2>2, UpdatedTable
  <2>t. PICK t \in {userTable, table} : o = done(t)
    BY <1>2
  <2> HIDE DEF table
  <2>4. TableOK(t) /\ Len(t) = Len(userTable) /\ Matches(t, managerCtx, unsaved)
    BY <2>1, <2>3, <2>t DEF Matches, UsersOK
  <2>5. /\ o.users = t /\ o.manager = managerCtx /\ o.api = apiCtx /\ o.run = executed
        /\ o.login = FALSE /\ o.unsaved = unsaved /\ IsOutcome(o)
    BY <2>t DEF Outcome, IsOutcome
  <2>6. /\ TableOK(o.users) /\ Len(o.users) >= Len(userTable)
        /\ Matches(o.users, o.manager, o.unsaved) /\ o.unsaved \in BOOLEAN
    BY <2>1, <2>4, <2>5 DEF UsersOK
  <2> QED
    BY <2>5, <2>6, Zenon DEF Sound
<1>3. o \in Missing \/ o = Outcome("error") \/ o = Outcome("fault")
        \/ /\ db_check_password(b.username, b.password)
           /\ \E t \in {userTable, table} : o = done(t)
  BY DEF wtsl_core_user_change_pwd, db_change_password, Written
<1> QED
  BY <1>1, <1>2, <1>3

-----------------------------------------------------------------------------
(***************************************************************************)
(* Answers to requests                                                     *)
(***************************************************************************)
\* A function runs where the context of the web server has its permission, which is
\* never nothing.
LEMMA CallSound ==
  ASSUME UsersOK, NEW url, NEW id, NEW func, NEW n,
         NEW o, o \in interface_wrapper(id, func, n) \/ o \in Call(id, func, n)
  PROVE  Sound(o, url)
<1>1. CASE o = Outcome("error")
  BY <1>1, PlainSound, OutcomeFields
<1>2. CASE /\ check_permission_user(apiCtx, Required(func))
           /\ \E a \in {"ok", "error"} :
                o = [Outcome(a) EXCEPT !.run = [func |-> func, pieces |-> n,
                                                needs |-> Required(func)]]
  <2> DEFINE run == [func |-> func, pieces |-> n, needs |-> Required(func)]
  <2>1. Required(func) # {} /\ Required(func) \subseteq apiCtx.permission
    <3>1. Required(func) \in {{1}, {2}, {4}, {1, 2, 4}}
      BY DEF Required, PERMISSION_READ, PERMISSION_WRITE, PERMISSION_EXECUTE, PERMISSION_ADMIN
    <3> QED
      BY <1>2, <3>1 DEF check_permission_user
  <2>2. run.needs = Required(func)
    OBVIOUS
  <2> HIDE DEF run
  <2>3. PICK a \in {"ok", "error"} : o = [Outcome(a) EXCEPT !.run = run]
    BY <1>2 DEF run
  <2>4. /\ o.users = userTable /\ o.manager = managerCtx /\ o.api = apiCtx
        /\ o.run = run /\ o.login = FALSE /\ o.unsaved = unsaved /\ IsOutcome(o)
    BY <2>3 DEF Outcome, IsOutcome
  <2>5. /\ Len(userTable) \in Nat /\ TableOK(userTable)
        /\ Matches(userTable, managerCtx, unsaved)
    BY DEF UsersOK, TableOK
  <2>6. /\ TableOK(o.users) /\ Len(o.users) >= Len(userTable)
        /\ Matches(o.users, o.manager, o.unsaved) /\ o.unsaved \in BOOLEAN
    BY <2>4, <2>5 DEF UsersOK
  <2>7. o.run.needs # {} /\ o.run.needs \subseteq apiCtx.permission
    BY <2>1, <2>2, <2>4
  <2> QED
    BY <2>4, <2>6, <2>7, Zenon DEF Sound
<1> QED
  BY <1>1, <1>2 DEF Call, interface_wrapper, call_remote_node_cmd

\* GET: the functions that tell of a node.
LEMMA GetNodesSound ==
  ASSUME UsersOK, NEW r, NEW o \in wtsl_core_get_nodes_functions(r)
  PROVE  Sound(o, r.url)
<1>1. CASE \E a : o = Outcome(a)
  BY <1>1, PlainSound, OutcomeFields
<1>2. CASE \E id, func, n : o \in interface_wrapper(id, func, n) \/ o \in Call(id, func, n)
  BY <1>2, CallSound
<1>3. \/ \E a : o = Outcome(a)
      \/ \E id, func, n : o \in interface_wrapper(id, func, n) \/ o \in Call(id, func, n)
  <2> DEFINE func == list_get(r.url, 4)
             way  == list_get(r.url, 5)
             noWay == /\ find_wtsl_node_by_id(r.id)
                      /\ func \in DOMAIN GetWays /\ way \notin DOMAIN GetWays[func]
             C1 == Len(r.url) <= 3 /\ find_wtsl_node_by_id(0)
             C2 == Len(r.url) <= 3 /\ ~find_wtsl_node_by_id(0)
             C3 == Len(r.url) = 5
             C4 == Len(r.url) >= 6 /\ ~noWay
             S1 == interface_wrapper(0, "get_all_nodes_info", r.pieces)
             S2 == {Outcome("fault")}
             S3 == Call(r.id, Route(GetRoutes, func), r.pieces)
             S4 == Call(r.id, WayOf(GetWays, func, way), r.pieces)
             S5 == {Outcome("ok")}
  <2>1. wtsl_core_get_nodes_functions(r) =
          CASE C1 -> S1 [] C2 -> S2 [] C3 -> S3 [] C4 -> S4 [] OTHER -> S5
    BY DEF wtsl_core_get_nodes_functions
  <2> HIDE DEF noWay, func, way, C1, C2, C3, C4, S1, S2, S3, S4, S5
  <2>2. o \in S1 \/ o \in S2 \/ o \in S3 \/ o \in S4 \/ o \in S5
    BY <2>1
  <2> QED
    BY <2>2 DEF S1, S2, S3, S4, S5
<1> QED
  BY <1>1, <1>2, <1>3

\* POST: the functions that set a node up.
LEMMA PostNodesSound ==
  ASSUME UsersOK, NEW r, NEW o \in wtsl_core_post_nodes_functions(r)
  PROVE  Sound(o, r.url)
<1>1. CASE \E a : o = Outcome(a)
  BY <1>1, PlainSound, OutcomeFields
<1>2. CASE \E id, func, n : o \in Call(id, func, n)
  BY <1>2, CallSound
<1>3. (\E a : o = Outcome(a)) \/ (\E id, func, n : o \in Call(id, func, n))
  <2> DEFINE func == list_get(r.url, 4)
             way  == list_get(r.url, 5)
             C0 == Len(r.url) < 5 \/ ~find_wtsl_node_by_id(r.id)
             C1 == func \in DOMAIN PostRoutes
             C2 == func \in DOMAIN PostWays /\ Len(r.url) = 5
             C3 == WayOf(PostWays, func, way) # "NULL"
             C4 == Len(r.url) = 6 /\ way = "traffic" /\ func \notin DOMAIN PostRoutes
             S0 == {Outcome("error")}
             S1 == Call(r.id, PostRoutes[func], r.pieces)
             S2 == {Outcome("fault")}
             S3 == Call(r.id, WayOf(PostWays, func, way), r.pieces)
             S4 == Call(r.id, "get_node_traffic", r.pieces)
  <2>1. wtsl_core_post_nodes_functions(r) =
          IF C0 THEN S0
          ELSE CASE C1 -> S1 [] C2 -> S2 [] C3 -> S3 [] C4 -> S4 [] OTHER -> S0
    BY DEF wtsl_core_post_nodes_functions
  <2> HIDE DEF func, way, C0, C1, C2, C3, C4, S0, S1, S2, S3, S4
  <2>2. o \in S0 \/ o \in S1 \/ o \in S2 \/ o \in S3 \/ o \in S4
    BY <2>1
  <2> QED
    BY <2>2 DEF S0, S1, S2, S3, S4
<1> QED
  BY <1>1, <1>2, <1>3

\* The context of the users becomes that of the nodes, whatever the handler answers.
LEMMA TakenOver ==
  ASSUME UsersOK, NEW url, NEW a, Sound(a, url)
  PROVE  Sound([a EXCEPT !.api = managerCtx], url)
<1> DEFINE o == [a EXCEPT !.api = managerCtx]
<1>1. a = [answer |-> a.answer, users |-> a.users, manager |-> a.manager, api |-> a.api,
           run |-> a.run, login |-> a.login, unsaved |-> a.unsaved]
  BY DEF Sound, IsOutcome
<1>2. o = [answer |-> a.answer, users |-> a.users, manager |-> a.manager,
           api |-> managerCtx, run |-> a.run, login |-> a.login, unsaved |-> a.unsaved]
  BY <1>1
<1> HIDE DEF o
<1>3. /\ o.users = a.users /\ o.manager = a.manager /\ o.api = managerCtx
      /\ o.run = a.run /\ o.login = a.login /\ o.unsaved = a.unsaved
  BY <1>2
<1>4. IsOutcome(o)
  BY <1>2, <1>3 DEF IsOutcome
<1>5. Sound(o, url)
  BY <1>3, <1>4, Zenon DEF Sound
<1> QED
  BY <1>5 DEF o

\* POST: the functions of users.
LEMMA PostUsersSound ==
  ASSUME UsersOK, NEW r, r.body \in Body, Len(r.url) > 3,
         NEW o \in wtsl_core_post_users_functions(r)
  PROVE  Sound(o, r.url)
<1> DEFINE handled == wtsl_core_user_get_routeitem(r.url[4], r.body)
           outcomes == IF r.json THEN handled ELSE {Outcome("error")}
<1>1. PICK a \in outcomes : o = [a EXCEPT !.api = managerCtx]
  BY DEF wtsl_core_post_users_functions, wtsl_core_user_get_context
<1>2. a = Outcome("error") => Sound(a, r.url)
  BY PlainSound, OutcomeFields
<1>3. ASSUME a \in handled
      PROVE  Sound(a, r.url)
  <2> DEFINE f == r.url[4]
  <2>1. \/ f = "login" /\ a \in wtsl_core_user_login(r.body)
        \/ f = "register" /\ a \in wtsl_core_user_register(r.body)
        \/ f = "change_pwd" /\ a \in wtsl_core_user_change_pwd(r.body)
        \/ a \in Unimplemented
    BY <1>3 DEF wtsl_core_user_get_routeitem
  <2> QED
    BY <1>2, <2>1, LoginSound, RegisterSound, ChangeSound DEF Unimplemented
<1> HIDE DEF handled
<1>4. Sound(a, r.url)
  BY <1>1, <1>2, <1>3
<1> QED
  BY <1>1, <1>4, TakenOver

\* Whatever a request is for, what its answer leaves behind is sound.
LEMMA OutcomesSound ==
  ASSUME UsersOK, NEW r \in Requests, NEW size, NEW o \in Outcomes(r, size)
  PROVE  Sound(o, r.url)
<1>1. r.url \in Seq(STRING) /\ r.body \in Body
  BY SessionsAssumption DEF Body
<1> DEFINE q == [r EXCEPT !.pieces = size]
<1>2. q.url = r.url /\ q.body = r.body
  BY SessionsAssumption
<1> HIDE DEF q
<1>3. CASE o = Outcome("error") \/ o = Outcome("ok")
  BY <1>3, PlainSound, OutcomeFields
<1>4. CASE o \in http_get_cmd(r)
  BY <1>3, <1>4, GetNodesSound DEF http_get_cmd, wtcoreapi_parse_http_get_cmd
<1>5. CASE o \in wtsl_core_http_deal_post_data(r, size)
  <2>1. \/ o \in wtsl_core_post_nodes_functions(q)
        \/ Len(q.url) > 3 /\ o \in wtsl_core_post_users_functions(q)
        \/ o = Outcome("error")
    BY <1>5 DEF wtsl_core_http_deal_post_data, wtcoreapi_parse_http_post_cmd, q
  <2>2. CASE o \in wtsl_core_post_nodes_functions(q)
    BY <1>2, <2>2, PostNodesSound
  <2>3. CASE Len(q.url) > 3 /\ o \in wtsl_core_post_users_functions(q)
    BY <1>1, <1>2, <2>3, PostUsersSound
  <2> QED
    BY <1>3, <2>1, <2>2, <2>3
<1>6. \/ o \in handle_options_request \/ o \in http_get_cmd(r)
      \/ o \in wtsl_core_http_deal_post_data(r, size) \/ o = Outcome("error")
  BY DEF Outcomes
<1> QED
  BY <1>3, <1>4, <1>5, <1>6 DEF handle_options_request

-----------------------------------------------------------------------------
(***************************************************************************)
(* The inductive invariant                                                 *)
(***************************************************************************)
Silent == [phase |-> "silent"]
Open == [phase : {"open"}, request : Requests, size : Nat, complete : BOOLEAN]

ConnectionOK(s) ==
  s = Idle \/ s = Silent \/ (s \in Open /\ s.size <= s.request.pieces)

ConnectionsOK ==
  /\ connection = [c \in Connections |-> connection[c]]
  /\ \A c \in Connections : ConnectionOK(connection[c])

\* The connections on which a login may still succeed, and with them the bound.
AsksLogin(s) == s.phase = "open" /\ "login" \in Range(s.request.url)
LoggingIn == {c \in Connections : AsksLogin(connection[c])}
LoginsBounded == Cardinality(LoggingIn) + logins <= MaxLogins

\* A context without a login since the start has no permission.
PermissionsOK ==
  /\ earned \subseteq Levels
  /\ managerCtx.permission \in earned \cup {{}}
  /\ apiCtx.permission \in earned \cup {{}}

SessionInv ==
  /\ alive \in BOOLEAN /\ nodeRows \in 0 .. 2
  /\ ConnectionsOK /\ LoginsBounded
  /\ UsersOK /\ PermissionsOK /\ PermissionEarned

\* A start keeps the table, or adds the administrator of the factory.
LEMMA TablesKept ==
  ASSUME NEW table, TableOK(table), NEW t \in init_db(table)
  PROVE  TableOK(t)
<1>1. DOMAIN table = 1 .. Len(table)
  BY DEF TableOK
<1>2. "admin" \in Texts /\ "123456" \in Texts /\ 0 \in Groups
  BY DEF Texts, Groups
<1>3. CASE \A i \in 1 .. Len(table) : table[i].username # "admin"
  <2>1. t \in db_register(table, "admin", 0, "123456")
    BY <1>1, <1>3 DEF init_db, db_set_default_admin_info
  <2> QED
    BY <1>2, <1>3, <2>1, Registered
<1>4. CASE \E i \in 1 .. Len(table) : table[i].username = "admin"
  BY <1>1, <1>4 DEF init_db, db_set_default_admin_info
<1> QED
  BY <1>3, <1>4

LEMMA SessionInvInit == SessionInit => SessionInv
<1> SUFFICES ASSUME SessionInit PROVE SessionInv
  OBVIOUS
<1> USE DEF SessionInit
<1>1. ConnectionsOK /\ LoggingIn = {}
  BY DEF ConnectionsOK, ConnectionOK, LoggingIn, AsksLogin, Idle
<1>2. LoginsBounded
  BY <1>1, FS_EmptySet, SessionsAssumption DEF LoginsBounded
<1>5. TableOK(<<>>)
  BY DEF TableOK
<1>6. TableOK(userTable) /\ Len(userTable) \in Nat
  <2>1. TableOK(userTable)
    BY <1>5, TablesKept
  <2> QED
    BY <2>1 DEF TableOK
<1>7. NoContext \in Context /\ NoContext.id = 0 /\ NoContext.token = 0
        /\ NoContext.permission = {}
  BY DEF NoContext, Context, Groups
<1>8. UsersOK
  <2>1. managerCtx = NoContext /\ apiCtx = NoContext /\ logins = 0 /\ unsaved = FALSE
    OBVIOUS
  <2>2. unsaved \in BOOLEAN /\ managerCtx.id = 0
    BY <1>7, <2>1
  <2>3. Matches(userTable, managerCtx, unsaved)
    BY <1>6, <2>2, SMT DEF Matches
  <2> QED
    BY <1>6, <1>7, <2>1, <2>2, <2>3 DEF UsersOK, Issued
<1>9. PermissionsOK /\ PermissionEarned
  BY <1>7 DEF PermissionsOK, PermissionEarned
<1> QED
  BY <1>1, <1>2, <1>8, <1>9 DEF SessionInv

\* A connection becomes v.
LEMMA ConnectionBecomes ==
  ASSUME ConnectionsOK, NEW c \in Connections, NEW v, ConnectionOK(v),
         connection' = [connection EXCEPT ![c] = v]
  PROVE  /\ ConnectionsOK'
         /\ LoggingIn' = IF AsksLogin(v) THEN LoggingIn \cup {c} ELSE LoggingIn \ {c}
<1>1. connection' = [d \in Connections |-> IF d = c THEN v ELSE connection[d]]
  BY DEF ConnectionsOK
<1>2. /\ connection' = [d \in Connections |-> connection'[d]]
      /\ \A d \in Connections : connection'[d] = IF d = c THEN v ELSE connection[d]
  BY <1>1
<1>3. ConnectionsOK'
  BY <1>2 DEF ConnectionsOK, ConnectionOK, Open, Idle, Silent
<1>4. LoggingIn' = IF AsksLogin(v) THEN LoggingIn \cup {c} ELSE LoggingIn \ {c}
  BY <1>2 DEF LoggingIn, AsksLogin
<1> QED
  BY <1>3, <1>4

LEMMA LoggingInFinite == IsFiniteSet(LoggingIn) /\ Cardinality(LoggingIn) \in Nat
<1>1. IsFiniteSet(LoggingIn)
  BY SessionsAssumption, FS_Subset DEF LoggingIn
<1> QED
  BY <1>1, FS_CardinalityType

\* The fields of an open connection.
LEMMA OpenFields ==
  ASSUME NEW s, ConnectionOK(s), s.phase = "open"
  PROVE  s \in Open /\ s.request \in Requests /\ s.size \in Nat
           /\ s.size <= s.request.pieces /\ s.complete \in BOOLEAN
           /\ s.request.pieces \in Nat /\ s.request.length \in Nat
<1>1. s # Idle /\ s # Silent
  BY DEF Idle, Silent
<1>2. s \in Open /\ s.size <= s.request.pieces
  BY <1>1 DEF ConnectionOK
<1>3. s.request \in Requests /\ s.size \in Nat /\ s.complete \in BOOLEAN
  BY <1>2 DEF Open
<1> QED
  BY <1>2, <1>3, SessionsAssumption

\* A step that leaves users, contexts and the last function alone.
LEMMA UsersUntouched ==
  ASSUME SessionInv,
         UNCHANGED <<userTable, managerCtx, apiCtx, logins, unsaved, earned, executed>>
  PROVE  UsersOK' /\ PermissionsOK' /\ PermissionEarned'
BY DEF SessionInv, UsersOK, TableOK, Matches, Issued, PermissionsOK, PermissionEarned

LEMMA InitRequestKeeps ==
  ASSUME SessionInv, NEW c \in Connections, init_request_data(c)
  PROVE  SessionInv'
<1>1. PICK r \in Requests :
        /\ "login" \in Range(r.url) => LoginsLeft
        /\ connection' = [connection EXCEPT ![c] =
              [phase |-> "open", request |-> r, size |-> 0, complete |-> FALSE]]
  BY DEF init_request_data
<1> DEFINE v == [phase |-> "open", request |-> r, size |-> 0, complete |-> FALSE]
<1>2. ConnectionOK(v) /\ (AsksLogin(v) <=> "login" \in Range(r.url))
  BY SessionsAssumption DEF ConnectionOK, Open, AsksLogin
<1> HIDE DEF v
<1>3. /\ ConnectionsOK'
      /\ LoggingIn' = IF AsksLogin(v) THEN LoggingIn \cup {c} ELSE LoggingIn \ {c}
  BY <1>1, <1>2, ConnectionBecomes DEF SessionInv, v
<1>4. c \notin LoggingIn
  BY DEF init_request_data, LoggingIn, AsksLogin
<1>5. /\ IsFiniteSet(LoggingIn) /\ Cardinality(LoggingIn) \in Nat /\ logins \in Nat
      /\ MaxLogins \in Nat
  BY LoggingInFinite, SessionsAssumption DEF SessionInv, UsersOK
<1>6. LoginsBounded'
  <2>1. CASE AsksLogin(v)
    <3>1. Cardinality(LoggingIn) + logins < MaxLogins
      BY <1>1, <1>2, <2>1 DEF LoginsLeft, LoggingIn, AsksLogin
    <3>2. Cardinality(LoggingIn') = Cardinality(LoggingIn) + 1
      BY <1>3, <1>4, <1>5, <2>1, FS_AddElement
    <3> QED
      BY <1>5, <3>1, <3>2 DEF LoginsBounded, init_request_data
  <2>2. CASE ~AsksLogin(v)
    <3>1. LoggingIn' = LoggingIn
      BY <1>3, <1>4, <2>2
    <3> QED
      BY <3>1 DEF LoginsBounded, init_request_data, SessionInv
  <2> QED
    BY <2>1, <2>2
<1> QED
  BY <1>3, <1>6, UsersUntouched DEF SessionInv, init_request_data

\* A step that leaves an open connection with its request, or closes it.
LEMMA LoginsStayBounded ==
  ASSUME SessionInv, logins' = logins, LoggingIn' \subseteq LoggingIn
  PROVE  LoginsBounded'
<1>1. Cardinality(LoggingIn') <= Cardinality(LoggingIn) /\ Cardinality(LoggingIn') \in Nat
  BY LoggingInFinite, FS_Subset, FS_CardinalityType
<1> QED
  BY <1>1, LoggingInFinite, SessionsAssumption DEF LoginsBounded, SessionInv, UsersOK

LEMMA UploadKeeps ==
  ASSUME SessionInv, NEW c \in Connections, Upload(c)
  PROVE  SessionInv'
<1> DEFINE s == connection[c]
           v(n) == [s EXCEPT !.size = @ + n, !.complete = Complete(s.request.length, s.size + n)]
<1>1. /\ s \in Open /\ s.request \in Requests /\ s.size \in Nat /\ s.phase = "open"
      /\ s.size <= s.request.pieces /\ s.request.pieces \in Nat /\ s.request.length \in Nat
  BY OpenFields DEF Upload, SessionInv, ConnectionsOK
<1>2. PICK n \in 1 .. (s.request.pieces - s.size) :
        connection' = [connection EXCEPT
              ![c].size = @ + n,
              ![c].complete = Complete(connection[c].request.length,
                                       connection[c].size + n)]
  BY DEF Upload
<1>3. connection' = [connection EXCEPT ![c] = v(n)]
  BY <1>2 DEF SessionInv, ConnectionsOK
<1> HIDE DEF s
<1>4. /\ v(n) \in Open /\ v(n).size <= v(n).request.pieces
      /\ v(n).phase = s.phase /\ v(n).request = s.request
  <2> DEFINE ok == Complete(s.request.length, s.size + n)
             more == s.size + n
  <2>1. ok \in BOOLEAN
    BY DEF Complete
  <2>2. more \in Nat /\ more <= s.request.pieces
    BY <1>1
  <2>3. v(n) = [s EXCEPT !.size = more, !.complete = ok]
    BY <1>1
  <2> HIDE DEF ok, more, v
  <2> QED
    BY <1>1, <2>1, <2>2, <2>3 DEF Open
<1> HIDE DEF v
<1>5. ConnectionOK(v(n)) /\ (AsksLogin(v(n)) <=> AsksLogin(s))
  BY <1>4 DEF ConnectionOK, AsksLogin
<1>6. /\ ConnectionsOK'
      /\ LoggingIn' = IF AsksLogin(v(n)) THEN LoggingIn \cup {c} ELSE LoggingIn \ {c}
  BY <1>3, <1>5, ConnectionBecomes DEF SessionInv
<1>7. LoggingIn' \subseteq LoggingIn
  BY <1>5, <1>6 DEF LoggingIn, s
<1> QED
  BY <1>6, <1>7, UsersUntouched, LoginsStayBounded DEF SessionInv, Upload

\* A connection is free again.
LEMMA ClosedKeeps ==
  ASSUME SessionInv, NEW c \in Connections, NEW v \in {Idle, Silent},
         connection' = [connection EXCEPT ![c] = v]
  PROVE  ConnectionsOK' /\ LoggingIn' = LoggingIn \ {c}
<1>1. ConnectionOK(v) /\ ~AsksLogin(v)
  BY DEF ConnectionOK, AsksLogin, Idle, Silent
<1> QED
  BY <1>1, ConnectionBecomes DEF SessionInv

\* What an answer leaves behind keeps the users and their permissions.
LEMMA AnswerKeeps ==
  ASSUME SessionInv, NEW url, NEW o, Sound(o, url),
         userTable' = o.users, managerCtx' = o.manager, apiCtx' = o.api, executed' = o.run,
         logins' = IF o.login THEN logins + 1 ELSE logins, unsaved' = o.unsaved,
         earned' = IF o.login THEN earned \cup {o.manager.permission} ELSE earned
  PROVE  UsersOK' /\ PermissionsOK' /\ PermissionEarned'
<1>1. /\ TableOK(o.users) /\ Len(o.users) >= Len(userTable) /\ Matches(o.users, o.manager, o.unsaved)
      /\ o.api \in {apiCtx, managerCtx} /\ o.login \in BOOLEAN
      /\ o.unsaved \in BOOLEAN
  BY DEF Sound
<1>2. /\ o.login => Issued(o.manager, logins + 1) /\ o.manager.permission \in Levels
      /\ ~o.login => o.manager = managerCtx
  BY DEF Sound
<1>3. \/ o.run = executed
      \/ o.run.needs # {} /\ o.run.needs \subseteq apiCtx.permission
  BY DEF Sound
<1>4. /\ logins \in Nat /\ Issued(managerCtx, logins) /\ Issued(apiCtx, logins)
      /\ managerCtx.id \in 0 .. Len(userTable) /\ apiCtx.id \in 0 .. Len(userTable)
  BY DEF SessionInv, UsersOK, Matches
<1>5. Len(userTable) \in Nat /\ Len(o.users) \in Nat
  BY <1>1 DEF SessionInv, UsersOK, TableOK
<1>6. UsersOK'
  <2>1. logins' \in Nat /\ logins <= logins'
    BY <1>1, <1>4
  <2>2. managerCtx.token \in Nat /\ apiCtx.token \in Nat
    BY <1>4 DEF Issued, Context
  <2>3. Issued(managerCtx, logins') /\ Issued(apiCtx, logins')
    BY <1>4, <2>1, <2>2 DEF Issued
  <2>4. Issued(managerCtx', logins') /\ Issued(apiCtx', logins')
    BY <1>1, <1>2, <2>3
  <2>5. apiCtx'.id \in 0 .. Len(userTable')
    BY <1>1, <1>4, <1>5
  <2>6. TableOK(userTable') /\ Matches(userTable', managerCtx', unsaved') /\ unsaved' \in BOOLEAN
    BY <1>1
  <2> QED
    BY <2>1, <2>4, <2>5, <2>6 DEF UsersOK
<1>7. PermissionsOK'
  BY <1>1, <1>2 DEF SessionInv, PermissionsOK
<1>8. PermissionEarned'
  <2>1. earned \subseteq earned'
    BY <1>1
  <2>2. CASE o.run = executed
    BY <2>1, <2>2 DEF SessionInv, PermissionEarned
  <2>3. CASE o.run.needs # {} /\ o.run.needs \subseteq apiCtx.permission
    <3>1. apiCtx.permission \in earned
      BY <2>3 DEF SessionInv, PermissionsOK
    <3> QED
      BY <2>1, <2>3, <3>1 DEF PermissionEarned
  <2> QED
    BY <1>3, <2>2, <2>3
<1> QED
  BY <1>6, <1>7, <1>8

LEMMA FinishKeeps ==
  ASSUME SessionInv, NEW c \in Connections, Finish(c)
  PROVE  SessionInv'
<1> DEFINE r == connection[c].request
           n == connection[c].size
<1>1. connection[c].phase = "open" /\ nodeRows' = nodeRows /\ r \in Requests
  BY OpenFields DEF Finish, SessionInv, ConnectionsOK
<1>2. CASE /\ UNCHANGED <<alive, userTable, managerCtx, apiCtx, logins, unsaved, earned,
                           executed>>
           /\ \E v \in {Idle, Silent} : connection' = [connection EXCEPT ![c] = v]
  <2>1. ConnectionsOK' /\ LoggingIn' \subseteq LoggingIn
    BY <1>2, ClosedKeeps
  <2> QED
    BY <1>1, <1>2, <2>1, UsersUntouched, LoginsStayBounded DEF SessionInv
<1>3. CASE \E o \in Outcomes(r, n) :
             /\ userTable' = o.users /\ managerCtx' = o.manager /\ apiCtx' = o.api
             /\ executed' = o.run /\ unsaved' = o.unsaved
             /\ logins' = IF o.login THEN logins + 1 ELSE logins
             /\ earned' = IF o.login THEN earned \cup {o.manager.permission} ELSE earned
             /\ alive' = (o.answer # "fault")
             /\ connection' = [connection EXCEPT ![c] = Idle]
  <2> PICK o \in Outcomes(r, n) :
             /\ userTable' = o.users /\ managerCtx' = o.manager /\ apiCtx' = o.api
             /\ executed' = o.run /\ unsaved' = o.unsaved
             /\ logins' = IF o.login THEN logins + 1 ELSE logins
             /\ earned' = IF o.login THEN earned \cup {o.manager.permission} ELSE earned
             /\ alive' = (o.answer # "fault")
             /\ connection' = [connection EXCEPT ![c] = Idle]
    BY <1>3
  <2>1. Sound(o, r.url)
    BY <1>1, OutcomesSound DEF SessionInv
  <2>2. ConnectionsOK' /\ LoggingIn' = LoggingIn \ {c}
    BY ClosedKeeps
  <2>3. UsersOK' /\ PermissionsOK' /\ PermissionEarned'
    BY <2>1, AnswerKeeps
  <2>4. LoginsBounded'
    <3>1. CASE o.login
      <4>1. Len(r.url) > 3 /\ r.url[4] = "login" /\ r.url \in Seq(STRING)
        BY <1>1, <2>1, <3>1, SessionsAssumption DEF Sound
      <4>2. "login" \in Range(r.url)
        BY <4>1 DEF Range
      <4>3. c \in LoggingIn
        BY <1>1, <4>2 DEF LoggingIn, AsksLogin
      <4>4. Cardinality(LoggingIn') = Cardinality(LoggingIn) - 1
        BY <2>2, <4>3, LoggingInFinite, FS_RemoveElement
      <4> QED
        BY <3>1, <4>4, LoggingInFinite, SessionsAssumption
        DEF LoginsBounded, SessionInv, UsersOK
    <3>2. CASE ~o.login
      BY <2>2, <3>2, LoginsStayBounded
    <3> QED
      BY <3>1, <3>2
  <2> QED
    BY <1>1, <2>2, <2>3, <2>4 DEF SessionInv
<1>4. QED
  BY <1>2, <1>3 DEF Finish, Silent

LEMMA StartAgainKeeps ==
  ASSUME SessionInv, StartAgain
  PROVE  SessionInv'
<1> USE DEF StartAgain
<1>1. ConnectionsOK' /\ LoggingIn' = {}
  BY DEF ConnectionsOK, ConnectionOK, LoggingIn, AsksLogin, Idle
<1>2. LoginsBounded'
  BY <1>1, FS_EmptySet, LoggingInFinite, SessionsAssumption
  DEF LoginsBounded, SessionInv, UsersOK
<1>3. TableOK(userTable') /\ Len(userTable') \in Nat
  <2>1. TableOK(userTable')
    BY TablesKept DEF SessionInv, UsersOK
  <2> QED
    BY <2>1 DEF TableOK
<1>4. NoContext \in Context /\ NoContext.id = 0 /\ NoContext.token = 0
        /\ NoContext.permission = {}
  BY DEF NoContext, Context, Groups
<1>5. UsersOK'
  BY <1>3, <1>4 DEF SessionInv, UsersOK, Matches, Issued
<1>6. PermissionsOK' /\ PermissionEarned'
  BY <1>4 DEF PermissionsOK, PermissionEarned
<1> QED
  BY <1>1, <1>2, <1>5, <1>6 DEF SessionInv

LEMMA SessionInvNext == SessionInv /\ [SessionNext]_sessionVars => SessionInv'
<1> SUFFICES ASSUME SessionInv, [SessionNext]_sessionVars PROVE SessionInv'
  OBVIOUS
<1>1. ASSUME NEW c \in Connections, request_handler(c) PROVE SessionInv'
  BY <1>1, InitRequestKeeps, UploadKeeps, FinishKeeps DEF request_handler
<1>2. ASSUME NEW c \in Connections, GivesUp(c) PROVE SessionInv'
  <2>1. ConnectionsOK' /\ LoggingIn' \subseteq LoggingIn
    BY <1>2, ClosedKeeps DEF GivesUp
  <2> QED
    BY <1>2, <2>1, UsersUntouched, LoginsStayBounded DEF SessionInv, GivesUp
<1>3. ASSUME connection' = connection, logins' = logins,
             UNCHANGED <<alive, userTable, managerCtx, apiCtx, unsaved, earned, executed>>,
             nodeRows' \in 0 .. 2
      PROVE  SessionInv'
  <2>1. ConnectionsOK' /\ LoginsBounded'
    BY <1>3 DEF SessionInv, ConnectionsOK, LoginsBounded, LoggingIn
  <2> QED
    BY <1>3, <2>1, UsersUntouched DEF SessionInv
<1>4. CASE NodeListed
  BY <1>3, <1>4 DEF NodeListed, SessionInv
<1>5. CASE UNCHANGED sessionVars
  BY <1>3, <1>5 DEF sessionVars, SessionInv
<1> QED
  BY <1>1, <1>2, <1>4, <1>5, StartAgainKeeps DEF SessionNext

\* The invariant holds of every state of the web server.
LEMMA SessionInvHolds == SessionSpec => []SessionInv
BY SessionInvInit, SessionInvNext, PTL DEF SessionSpec

-----------------------------------------------------------------------------
(***************************************************************************)
(* The theorems                                                            *)
(***************************************************************************)
\* Type correctness of the web server: what arrives of a body is never more than its
\* client sends (request_handler's con_cls), and the two contexts g_user_ctx hold a
\* user of the table, a token that a login issued and the permission of a group.
THEOREM SessionTypeCorrect == SessionSpec => []SessionTypeOK
<1>1. SessionInv => SessionTypeOK
  <2> SUFFICES ASSUME SessionInv PROVE SessionTypeOK
    OBVIOUS
  <2>1. ASSUME NEW c \in Connections
        PROVE  \/ connection[c].phase \in {"idle", "silent"}
               \/ /\ connection[c].phase = "open" /\ connection[c].request \in Requests
                  /\ connection[c].size \in 0 .. connection[c].request.pieces
                  /\ connection[c].complete \in BOOLEAN
    <3> DEFINE s == connection[c]
    <3>1. ConnectionOK(s)
      BY DEF SessionInv, ConnectionsOK
    <3> HIDE DEF s
    <3>2. s.phase \in {"idle", "silent", "open"}
      BY <3>1 DEF ConnectionOK, Idle, Silent, Open
    <3>3. CASE s.phase = "open"
      BY <3>1, <3>3, OpenFields DEF s
    <3> QED
      BY <3>2, <3>3 DEF s
  <2>2. /\ unsaved \in BOOLEAN /\ logins \in Nat
        /\ managerCtx.id \in 0 .. Len(userTable) /\ apiCtx.id \in 0 .. Len(userTable)
        /\ managerCtx.token \in 0 .. logins /\ apiCtx.token \in 0 .. logins
    BY DEF SessionInv, UsersOK, TableOK, Matches, Issued, Context
  <2>3. /\ managerCtx.permission \in {{}, PERMISSION_READ, PERMISSION_ADMIN}
        /\ apiCtx.permission \in {{}, PERMISSION_READ, PERMISSION_ADMIN}
        /\ earned \subseteq {PERMISSION_READ, PERMISSION_ADMIN}
    BY DEF SessionInv, PermissionsOK, Levels
  <2>4. logins \in 0 .. MaxLogins
    BY <2>2, LoggingInFinite, SessionsAssumption DEF SessionInv, LoginsBounded
  <2> QED
    BY <2>1, <2>2, <2>3, <2>4 DEF SessionTypeOK, SessionInv
<1> QED
  BY <1>1, SessionInvHolds, PTL

\* A function of a node runs only where a login since the start of the program granted
\* all it needs (interface_wrapper), although wtsl_core_post_users_functions copies the
\* context that is checked from whichever connection last asked about users.
THEOREM FunctionsNeedLogin == SessionSpec => []PermissionEarned
<1>1. SessionInv => PermissionEarned
  BY DEF SessionInv
<1> QED
  BY <1>1, SessionInvHolds, PTL

\* The table of users stays consistent with the context of the last login, for any
\* registrations, logins and changes of password (wtsl_core_db.c), although nothing in
\* the table makes a name unique, and whichever INSERTs and UPDATEs fail: only the
\* token of a login whose own UPDATE failed is not in the table.
THEOREM UsersStayConsistent == SessionSpec => []UsersConsistent
<1>1. SessionInv => UsersConsistent
  <2> SUFFICES ASSUME SessionInv PROVE UsersConsistent
    OBVIOUS
  <2>1. TableOK(userTable) /\ Matches(userTable, managerCtx, unsaved)
    BY DEF SessionInv, UsersOK
  <2>2. DOMAIN userTable = 1 .. Len(userTable)
    BY <2>1 DEF TableOK
  <2> QED
    BY <2>1, <2>2 DEF UsersConsistent, TableOK, Matches
<1> QED
  BY <1>1, SessionInvHolds, PTL
=============================================================================
