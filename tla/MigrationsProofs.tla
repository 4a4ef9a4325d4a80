-------------------------- MODULE MigrationsProofs --------------------------
(***************************************************************************)
(* What the migrations do, for every set of pods and users, every version  *)
(* the database may start with and every number of crashes.  Three parts:  *)
(* what a file does to the tables is the same whatever users are in them   *)
(* (Agree), so the tables can be followed on an empty database, version by *)
(* version (Shape); no file that succeeds changes who has an address       *)
(* (Sound); and a runner commits whole files, in order (RunInv).           *)
(***************************************************************************)
EXTENDS Migrations, WellFoundedInduction, TLAPS

\* A record with the fields of a database.
IsDb(d) ==
    /\ d = [cols |-> d.cols, rows |-> d.rows, eth |-> d.eth, ethType |-> d.ethType,
            objs |-> d.objs, ok |-> d.ok]
    /\ d.ok \in BOOLEAN

\* The same tables, unless one of the transactions has failed.
Agree(d, e) ==
    /\ IsDb(d) /\ IsDb(e)
    /\ d.ok /\ e.ok => d.cols = e.cols /\ d.objs = e.objs /\ d.ethType = e.ethType

\* ALTER TABLE users ADD COLUMN keeps two databases with the same tables so.
LEMMA AgreeAddColumn ==
    ASSUME NEW d, NEW e, NEW c, NEW t, Agree(d, e)
    PROVE  Agree(AddColumn(d, c, t), AddColumn(e, c, t))
  BY DEF Agree, IsDb, Stmt, AddColumn, Has, Put

\* DROP COLUMN keeps two databases with the same tables so.
LEMMA AgreeDropColumn ==
    ASSUME NEW d, NEW e, NEW c, Agree(d, e)
    PROVE  Agree(DropColumn(d, c), DropColumn(e, c))
  BY DEF Agree, IsDb, Stmt, DropColumn, Has, Restrict

\* ALTER COLUMN TYPE keeps two databases with the same tables so.
LEMMA AgreeAlterType ==
    ASSUME NEW d, NEW e, NEW c, NEW t, Agree(d, e)
    PROVE  Agree(AlterType(d, c, t), AlterType(e, c, t))
  BY DEF Agree, IsDb, Stmt, AlterType, Has

\* An UPDATE of the rows leaves the tables alone, whatever values it sets.
LEMMA AgreeUpdate ==
    ASSUME NEW d, NEW e, NEW c, NEW v, NEW w, Agree(d, e)
    PROVE  Agree(Update(d, c, v), Update(e, c, w))
  BY DEF Agree, IsDb, Stmt, Update, Has

\* SET NOT NULL fails where a row has no value, or does the same to both tables.
LEMMA AgreeSetNotNull ==
    ASSUME NEW d, NEW e, NEW c, Agree(d, e)
    PROVE  Agree(SetNotNull(d, c), SetNotNull(e, c))
  BY DEF Agree, IsDb, Stmt, SetNotNull, Has

\* CREATE keeps two databases with the same tables so.
LEMMA AgreeAddObj ==
    ASSUME NEW d, NEW e, NEW o, Agree(d, e)
    PROVE  Agree(AddObj(d, o), AddObj(e, o))
  BY DEF Agree, IsDb, Stmt, AddObj

\* DROP keeps two databases with the same tables so.
LEMMA AgreeDropObj ==
    ASSUME NEW d, NEW e, NEW o, Agree(d, e)
    PROVE  Agree(DropObj(d, o), DropObj(e, o))
  BY DEF Agree, IsDb, Stmt, DropObj

\* A constraint or index on a column keeps two databases with the same tables so.
LEMMA AgreeAddOn ==
    ASSUME NEW d, NEW e, NEW c, NEW o, Agree(d, e)
    PROVE  Agree(AddOn(d, c, o), AddOn(e, c, o))
  BY DEF Agree, IsDb, Stmt, AddOn, Has, AddObj

\* Dropping a column with what depends on it keeps the tables the same.
LEMMA AgreeDropWith ==
    ASSUME NEW d, NEW e, NEW c, NEW os, Agree(d, e)
    PROVE  Agree(DropWith(d, c, os), DropWith(e, c, os))
<1>1. Agree(DropColumn(d, c), DropColumn(e, c))
  BY AgreeDropColumn
<1> QED
  BY <1>1 DEF Agree, IsDb, DropWith

\* The columns that are added, filled and made NOT NULL are the same in both.
LEMMA AgreeFill ==
    ASSUME NEW d, NEW e, NEW c, NEW t, NEW v, NEW w, Agree(d, e)
    PROVE  /\ Agree(AddNotNull(d, c, t), AddNotNull(e, c, t))
           /\ Agree(AddByAddress(d, c, t, v, w), AddByAddress(e, c, t, v, w))
  BY AgreeAddColumn, AgreeUpdate, AgreeSetNotNull DEF AddNotNull, AddByAddress, Fill

\* A database with another copy of the addresses is a database.
LEMMA TwoFields ==
    ASSUME NEW d, NEW x, NEW y, IsDb(d)
    PROVE  IsDb([d EXCEPT !.eth = x, !.ethType = y])
<1> DEFINE e == [d EXCEPT !.eth = x]
<1>1. IsDb(e)
  BY DEF IsDb
<1>2. [d EXCEPT !.eth = x, !.ethType = y] = [e EXCEPT !.ethType = y]
  BY DEF IsDb
<1> HIDE DEF e
<1>3. IsDb([e EXCEPT !.ethType = y])
  BY <1>1 DEF IsDb
<1> QED
  BY <1>2, <1>3

\* DROP TABLE users_eth keeps two databases with the same tables so.
LEMMA AgreeDropCopy ==
    ASSUME NEW d, NEW e, Agree(d, e)
    PROVE  Agree(DropCopy(d), DropCopy(e))
<1>1. ASSUME NEW x, NEW y, NEW f, NEW g, Agree(x, y)
      PROVE  Agree([x EXCEPT !.eth = f, !.ethType = g], [y EXCEPT !.eth = f, !.ethType = g])
  <2> DEFINE D(z) == [z EXCEPT !.eth = f, !.ethType = g]
  <2>1. IsDb(x) /\ IsDb(y)
    BY <1>1 DEF Agree
  <2>2. \A z \in {x, y} : /\ IsDb(D(z)) /\ D(z).cols = z.cols /\ D(z).objs = z.objs
                          /\ D(z).ethType = g /\ (D(z).ok => z.ok)
    <3>1. IsDb(D(x)) /\ IsDb(D(y))
      BY <2>1, TwoFields
    <3> QED
      BY <2>1, <3>1 DEF IsDb
  <2> HIDE DEF D
  <2>3. Agree(D(x), D(y))
    BY <1>1, <2>2 DEF Agree
  <2> QED
    BY <2>3 DEF D
<1> QED
  BY <1>1, AgreeDropObj DEF DropCopy

\* A file does the same to the tables whatever users are in them, if it does not fail.
LEMMA AgreeUp ==
    ASSUME NEW d, NEW e, NEW v \in 1 .. Last, Agree(d, e)
    PROVE  Agree(Up(v, d), Up(v, e))
<1>1. Agree(create_schema(d), create_schema(e))
  BY DEF create_schema
<1>2. Agree(create_user_table(d), create_user_table(e))
  BY DEF Agree, IsDb, Stmt, create_user_table
<1>3. Agree(add_country_code(d), add_country_code(e))
  BY AgreeAddColumn DEF add_country_code
<1>4. Agree(add_ethereum_address(d), add_ethereum_address(e))
  BY AgreeAddColumn DEF add_ethereum_address
<1>5. Agree(add_referral_code(d), add_referral_code(e))
  BY AgreeFill DEF add_referral_code
<1>6. Agree(rename_email_confirmation_sent(d), rename_email_confirmation_sent(e))
  <2> DEFINE old == "email_confirmation_sent"
  <2>1. Agree(Stmt(d, Has(d, old), d), Stmt(e, Has(e, old), e))
    BY DEF Agree, IsDb, Stmt
  <2> QED
    BY <2>1, AgreeAddColumn, AgreeDropColumn DEF rename_email_confirmation_sent
<1>7. Agree(trim_referral_codes(d), trim_referral_codes(e))
  BY AgreeAlterType DEF trim_referral_codes
<1>8. Agree(add_tos_agreement_timestamp(d), add_tos_agreement_timestamp(e))
  BY AgreeAddColumn, AgreeUpdate DEF add_tos_agreement_timestamp
<1>9. Agree(make_referral_unique(d), make_referral_unique(e))
  BY DEF Agree, IsDb, Stmt, make_referral_unique, AddOn, Has, AddObj
<1>10. Agree(add_referrer_id(d), add_referrer_id(e))
  BY AgreeAddColumn, AgreeAddOn DEF add_referrer_id
<1>11. Agree(referral_table(d), referral_table(e))
  BY AgreeAddObj DEF referral_table
<1>12. Agree(user_auth_provider_id(d), user_auth_provider_id(e))
  BY AgreeFill DEF user_auth_provider_id
<1>13. Agree(wallet_confirmation(d), wallet_confirmation(e))
  BY AgreeAddColumn, AgreeFill DEF wallet_confirmation
<1>14. Agree(null_deleted_referrer(d), null_deleted_referrer(e))
  BY AgreeDropObj, AgreeAddOn DEF null_deleted_referrer
<1>15. Agree(add_in_app_wallet_flag(d), add_in_app_wallet_flag(e))
  BY AgreeFill DEF add_in_app_wallet_flag
<1>16. Agree(remove_old_referral_relations(d), remove_old_referral_relations(e))
  BY AgreeDropObj, AgreeDropWith DEF remove_old_referral_relations
<1>17. Agree(create_referral_code(d), create_referral_code(e))
  BY AgreeAddColumn, AgreeAddOn DEF create_referral_code
<1>18. Agree(alter_referral_code(d), alter_referral_code(e))
  BY AgreeAlterType DEF alter_referral_code
<1>19. Agree(referral_date(d), referral_date(e))
  BY AgreeAddColumn, AgreeDropColumn, AgreeAddOn DEF referral_date
<1>20. Agree(make_eth_addr_byte_arr(d), make_eth_addr_byte_arr(e))
  <2>1. Agree(copy_eth_addr(d), copy_eth_addr(e))
    BY DEF Agree, IsDb, Stmt, copy_eth_addr, Has
  <2>2. ASSUME NEW x, NEW y, Agree(x, y) PROVE Agree(null_eth_addr(x), null_eth_addr(y))
    BY <2>2, AgreeAlterType, AgreeUpdate DEF null_eth_addr
  <2>3. ASSUME NEW x, NEW y, Agree(x, y) PROVE Agree(decode_eth_addr(x), decode_eth_addr(y))
    <3> DEFINE U(z) == Update(z, "ethereum_address", Decoded(z))
               S(z) == Stmt(z, z.ethType # "BYTEA", U(z))
    <3>1. Agree(U(x), U(y))
      BY <2>3, AgreeUpdate
    <3>2. Agree(S(x), S(y))
      <4> HIDE DEF U
      <4> QED BY <2>3, <3>1 DEF Agree, IsDb, Stmt
    <3> QED
      BY <3>2, AgreeDropCopy DEF decode_eth_addr
  <2> QED
    BY <2>1, <2>2, <2>3 DEF make_eth_addr_byte_arr
<1>21. Agree(add_addr_index(d), add_addr_index(e))
  BY AgreeAddOn DEF add_addr_index
<1>22. Agree(add_migrated_at(d), add_migrated_at(e))
  BY AgreeAddColumn DEF add_migrated_at
<1> QED
  BY <1>1, <1>2, <1>3, <1>4, <1>5, <1>6, <1>7, <1>8, <1>9, <1>10, <1>11, <1>12, <1>13,
     <1>14, <1>15, <1>16, <1>17, <1>18, <1>19, <1>20, <1>21, <1>22 DEF Up, Last
-----------------------------------------------------------------------------
(* The schemas.                                                            *)

\* A column that models.User can bind.
Fit(c, k) == k.type \in ModelColumns[c].types /\ k.null = ModelColumns[c].null

\* A database without users, with the constraints, indexes and tables O.
Bare(d, O) == IsDb(d) /\ d.ok /\ DOMAIN d.rows = {} /\ d.objs = O

\* The description of a column.
IsColumn(k) == k = [type |-> k.type, null |-> k.null]

\* A database without users, with the columns D and the other objects O, in which
\* the columns that are not in T are those of models.User.
Shape(d, D, O, T) ==
    /\ Bare(d, O) /\ DOMAIN d.cols = D /\ d.cols = [c \in D |-> d.cols[c]]
    /\ \A c \in D : /\ IsColumn(d.cols[c])
                    /\ c \notin T => Fit(c, d.cols[c])
                    /\ c = "ethereum_address" =>
                           d.cols[c].null = TRUE /\ (c \in T => d.cols[c].type # "BYTEA")

\* What ALTER COLUMN makes of the description of a column.
LEMMA ColumnExcept ==
    ASSUME NEW k, IsColumn(k), NEW x
    PROVE  /\ [k EXCEPT !.type = x] = [type |-> x, null |-> k.null]
           /\ [k EXCEPT !.null = x] = [type |-> k.type, null |-> x]
  BY DEF IsColumn

\* A column that is added, or replaced by one that models.User can bind.
LEMMA ShapePut ==
    ASSUME NEW d, NEW e, NEW D, NEW O, NEW T, NEW c, Shape(d, D, O, T \cup {c}),
           NEW k, IsColumn(k), c \notin T => Fit(c, k),
           c = "ethereum_address" => k.null = TRUE /\ (c \in T => k.type # "BYTEA"),
           Bare(e, O), e.cols = Put(d.cols, c, k)
    PROVE  Shape(e, D \cup {c}, O, T)
<1>2. /\ DOMAIN e.cols = D \cup {c} /\ e.cols = [x \in D \cup {c} |-> e.cols[x]]
      /\ e.cols[c] = k /\ \A x \in D \ {c} : e.cols[x] = d.cols[x]
  BY DEF Shape, Put
<1>3. ASSUME NEW x \in D \cup {c}
      PROVE  /\ IsColumn(e.cols[x])
             /\ x \notin T => Fit(x, e.cols[x])
             /\ x = "ethereum_address" =>
                    e.cols[x].null = TRUE /\ (x \in T => e.cols[x].type # "BYTEA")
  <2>1. CASE x = c
    BY <1>2, <2>1, Zenon
  <2>2. CASE x # c
    <3>1. x \in D /\ e.cols[x] = d.cols[x]
      BY <1>2, <2>2
    <3> QED
      BY <2>2, <3>1, Zenon DEF Shape
  <2> QED
    BY <2>1, <2>2
<1> QED
  BY <1>2, <1>3 DEF Shape

\* ADD COLUMN on a table without users.
LEMMA ShapeAdd ==
    ASSUME NEW d, NEW D, NEW O, NEW T, NEW c, Shape(d, D, O, T), c \notin D, NEW t,
           c \notin T => Fit(c, [type |-> t, null |-> TRUE]),
           c = "ethereum_address" => c \in T /\ t # "BYTEA"
    PROVE  Shape(AddColumn(d, c, t), D \cup {c}, O, T)
<1> DEFINE e == AddColumn(d, c, t)
<1>1. /\ Bare(e, O)
      /\ e.cols = Put(d.cols, c, [type |-> t, null |-> TRUE])
  BY DEF Shape, Bare, IsDb, AddColumn, Stmt, Has
<1>2. Shape(d, D, O, T \cup {c})
  BY DEF Shape
<1> DEFINE k == [type |-> t, null |-> TRUE]
<1>3. IsColumn(k) /\ k.null = TRUE /\ k.type = t
  BY DEF IsColumn
<1> HIDE DEF e, k
<1>4. e.cols = Put(d.cols, c, k) /\ (c \notin T => Fit(c, k))
  BY <1>1 DEF k
<1>5. Shape(e, D \cup {c}, O, T)
  BY <1>1, <1>2, <1>3, <1>4, ShapePut
<1> QED
  BY <1>5 DEF e

\* The column that ADD COLUMN adds has the type asked for and may be NULL.
LEMMA AddedColumn ==
    ASSUME NEW d, NEW D, NEW O, NEW T, NEW c, Shape(d, D, O, T), c \notin D, NEW t
    PROVE  AddColumn(d, c, t).cols[c] = [type |-> t, null |-> TRUE]
  BY DEF Shape, Bare, IsDb, AddColumn, Stmt, Has, Put

\* An UPDATE of a table without users changes nothing.
LEMMA ShapeUpdate ==
    ASSUME NEW d, NEW D, NEW O, NEW T, Shape(d, D, O, T), NEW c \in D, NEW v
    PROVE  Shape(Update(d, c, v), D, O, T) /\ Update(d, c, v).cols = d.cols
<1> DEFINE e == Update(d, c, v)
<1>1. /\ Bare(e, O)
      /\ e.cols = d.cols
  BY DEF Shape, Bare, IsDb, Update, Stmt, Has
<1> QED
  BY <1>1 DEF Shape

\* DROP COLUMN on a table without users.
LEMMA ShapeDrop ==
    ASSUME NEW d, NEW D, NEW O, NEW T, Shape(d, D, O, T), NEW c \in D
    PROVE  Shape(DropColumn(d, c), D \ {c}, O, T)
<1> DEFINE e == DropColumn(d, c)
<1>1. /\ Bare(e, O)
      /\ e.cols = Restrict(d.cols, D \ {c})
  BY DEF Shape, Bare, IsDb, DropColumn, Stmt, Has
<1> QED
  BY <1>1 DEF Shape, Restrict

\* ALTER COLUMN TYPE on a table without users.
LEMMA ShapeAlter ==
    ASSUME NEW d, NEW D, NEW O, NEW T, NEW c \in D, Shape(d, D, O, T \cup {c}), NEW t,
           c \notin T => Fit(c, [type |-> t, null |-> d.cols[c].null]),
           c = "ethereum_address" => c \notin T
    PROVE  Shape(AlterType(d, c, t), D, O, T)
<1> DEFINE e == AlterType(d, c, t)
<1>1. /\ Bare(e, O)
      /\ e.cols = [d.cols EXCEPT ![c].type = t]
  BY DEF Shape, Bare, IsDb, AlterType, Stmt, Has
<1> DEFINE k == [type |-> t, null |-> d.cols[c].null]
<1>2. [d.cols[c] EXCEPT !.type = t] = k
  <2>1. IsColumn(d.cols[c])
    BY DEF Shape
  <2> QED
    BY <2>1, ColumnExcept
<1>3. e.cols = Put(d.cols, c, k)
  <2> HIDE DEF e, k
  <2> QED
    BY <1>1, <1>2 DEF Shape, Put
<1>4. IsColumn(k) /\ k.null = d.cols[c].null
  BY DEF IsColumn
<1>5. c = "ethereum_address" => d.cols[c].null = TRUE
  BY DEF Shape
<1>6. D \cup {c} = D /\ (c \notin T => Fit(c, k))
  OBVIOUS
<1> HIDE DEF e, k
<1>7. Shape(e, D \cup {c}, O, T)
  BY <1>1, <1>3, <1>4, <1>5, <1>6, ShapePut
<1> QED
  BY <1>6, <1>7 DEF e

\* ALTER COLUMN TYPE changes the type of that column only.
LEMMA AlteredColumn ==
    ASSUME NEW d, NEW D, NEW O, NEW T, NEW c \in D, Shape(d, D, O, T), NEW t, NEW x \in D
    PROVE  AlterType(d, c, t).cols[x].type = IF x = c THEN t ELSE d.cols[x].type
<1>1. AlterType(d, c, t).cols = [d.cols EXCEPT ![c].type = t]
  BY DEF Shape, Bare, IsDb, AlterType, Stmt, Has
<1>2. [d.cols[c] EXCEPT !.type = t].type = t
  BY DEF Shape, IsColumn
<1> QED
  BY <1>1, <1>2 DEF Shape

\* SET NOT NULL on a table without users.
LEMMA ShapeNotNull ==
    ASSUME NEW d, NEW D, NEW O, NEW T, NEW c \in D, Shape(d, D, O, T \cup {c}),
           c \notin T => Fit(c, [type |-> d.cols[c].type, null |-> FALSE]),
           c # "ethereum_address"
    PROVE  Shape(SetNotNull(d, c), D, O, T)
<1> DEFINE e == SetNotNull(d, c)
<1>1. /\ Bare(e, O)
      /\ e.cols = [d.cols EXCEPT ![c].null = FALSE]
  BY DEF Shape, Bare, IsDb, SetNotNull, Stmt, Has
<1> DEFINE k == [type |-> d.cols[c].type, null |-> FALSE]
<1>2. [d.cols[c] EXCEPT !.null = FALSE] = k
  <2>1. IsColumn(d.cols[c])
    BY DEF Shape
  <2> QED
    BY <2>1, ColumnExcept
<1>3. e.cols = Put(d.cols, c, k)
  <2>1. e.cols = [d.cols EXCEPT ![c] = k]
    BY <1>1, <1>2
  <2> HIDE DEF e, k
  <2> QED
    BY <2>1 DEF Shape, Put
<1>4. IsColumn(k)
  BY DEF IsColumn
<1>5. D \cup {c} = D /\ (c \notin T => Fit(c, k))
  OBVIOUS
<1> HIDE DEF e, k
<1>6. Shape(e, D \cup {c}, O, T)
  BY <1>1, <1>3, <1>4, <1>5, ShapePut
<1> QED
  BY <1>5, <1>6 DEF e

\* A column that is added, filled and made NOT NULL on a table without users.
LEMMA ShapeAddFilled ==
    ASSUME NEW d, NEW D, NEW O, NEW T, NEW c, Shape(d, D, O, T), c \notin D, NEW t,
           c # "ethereum_address", NEW v, NEW w,
           c \notin T => Fit(c, [type |-> t, null |-> FALSE])
    PROVE  /\ Shape(AddNotNull(d, c, t), D \cup {c}, O, T)
           /\ Shape(AddByAddress(d, c, t, v, w), D \cup {c}, O, T)
<1> DEFINE e == AddColumn(d, c, t)
<1>1. Shape(d, D, O, T \cup {c})
  BY DEF Shape
<1>2. Shape(e, D \cup {c}, O, T \cup {c}) /\ e.cols[c] = [type |-> t, null |-> TRUE]
  BY <1>1, ShapeAdd, AddedColumn
<1> HIDE DEF e
<1>3. ASSUME NEW f, NEW u, f.cols = e.cols, Shape(f, D \cup {c}, O, T \cup {c})
      PROVE  /\ Update(f, c, u).cols = e.cols
             /\ Shape(Update(f, c, u), D \cup {c}, O, T \cup {c})
  BY <1>3, ShapeUpdate
<1>4. ASSUME NEW f, f.cols = e.cols, Shape(f, D \cup {c}, O, T \cup {c})
      PROVE  Shape(SetNotNull(f, c), D \cup {c}, O, T)
  BY <1>2, <1>4, ShapeNotNull
<1> QED
  BY <1>2, <1>3, <1>4 DEF AddNotNull, AddByAddress, Fill, e

\* The first half of ShapeAddFilled, for a column with one value.
LEMMA ShapeAddNotNull ==
    ASSUME NEW d, NEW D, NEW O, NEW T, NEW c, Shape(d, D, O, T), c \notin D, NEW t,
           c # "ethereum_address", c \notin T => Fit(c, [type |-> t, null |-> FALSE])
    PROVE  Shape(AddNotNull(d, c, t), D \cup {c}, O, T)
  BY ShapeAddFilled

\* The second half of ShapeAddFilled, for a column filled by two UPDATEs.
LEMMA ShapeAddByAddress ==
    ASSUME NEW d, NEW D, NEW O, NEW T, NEW c, Shape(d, D, O, T), c \notin D, NEW t,
           c # "ethereum_address", c \notin T => Fit(c, [type |-> t, null |-> FALSE]),
           NEW v, NEW w
    PROVE  Shape(AddByAddress(d, c, t, v, w), D \cup {c}, O, T)
  BY ShapeAddFilled

\* A statement that leaves the columns and the rows alone.
LEMMA ShapeObjs ==
    ASSUME NEW d, NEW D, NEW O, NEW T, Shape(d, D, O, T),
           NEW e, IsDb(e), e.ok, e.cols = d.cols, e.rows = d.rows
    PROVE  Shape(e, D, e.objs, T)
  BY Zenon DEF Shape, Bare

\* CREATE of what is not there yet.
LEMMA ShapeAddObj ==
    ASSUME NEW d, NEW D, NEW O, NEW T, Shape(d, D, O, T), NEW o, o \notin O
    PROVE  Shape(AddObj(d, o), D, O \cup {o}, T)
<1> DEFINE e == AddObj(d, o)
<1>1. IsDb(e) /\ e.ok /\ e.cols = d.cols /\ e.rows = d.rows /\ e.objs = O \cup {o}
  BY DEF Shape, Bare, IsDb, Stmt, AddObj
<1> HIDE DEF e
<1>2. Shape(e, D, e.objs, T)
  BY <1>1, ShapeObjs
<1> QED
  BY <1>1, <1>2 DEF e

\* A new constraint or index on a column that is there.
LEMMA ShapeAddOn ==
    ASSUME NEW d, NEW D, NEW O, NEW T, Shape(d, D, O, T), NEW o, o \notin O, NEW c \in D
    PROVE  Shape(AddOn(d, c, o), D, O \cup {o}, T)
<1>1. AddOn(d, c, o) = AddObj(d, o)
  BY DEF Shape, Bare, Stmt, AddOn, Has
<1> QED
  BY <1>1, ShapeAddObj

\* DROP of what is there.
LEMMA ShapeDropObj ==
    ASSUME NEW d, NEW D, NEW O, NEW T, Shape(d, D, O, T), NEW o \in O
    PROVE  Shape(DropObj(d, o), D, O \ {o}, T)
<1> DEFINE e == DropObj(d, o)
<1>1. IsDb(e) /\ e.ok /\ e.cols = d.cols /\ e.rows = d.rows /\ e.objs = O \ {o}
  BY DEF Shape, Bare, IsDb, Stmt, DropObj
<1> HIDE DEF e
<1>2. Shape(e, D, e.objs, T)
  BY <1>1, ShapeObjs
<1> QED
  BY <1>1, <1>2 DEF e

\* Dropping a column with what depends on it, on a table without users.
LEMMA ShapeDropWith ==
    ASSUME NEW d, NEW D, NEW O, NEW T, Shape(d, D, O, T), NEW c \in D, NEW os
    PROVE  Shape(DropWith(d, c, os), D \ {c}, O \ os, T)
<1> DEFINE e == DropColumn(d, c)
           f == [e EXCEPT !.objs = @ \ os]
<1>1. Shape(e, D \ {c}, O, T)
  BY ShapeDrop
<1> HIDE DEF e
<1>2. IsDb(e)
  BY <1>1 DEF Shape, Bare
<1>3. IsDb(f) /\ f.rows = e.rows /\ f.cols = e.cols /\ f.objs = e.objs \ os
  BY <1>2 DEF IsDb
<1>4. f.ok
  BY <1>1 DEF Shape, Bare, IsDb
<1> HIDE DEF f
<1>5. Shape(f, D \ {c}, f.objs, T)
  BY <1>1, <1>3, <1>4, ShapeObjs
<1>6. f.objs = O \ os
  BY <1>1, <1>3 DEF Shape, Bare
<1> QED
  BY <1>5, <1>6 DEF DropWith, e, f

\* The columns of models.User, one kind at a time.
LEMMA Fits ==
    /\ \A c \in {"email_address", "email_confirmation_key", "country_code",
                 "ethereum_challenge", "referral_code", "referring_user_id"} :
           \A t \in {"TEXT", "CHAR", "VARCHAR"} : Fit(c, [type |-> t, null |-> TRUE])
    /\ \A c \in {"email_confirmation_sent_at", "agreed_tos_at", "ethereum_challenge_sent",
                 "referred_at", "migrated_at"} :
           Fit(c, [type |-> "TIMESTAMPTZ", null |-> TRUE])
    /\ \A c \in {"id", "auth_provider_id"} : Fit(c, [type |-> "TEXT", null |-> FALSE])
    /\ \A c \in {"email_confirmed", "ethereum_confirmed", "in_app_wallet"} :
           Fit(c, [type |-> "BOOLEAN", null |-> FALSE])
    /\ Fit("created_at", [type |-> "TIMESTAMPTZ", null |-> FALSE])
    /\ Fit("ethereum_address", [type |-> "BYTEA", null |-> TRUE])
  BY DEF Fit, ModelColumns, Strings

-----------------------------------------------------------------------------
(* The schema of each version, file by file.                               *)

\* Induction for sets of numbers: the least number outside the set.
LEMMA SetInduction ==
    ASSUME NEW T \in SUBSET Nat, 0 \in T, \A n \in T : n + 1 \in T
    PROVE  T = Nat
<1> SUFFICES ASSUME Nat \ T # {} PROVE FALSE
  OBVIOUS
<1>1. PICK n \in Nat \ T : \A m \in Nat \ T : ~(<<m, n>> \in OpToRel(<, Nat))
  BY NatLessThanWellFounded, WFMin, Zenon
<1>2. \A m \in Nat \ T : ~(m < n)
  BY <1>1 DEF OpToRel
<1>3. n # 0 /\ n - 1 \in Nat /\ n - 1 < n
  OBVIOUS
<1>4. n - 1 \in T
  BY <1>2, <1>3
<1> QED
  BY <1>3, <1>4

\* A function that follows the equation of SchemaAt as far as k.
Follows(g, k) == g[0] = Nothing /\ \A n \in 1 .. k : g[n] = Up(n, g[n - 1])

\* There is a function that follows the equation of SchemaAt as far as one likes.
LEMMA FollowsExists ==
    ASSUME NEW k \in Nat
    PROVE  \E g : Follows(g, k)
<1> DEFINE T == {n \in Nat : \E g : Follows(g, n)}
<1>1. 0 \in T
  <2>1. Follows([n \in {0} |-> Nothing], 0)
    BY DEF Follows
  <2> QED
    BY <2>1
<1>2. ASSUME NEW n \in T PROVE n + 1 \in T
  <2>1. PICK g : Follows(g, n)
    OBVIOUS
  <2> DEFINE last == Up(n + 1, g[n])
             h == [m \in 0 .. (n + 1) |-> IF m = n + 1 THEN last ELSE g[m]]
  <2>2. \A m \in 0 .. n : h[m] = g[m]
    OBVIOUS
  <2>3. h[n + 1] = last
    OBVIOUS
  <2> HIDE DEF h
  <2>4. h[0] = Nothing
    BY <2>1, <2>2 DEF Follows
  <2>5. ASSUME NEW m \in 1 .. (n + 1) PROVE h[m] = Up(m, h[m - 1])
    <3>1. h[m - 1] = g[m - 1]
      BY <2>2
    <3>2. CASE m = n + 1
      <4>1. m - 1 = n
        BY <3>2
      <4> QED
        BY <2>3, <3>1, <3>2, <4>1
    <3>3. CASE m # n + 1
      <4>1. m \in 1 .. n /\ m \in 0 .. n
        BY <3>3
      <4>2. g[m] = Up(m, g[m - 1])
        BY <2>1, <4>1 DEF Follows
      <4>3. h[m] = g[m]
        BY <2>2, <4>1
      <4> QED
        BY <3>1, <4>2, <4>3
    <3> QED
      BY <3>2, <3>3
  <2>6. Follows(h, n + 1)
    BY <2>4, <2>5 DEF Follows
  <2> QED
    BY <2>6
<1>3. T = Nat
  <2> HIDE DEF T
  <2>1. T \in SUBSET Nat
    BY DEF T
  <2> QED
    BY <1>1, <1>2, <2>1, SetInduction
<1> QED
  BY <1>3

\* So SchemaAt exists, and its equation holds of it.
LEMMA SchemaIs ==
    /\ SchemaAt[0] = Nothing
    /\ \A v \in 1 .. Last : SchemaAt[v] = Up(v, SchemaAt[v - 1])
<1> DEFINE Eq(f) == f = [v \in 0 .. Last |-> IF v = 0 THEN Nothing ELSE Up(v, f[v - 1])]
<1>1. PICK g : Follows(g, Last)
  BY FollowsExists DEF Last
<1> DEFINE f == [v \in 0 .. Last |-> g[v]]
<1>2. /\ \A v \in 0 .. Last : f[v] = g[v]
      /\ f = [v \in 0 .. Last |-> f[v]]
  OBVIOUS
<1> HIDE DEF f
<1>3. ASSUME NEW v \in 0 .. Last
      PROVE  f[v] = IF v = 0 THEN Nothing ELSE Up(v, f[v - 1])
  <2>1. CASE v = 0
    BY <1>1, <1>2, <2>1 DEF Follows, Last
  <2>2. CASE v # 0
    <3>1. v \in 1 .. Last /\ v - 1 \in 0 .. Last
      BY <2>2 DEF Last
    <3> QED
      BY <1>1, <1>2, <2>2, <3>1 DEF Follows
  <2> QED
    BY <2>1, <2>2
<1>4. Eq(f)
  BY <1>2, <1>3
<1>5. Eq(SchemaAt)
  <2>1. SchemaAt = CHOOSE h : Eq(h)
    BY DEF SchemaAt
  <2> HIDE DEF Eq
  <2> QED
    BY <1>4, <2>1
<1>6. \A v \in 0 .. Last : SchemaAt[v] = IF v = 0 THEN Nothing ELSE Up(v, SchemaAt[v - 1])
  BY <1>5
<1>7. 0 \in 0 .. Last /\ \A v \in 1 .. Last : v \in 0 .. Last /\ v # 0
  BY DEF Last
<1> QED
  BY <1>6, <1>7

\* The table that file 2 creates, as CREATE TABLE in migrations/00002 lists it.
LEMMA Shape2 ==
    Shape(SchemaAt[2], {"id", "email_address", "email_confirmed", "email_confirmation_sent",
                        "email_confirmation_key", "created_at"}, {},
          {"email_confirmation_sent"})
<1> DEFINE d == create_user_table(Nothing)
<1>1. SchemaAt[2] = d
  <2>1. SchemaAt[1] = Nothing
    BY SchemaIs DEF Up, create_schema, Last
  <2> QED
    BY <2>1, SchemaIs DEF Up, Last
<1>2. Bare(d, {})
  BY DEF Bare, IsDb, create_user_table, Stmt, Nothing, NoTable
<1>3. d.cols =
            [c \in {"id", "email_address", "email_confirmed",
                    "email_confirmation_sent", "email_confirmation_key", "created_at"} |->
                [type |-> CASE c = "email_confirmed" -> "BOOLEAN"
                            [] c \in {"email_confirmation_sent", "created_at"} -> "TIMESTAMPTZ"
                            [] OTHER -> "TEXT",
                 null |-> c \notin {"id", "email_confirmed", "created_at"}]]
  BY DEF create_user_table, Stmt, Nothing, NoTable
<1> HIDE DEF d
<1>4. \A c \in DOMAIN d.cols : IsColumn(d.cols[c])
  BY <1>3 DEF IsColumn
<1>5. ASSUME NEW c \in {"id", "email_address", "email_confirmed", "email_confirmation_key",
                        "created_at"}
      PROVE  Fit(c, d.cols[c])
  <2>1. d.cols[c].type \in ModelColumns[c].types
    BY <1>3 DEF ModelColumns, Strings
  <2>2. d.cols[c].null = ModelColumns[c].null
    BY <1>3 DEF ModelColumns
  <2> QED
    BY <2>1, <2>2 DEF Fit
<1> QED
  BY <1>1, <1>2, <1>3, <1>4, <1>5 DEF Shape

\* More columns may be waiting for their change.
LEMMA ShapeWeaken ==
    ASSUME NEW d, NEW D, NEW O, NEW T, NEW U, Shape(d, D, O, T), T \cap D \subseteq U,
           "ethereum_address" \in D \cap U => "ethereum_address" \in T
    PROVE  Shape(d, D, O, U)
  BY DEF Shape

\* The columns of each version.
Cols2 == {"id", "email_address", "email_confirmed", "email_confirmation_sent",
          "email_confirmation_key", "created_at"}
Cols3 == Cols2 \cup {"country_code"}
Cols4 == Cols3 \cup {"ethereum_address"}
Cols5 == Cols4 \cup {"referral_code"}
Cols6 == (Cols5 \cup {"email_confirmation_sent_at"}) \ {"email_confirmation_sent"}
Cols8 == Cols6 \cup {"agreed_tos_at"}
Cols10 == Cols8 \cup {"referrer_id"}
Cols12 == Cols10 \cup {"auth_provider_id"}
Cols13 == ((Cols12 \cup {"ethereum_challenge"}) \cup {"ethereum_challenge_sent"})
              \cup {"ethereum_confirmed"}
Cols15 == Cols13 \cup {"in_app_wallet"}

\* Columns that still change before they are those of models.User.
Unfit == {"email_confirmation_sent", "ethereum_address", "referral_code", "referrer_id"}

\* None of the files 1 to 15 fails on a table without users, and what they make.
LEMMA Shape15 ==
    /\ SchemaAt[0].ok /\ SchemaAt[1].ok
    /\ Shape(SchemaAt[2], Cols2, {}, Unfit)
    /\ Shape(SchemaAt[3], Cols3, {}, Unfit)
    /\ Shape(SchemaAt[4], Cols4, {}, Unfit)
    /\ Shape(SchemaAt[5], Cols5, {}, Unfit)
    /\ Shape(SchemaAt[6], Cols6, {}, Unfit)
    /\ Shape(SchemaAt[7], Cols6, {}, Unfit)
    /\ Shape(SchemaAt[8], Cols8, {}, Unfit)
    /\ Shape(SchemaAt[9], Cols8, {"users_referral_code_key"}, Unfit)
    /\ Shape(SchemaAt[10], Cols10,
             {"users_referral_code_key", "users_referrer_id_fkey"}, Unfit)
    /\ Shape(SchemaAt[11], Cols10,
             {"users_referral_code_key", "users_referrer_id_fkey", "referrals"}, Unfit)
    /\ Shape(SchemaAt[12], Cols12,
             {"users_referral_code_key", "users_referrer_id_fkey", "referrals"}, Unfit)
    /\ Shape(SchemaAt[13], Cols13,
             {"users_referral_code_key", "users_referrer_id_fkey", "referrals"}, Unfit)
    /\ Shape(SchemaAt[14], Cols13,
             {"users_referral_code_key", "users_referrer_id_fkey", "referrals"}, Unfit)
    /\ Shape(SchemaAt[15], Cols15,
             {"users_referral_code_key", "users_referrer_id_fkey", "referrals"}, Unfit)
<1> DEFINE S(v) == SchemaAt[v]
           key == {"users_referral_code_key"}
           fkey == key \cup {"users_referrer_id_fkey"}
           refs == fkey \cup {"referrals"}
<1>0. \A v \in 1 .. 22 : S(v) = Up(v, S(v - 1))
  BY SchemaIs DEF Last
<1>1. S(0).ok /\ S(1).ok
  <2>1. S(1) = S(0)
    BY <1>0 DEF Up, create_schema
  <2> QED
    BY <2>1, SchemaIs DEF Nothing
<1>2. Shape(S(2), Cols2, {}, Unfit)
  BY Shape2, ShapeWeaken DEF Cols2, Unfit
<1>3. Shape(S(3), Cols3, {}, Unfit)
  <2>1. S(3) = AddColumn(S(2), "country_code", "CHAR")
    BY <1>0 DEF Up, add_country_code
  <2>2. "country_code" \notin Cols2 /\ Fit("country_code", [type |-> "CHAR", null |-> TRUE])
    BY Fits DEF Cols2
  <2> HIDE DEF S
  <2> QED
    BY <1>2, <2>1, <2>2, ShapeAdd DEF Cols3
<1>4. Shape(S(4), Cols4, {}, Unfit)
  <2>1. S(4) = AddColumn(S(3), "ethereum_address", "CHAR")
    BY <1>0 DEF Up, add_ethereum_address
  <2>2. "ethereum_address" \notin Cols3 /\ "ethereum_address" \in Unfit
    BY DEF Cols2, Cols3, Unfit
  <2> HIDE DEF S
  <2>3. Shape(AddColumn(S(3), "ethereum_address", "CHAR"), Cols4, {}, Unfit)
    BY <1>3, <2>2, ShapeAdd DEF Cols4
  <2> QED
    BY <2>1, <2>3
<1>5. Shape(S(5), Cols5, {}, Unfit)
  <2>1. S(5) = AddNotNull(S(4), "referral_code", "CHAR")
    BY <1>0 DEF Up, add_referral_code
  <2>2. "referral_code" \notin Cols4 /\ "referral_code" \in Unfit
    BY DEF Cols2, Cols3, Cols4, Unfit
  <2> HIDE DEF S
  <2>3. Shape(AddNotNull(S(4), "referral_code", "CHAR"), Cols5, {}, Unfit)
    BY <1>4, <2>2, ShapeAddNotNull DEF Cols5
  <2> QED
    BY <2>1, <2>3
<1>6. Shape(S(6), Cols6, {}, Unfit)
  <2> DEFINE old == "email_confirmation_sent"
             e == AddColumn(S(5), "email_confirmation_sent_at", "TIMESTAMPTZ")
  <2>1. S(6) = DropColumn(AddColumn(Stmt(S(5), Has(S(5), old), S(5)),
                         "email_confirmation_sent_at", "TIMESTAMPTZ"), old)
    BY <1>0 DEF Up, rename_email_confirmation_sent
  <2>2. S(5).ok /\ Has(S(5), old)
    BY <1>5 DEF Shape, Bare, Has, Cols2, Cols3, Cols4, Cols5
  <2>3. S(6) = DropColumn(e, old)
    BY <2>1, <2>2 DEF Stmt
  <2>4. /\ "email_confirmation_sent_at" \notin Cols5
        /\ Fit("email_confirmation_sent_at", [type |-> "TIMESTAMPTZ", null |-> TRUE])
        /\ old \in Cols5
    BY Fits DEF Cols2, Cols3, Cols4, Cols5
  <2> HIDE DEF S
  <2>5. Shape(e, Cols5 \cup {"email_confirmation_sent_at"}, {}, Unfit)
    BY <1>5, <2>4, ShapeAdd
  <2> HIDE DEF e
  <2> QED
    BY <2>3, <2>4, <2>5, ShapeDrop DEF Cols6
<1>7. Shape(S(7), Cols6, {}, Unfit)
  <2>1. S(7) = AlterType(S(6), "referral_code", "VARCHAR")
    BY <1>0 DEF Up, trim_referral_codes
  <2>2. "referral_code" \in Cols6 /\ "referral_code" \in Unfit
    BY DEF Cols5, Cols6, Unfit
  <2>3. Unfit \cup {"referral_code"} = Unfit
    BY <2>2
  <2> HIDE DEF S
  <2> QED
    BY <1>6, <2>1, <2>2, <2>3, ShapeAlter
<1>8. Shape(S(8), Cols8, {}, Unfit)
  <2> DEFINE e == AddColumn(S(7), "agreed_tos_at", "TIMESTAMPTZ")
  <2>1. S(8) = Update(e, "agreed_tos_at", All(S(7), "set"))
    BY <1>0 DEF Up, add_tos_agreement_timestamp
  <2>2. /\ "agreed_tos_at" \notin Cols6 /\ "agreed_tos_at" \in Cols8
        /\ Fit("agreed_tos_at", [type |-> "TIMESTAMPTZ", null |-> TRUE])
    BY Fits DEF Cols2, Cols3, Cols4, Cols5, Cols6, Cols8
  <2> HIDE DEF S
  <2>3. Shape(e, Cols8, {}, Unfit)
    BY <1>7, <2>2, ShapeAdd DEF Cols8
  <2> HIDE DEF e
  <2> QED
    BY <2>1, <2>2, <2>3, ShapeUpdate
<1>9. Shape(S(9), Cols8, key, Unfit)
  <2>1. S(8).objs = {}
    BY <1>8 DEF Shape, Bare
  <2>2. S(9) = AddOn(S(8), "referral_code", "users_referral_code_key")
    BY <1>0, <2>1 DEF Up, make_referral_unique
  <2>3. "referral_code" \in Cols8
    BY DEF Cols5, Cols6, Cols8
  <2> HIDE DEF S
  <2>4. Shape(S(9), Cols8, {} \cup {"users_referral_code_key"}, Unfit)
    BY <1>8, <2>2, <2>3, ShapeAddOn
  <2> QED
    BY <2>4
<1>10. Shape(S(10), Cols10, fkey, Unfit)
  <2> DEFINE e == AddColumn(S(9), "referrer_id", "TEXT")
  <2>1. S(10) = AddOn(e, "referrer_id", "users_referrer_id_fkey")
    BY <1>0 DEF Up, add_referrer_id
  <2>2. /\ "referrer_id" \notin Cols8 /\ "referrer_id" \in Cols10
        /\ "referrer_id" \in Unfit /\ "users_referrer_id_fkey" \notin key
    BY DEF Cols2, Cols3, Cols4, Cols5, Cols6, Cols8, Cols10, Unfit
  <2> HIDE DEF S, key
  <2>3. Shape(e, Cols10, key, Unfit)
    BY <1>9, <2>2, ShapeAdd DEF Cols10
  <2> HIDE DEF e
  <2> QED
    BY <2>1, <2>2, <2>3, ShapeAddOn
<1>11. Shape(S(11), Cols10, refs, Unfit)
  <2>1. S(11) = AddObj(S(10), "referrals")
    BY <1>0 DEF Up, referral_table
  <2>2. "referrals" \notin fkey
    OBVIOUS
  <2> HIDE DEF S, fkey
  <2> QED
    BY <1>10, <2>1, <2>2, ShapeAddObj
<1>12. Shape(S(12), Cols12, refs, Unfit)
  <2>1. S(12) = AddByAddress(S(11), "auth_provider_id", "TEXT", "google", "web3")
    BY <1>0 DEF Up, user_auth_provider_id
  <2>2. /\ "auth_provider_id" \notin Cols10
        /\ Fit("auth_provider_id", [type |-> "TEXT", null |-> FALSE])
    BY Fits DEF Cols2, Cols3, Cols4, Cols5, Cols6, Cols8, Cols10
  <2> HIDE DEF S, refs
  <2> QED
    BY <1>11, <2>1, <2>2, ShapeAddByAddress DEF Cols12
<1>13. Shape(S(13), Cols13, refs, Unfit)
  <2> DEFINE e == AddColumn(S(12), "ethereum_challenge", "TEXT")
             f == AddColumn(e, "ethereum_challenge_sent", "TIMESTAMPTZ")
             D == Cols12 \cup {"ethereum_challenge"}
             E == D \cup {"ethereum_challenge_sent"}
  <2>1. S(13) = AddByAddress(f, "ethereum_confirmed", "BOOLEAN", "false", "true")
    BY <1>0 DEF Up, wallet_confirmation
  <2>2. /\ "ethereum_challenge" \notin Cols12
        /\ "ethereum_challenge_sent" \notin D
        /\ "ethereum_confirmed" \notin E
    BY DEF Cols2, Cols3, Cols4, Cols5, Cols6, Cols8, Cols10, Cols12
  <2>3. /\ Fit("ethereum_challenge", [type |-> "TEXT", null |-> TRUE])
        /\ Fit("ethereum_challenge_sent", [type |-> "TIMESTAMPTZ", null |-> TRUE])
        /\ Fit("ethereum_confirmed", [type |-> "BOOLEAN", null |-> FALSE])
    BY Fits
  <2> HIDE DEF S, refs, e, D
  <2>4. Shape(e, D, refs, Unfit)
    BY <1>12, <2>2, <2>3, ShapeAdd DEF e, D
  <2> HIDE DEF f, E
  <2>5. Shape(f, E, refs, Unfit)
    BY <2>2, <2>3, <2>4, ShapeAdd DEF f, E
  <2>6. Shape(S(13), E \cup {"ethereum_confirmed"}, refs, Unfit)
    BY <2>1, <2>2, <2>3, <2>5, ShapeAddByAddress
  <2> QED
    BY <2>6 DEF Cols13, D, E
<1>14. Shape(S(14), Cols13, refs, Unfit)
  <2> DEFINE o == "users_referrer_id_fkey"
             e == DropObj(S(13), o)
  <2>1. S(14) = AddOn(e, "referrer_id", o)
    BY <1>0 DEF Up, null_deleted_referrer
  <2>2. "referrer_id" \in Cols13 /\ o \in refs /\ (refs \ {o}) \cup {o} = refs
    BY DEF Cols10, Cols12, Cols13
  <2> HIDE DEF S, refs
  <2>3. Shape(e, Cols13, refs \ {o}, Unfit)
    BY <1>13, <2>2, ShapeDropObj
  <2> HIDE DEF e
  <2>4. Shape(S(14), Cols13, (refs \ {o}) \cup {o}, Unfit)
    BY <2>1, <2>2, <2>3, ShapeAddOn
  <2> QED
    BY <2>2, <2>4
<1>15. Shape(S(15), Cols15, refs, Unfit)
  <2>1. S(15) = AddNotNull(S(14), "in_app_wallet", "BOOLEAN")
    BY <1>0 DEF Up, add_in_app_wallet_flag
  <2>2. /\ "in_app_wallet" \notin Cols13
        /\ Fit("in_app_wallet", [type |-> "BOOLEAN", null |-> FALSE])
    BY Fits DEF Cols2, Cols3, Cols4, Cols5, Cols6, Cols8, Cols10, Cols12, Cols13
  <2> HIDE DEF S, refs
  <2> QED
    BY <1>14, <2>1, <2>2, ShapeAddNotNull DEF Cols15
<1>16. /\ key = {"users_referral_code_key"}
       /\ fkey = {"users_referral_code_key", "users_referrer_id_fkey"}
       /\ refs = {"users_referral_code_key", "users_referrer_id_fkey", "referrals"}
  OBVIOUS
<1> HIDE DEF key, fkey, refs
<1> QED
  BY <1>1, <1>2, <1>3, <1>4, <1>5, <1>6, <1>7, <1>8, <1>9, <1>10, <1>11, <1>12, <1>13,
     <1>14, <1>15, <1>16

\* The columns of the versions from 16 on.
Cols16 == (Cols15 \ {"referral_code"}) \ {"referrer_id"}
Cols17 == (Cols16 \cup {"referral_code"}) \cup {"referred_by"}
Cols19 == ((Cols17 \ {"referred_by"}) \cup {"referred_at"}) \cup {"referring_user_id"}
Cols22 == Cols19 \cup {"migrated_at"}

\* None of the files 16 to 18 fails on a table without users, and what they make.
LEMMA Shape18 ==
    /\ Shape(SchemaAt[16], Cols16, {}, {"ethereum_address", "referred_by"})
    /\ Shape(SchemaAt[17], Cols17, {"users_referral_code_key"},
             {"ethereum_address", "referred_by"})
    /\ Shape(SchemaAt[18], Cols17, {"users_referral_code_key"},
             {"ethereum_address", "referred_by"})
    /\ SchemaAt[18].cols["referral_code"].type = "VARCHAR"
    /\ SchemaAt[18].cols["referred_by"].type = "VARCHAR"
<1> DEFINE S(v) == SchemaAt[v]
           key == {"users_referral_code_key"}
           refs == {"users_referral_code_key", "users_referrer_id_fkey", "referrals"}
           T == {"ethereum_address", "referred_by"}
<1>0. \A v \in 1 .. 22 : S(v) = Up(v, S(v - 1))
  BY SchemaIs DEF Last
<1>1. Shape(S(16), Cols16, {}, T)
  <2> DEFINE K == {"users_referral_code_key", "users_referral_code_key1"}
             e == DropObj(S(15), "referrals")
             f == DropWith(e, "referral_code", K)
             O == (refs \ {"referrals"}) \ K
             F == {"users_referrer_id_fkey"}
             D == Cols15 \ {"referral_code"}
  <2>1. S(16) = DropWith(f, "referrer_id", F)
    BY <1>0 DEF Up, remove_old_referral_relations
  <2>2. Shape(S(15), Cols15, refs, Unfit)
    BY Shape15
  <2>3. /\ "referrals" \in refs /\ "referral_code" \in Cols15 /\ "referrer_id" \in D
        /\ O \ F = {} /\ Unfit \cap Cols16 \subseteq T /\ "ethereum_address" \in Unfit
    BY DEF Cols2, Cols3, Cols4, Cols5, Cols6, Cols8, Cols10, Cols12, Cols13, Cols15, Cols16,
           Unfit
  <2> HIDE DEF S, refs, T
  <2>4. Shape(e, Cols15, refs \ {"referrals"}, Unfit)
    BY <2>2, <2>3, ShapeDropObj
  <2> HIDE DEF e, K
  <2>5. Shape(f, D, O, Unfit)
    BY <2>3, <2>4, ShapeDropWith
  <2> HIDE DEF f, O, D, F
  <2>6. Shape(S(16), D \ {"referrer_id"}, O \ F, Unfit)
    BY <2>1, <2>3, <2>5, ShapeDropWith
  <2>7. D \ {"referrer_id"} = Cols16
    BY DEF D, Cols16
  <2> QED
    BY <2>3, <2>6, <2>7, ShapeWeaken
<1>2. Shape(S(17), Cols17, key, T)
  <2> DEFINE e == AddColumn(S(16), "referral_code", "CHAR")
             f == AddColumn(e, "referred_by", "CHAR")
             D == Cols16 \cup {"referral_code"}
             none == {}
  <2>1. S(17) = AddOn(f, "referral_code", "users_referral_code_key")
    BY <1>0 DEF Up, create_referral_code
  <2>2. /\ "referral_code" \notin Cols16 /\ "referred_by" \notin D /\ "referral_code" \in Cols17
        /\ Fit("referral_code", [type |-> "CHAR", null |-> TRUE]) /\ "referred_by" \in T
        /\ "users_referral_code_key" \notin none
        /\ none \cup {"users_referral_code_key"} = key
    BY Fits DEF Cols2, Cols3, Cols4, Cols5, Cols6, Cols8, Cols10, Cols12, Cols13, Cols15,
                Cols16, Cols17
  <2>3. Shape(S(16), Cols16, none, T)
    BY <1>1
  <2> HIDE DEF S, T, key, none
  <2>4. Shape(e, D, none, T)
    BY <2>2, <2>3, ShapeAdd
  <2> HIDE DEF e
  <2>5. Shape(f, Cols17, none, T)
    BY <2>2, <2>4, ShapeAdd DEF Cols17
  <2> HIDE DEF f
  <2>6. Shape(S(17), Cols17, none \cup {"users_referral_code_key"}, T)
    BY <2>1, <2>2, <2>5, ShapeAddOn
  <2> QED
    BY <2>2, <2>6
<1>3. /\ Shape(S(18), Cols17, key, T)
      /\ S(18).cols["referral_code"].type = "VARCHAR"
      /\ S(18).cols["referred_by"].type = "VARCHAR"
  <2> DEFINE e == AlterType(S(17), "referral_code", "VARCHAR")
  <2>1. S(18) = AlterType(e, "referred_by", "VARCHAR")
    BY <1>0 DEF Up, alter_referral_code
  <2>2. /\ "referral_code" \in Cols17 /\ "referred_by" \in Cols17 /\ "referral_code" \notin T
        /\ "referred_by" \in T /\ T \cup {"referred_by"} = T
    BY DEF Cols17
  <2>3. Fit("referral_code", [type |-> "VARCHAR", null |-> S(17).cols["referral_code"].null])
    <3>1. S(17).cols["referral_code"].null = ModelColumns["referral_code"].null
      BY <1>2, <2>2 DEF Shape, Fit
    <3>2. "VARCHAR" \in ModelColumns["referral_code"].types
      BY DEF ModelColumns, Strings
    <3> QED
      BY <3>1, <3>2 DEF Fit
  <2> HIDE DEF S, T, key
  <2>4. Shape(S(17), Cols17, key, T \cup {"referral_code"})
    BY <1>2, ShapeWeaken
  <2>5. Shape(e, Cols17, key, T)
    BY <2>2, <2>3, <2>4, ShapeAlter
  <2>6. e.cols["referral_code"].type = "VARCHAR"
    BY <1>2, <2>2, AlteredColumn
  <2> HIDE DEF e
  <2>7. /\ S(18).cols["referral_code"].type = "VARCHAR"
        /\ S(18).cols["referred_by"].type = "VARCHAR"
    BY <2>1, <2>2, <2>5, <2>6, AlteredColumn
  <2>8. Shape(S(18), Cols17, key, T)
    BY <2>1, <2>2, <2>5, ShapeAlter
  <2> QED
    BY <2>7, <2>8
<1> QED
  BY <1>1, <1>2, <1>3

\* File 20 makes the addresses bytes and leaves no users_eth behind.
LEMMA ShapeFile20 ==
    ASSUME NEW d, NEW D, NEW O, Shape(d, D, O, {"ethereum_address"}), "users_eth" \notin O,
           "ethereum_address" \in D
    PROVE  Shape(make_eth_addr_byte_arr(d), D, O, {})
<1> DEFINE eth == "ethereum_address"
           T == {eth}
           c == copy_eth_addr(d)
           a == AlterType(c, eth, "BYTEA")
           n == null_eth_addr(c)
           u == Update(n, eth, Decoded(n))
           o == DropObj(u, "users_eth")
           r == DropCopy(u)
           U == O \cup {"users_eth"}
<1>1. /\ IsDb(c) /\ c.ok /\ c.objs = U /\ c.cols = d.cols /\ c.rows = d.rows
      /\ c.ethType = d.cols[eth].type
  BY DEF Shape, Bare, IsDb, copy_eth_addr, Stmt, Has
<1>2. d.cols[eth].type # "BYTEA" /\ d.cols[eth].null = TRUE
  BY DEF Shape
<1> HIDE DEF c
<1>3. Shape(c, D, U, T)
  BY <1>1, ShapeObjs
<1>4. Shape(a, D, U, {})
  <2>1. {} \cup {eth} = T
    OBVIOUS
  <2>2. Fit(eth, [type |-> "BYTEA", null |-> c.cols[eth].null])
    BY <1>1, <1>2, Fits
  <2> QED
    BY <1>3, <2>1, <2>2, ShapeAlter
<1>5. Shape(n, D, U, {})
  <2> HIDE DEF a
  <2>1. Shape(Update(a, eth, All(c, Null)), D, U, {})
    BY <1>4, ShapeUpdate
  <2> QED
    BY <2>1 DEF null_eth_addr, a
<1>6. n.ethType = d.cols[eth].type
  <2>1. a.ethType = c.ethType /\ IsDb(a)
    BY <1>1 DEF IsDb, AlterType, Stmt
  <2> HIDE DEF a
  <2>2. Update(a, eth, All(c, Null)).ethType = a.ethType
    BY <2>1 DEF IsDb, Update, Stmt
  <2> QED
    BY <1>1, <2>1, <2>2 DEF null_eth_addr, a
<1> HIDE DEF n
<1>7. Shape(u, D, U, {})
  BY <1>5, ShapeUpdate
<1>8. make_eth_addr_byte_arr(d) = r
  <2>1. n.ok
    BY <1>5 DEF Shape, Bare
  <2> QED
    BY <1>2, <1>6, <2>1 DEF make_eth_addr_byte_arr, decode_eth_addr, Stmt, n, c
<1> HIDE DEF u
<1>9. Shape(o, D, U \ {"users_eth"}, {})
  BY <1>7, ShapeDropObj
<1>10. IsDb(r) /\ r.ok /\ r.cols = o.cols /\ r.rows = o.rows /\ r.objs = O
  <2>1. IsDb(o) /\ o.ok /\ o.objs = O
    BY <1>9 DEF Shape, Bare
  <2>2. r = [o EXCEPT !.eth = Nothing.eth, !.ethType = Nothing.ethType]
    BY DEF DropCopy
  <2> HIDE DEF o, r
  <2>3. r.cols = o.cols /\ r.rows = o.rows /\ r.objs = o.objs /\ r.ok
    BY <2>1, <2>2 DEF IsDb
  <2>4. IsDb(r)
    BY <2>1, <2>2, TwoFields
  <2> QED
    BY <2>1, <2>3, <2>4
<1> HIDE DEF o, r
<1>11. Shape(r, D, O, {})
  BY <1>9, <1>10, ShapeObjs
<1> QED
  BY <1>8, <1>11

\* None of the files 19 to 22 fails on a table without users, and what they make.
LEMMA Shape22 ==
    LET key == {"users_referral_code_key", "users_referring_user_id_fkey"}
        index == {"users_referral_code_key", "users_referring_user_id_fkey",
                  "users_ethereum_address_idx"}
    IN  /\ Shape(SchemaAt[19], Cols19, key, {"ethereum_address"})
        /\ Shape(SchemaAt[20], Cols19, key, {})
        /\ Shape(SchemaAt[21], Cols19, index, {})
        /\ Shape(SchemaAt[22], Cols22, index, {})
<1> DEFINE S(v) == SchemaAt[v]
           code == {"users_referral_code_key"}
           key == {"users_referral_code_key", "users_referring_user_id_fkey"}
           index == {"users_referral_code_key", "users_referring_user_id_fkey",
                     "users_ethereum_address_idx"}
           T == {"ethereum_address"}
           none == {}
<1>0. \A v \in 1 .. 22 : S(v) = Up(v, S(v - 1))
  BY SchemaIs DEF Last
<1>1. Shape(S(19), Cols19, key, T)
  <2> DEFINE c == DropColumn(S(18), "referred_by")
             e == AddColumn(c, "referred_at", "TIMESTAMPTZ")
             f == AddColumn(e, "referring_user_id", "TEXT")
             C == Cols17 \ {"referred_by"}
             E == C \cup {"referred_at"}
             V == {"ethereum_address", "referred_by"}
  <2>1. S(19) = AddOn(f, "referring_user_id", "users_referring_user_id_fkey")
    BY <1>0 DEF Up, referral_date
  <2>2. /\ "referred_by" \in Cols17 /\ "referred_at" \notin C
        /\ "referring_user_id" \notin E /\ "referring_user_id" \in Cols19
        /\ Fit("referred_at", [type |-> "TIMESTAMPTZ", null |-> TRUE])
        /\ Fit("referring_user_id", [type |-> "TEXT", null |-> TRUE])
        /\ "users_referring_user_id_fkey" \notin code
        /\ code \cup {"users_referring_user_id_fkey"} = key
        /\ V \cap C \subseteq T /\ "ethereum_address" \in V
    BY Fits DEF Cols2, Cols3, Cols4, Cols5, Cols6, Cols8, Cols10, Cols12, Cols13, Cols15,
                Cols16, Cols17, Cols19
  <2>3. Shape(S(18), Cols17, code, V)
    BY Shape18
  <2> HIDE DEF S, T, V, code, key
  <2>4. Shape(c, C, code, V)
    BY <2>2, <2>3, ShapeDrop
  <2> HIDE DEF c, C
  <2>5. Shape(c, C, code, T)
    BY <2>2, <2>4, ShapeWeaken
  <2>6. Shape(e, E, code, T)
    BY <2>2, <2>5, ShapeAdd
  <2> HIDE DEF e, E
  <2>7. Shape(f, Cols19, code, T)
    BY <2>2, <2>6, ShapeAdd DEF Cols19, E, C
  <2> HIDE DEF f
  <2>8. Shape(S(19), Cols19, code \cup {"users_referring_user_id_fkey"}, T)
    BY <2>1, <2>2, <2>7, ShapeAddOn
  <2> QED
    BY <2>2, <2>8
<1>2. "ethereum_address" \in Cols19
  BY DEF Cols2, Cols3, Cols4, Cols5, Cols6, Cols8, Cols10, Cols12, Cols13, Cols15,
         Cols16, Cols17, Cols19
<1>3. Shape(S(20), Cols19, key, none)
  <2>1. S(20) = make_eth_addr_byte_arr(S(19))
    BY <1>0 DEF Up
  <2>2. "users_eth" \notin key
    OBVIOUS
  <2> HIDE DEF S, key
  <2> QED
    BY <1>1, <1>2, <2>1, <2>2, ShapeFile20
<1>4. Shape(S(21), Cols19, index, none)
  <2>1. S(21) = AddOn(S(20), "ethereum_address", "users_ethereum_address_idx")
    BY <1>0 DEF Up, add_addr_index
  <2>2. /\ "users_ethereum_address_idx" \notin key
        /\ key \cup {"users_ethereum_address_idx"} = index
    OBVIOUS
  <2> HIDE DEF S, key, index, none
  <2>3. Shape(S(21), Cols19, key \cup {"users_ethereum_address_idx"}, none)
    BY <1>2, <1>3, <2>1, <2>2, ShapeAddOn
  <2> QED
    BY <2>2, <2>3
<1>5. Shape(S(22), Cols22, index, none)
  <2>1. S(22) = AddColumn(S(21), "migrated_at", "TIMESTAMPTZ")
    BY <1>0 DEF Up, add_migrated_at
  <2>2. "migrated_at" \notin Cols19 /\ Fit("migrated_at", [type |-> "TIMESTAMPTZ", null |-> TRUE])
    BY Fits DEF Cols2, Cols3, Cols4, Cols5, Cols6, Cols8, Cols10, Cols12, Cols13, Cols15,
                Cols16, Cols17, Cols19
  <2> HIDE DEF S, index, none
  <2> QED
    BY <1>4, <2>1, <2>2, ShapeAdd DEF Cols22
<1> QED
  BY <1>1, <1>3, <1>4, <1>5

-----------------------------------------------------------------------------
(* The addresses of the users.                                             *)

\* The value of ethereum_address in a column of type t.
Address(t, has) == IF ~has THEN Null ELSE IF t = "BYTEA" THEN "bytes" ELSE "text"

\* Unless the transaction has failed, A are the users with an address, and every
\* row has the columns of the table.
Sound(d, A) ==
    /\ IsDb(d)
    /\ d.ok =>
        /\ A \subseteq DOMAIN d.rows
        /\ \A p \in DOMAIN d.rows : DOMAIN d.rows[p] = DOMAIN d.cols
        /\ "id" \notin DOMAIN d.cols => DOMAIN d.rows = {}
        /\ "ethereum_address" \notin DOMAIN d.cols => A = {}
        /\ "ethereum_address" \in DOMAIN d.cols =>
            /\ IsColumn(d.cols["ethereum_address"])
            /\ \A p \in DOMAIN d.rows :
                   d.rows[p]["ethereum_address"] =
                       Address(d.cols["ethereum_address"].type, p \in A)

\* What a statement may change without changing an address.
LEMMA SoundStep ==
    ASSUME NEW d, NEW A, Sound(d, A), NEW e, IsDb(e), e.ok => d.ok,
           e.ok => /\ DOMAIN e.rows = DOMAIN d.rows
                   /\ \A p \in DOMAIN e.rows : DOMAIN e.rows[p] = DOMAIN e.cols
                   /\ \A c \in {"id", "ethereum_address"} :
                        /\ c \in DOMAIN e.cols <=> c \in DOMAIN d.cols
                        /\ c \in DOMAIN e.cols => e.cols[c] = d.cols[c]
                        /\ c \in DOMAIN e.cols =>
                               \A p \in DOMAIN e.rows : e.rows[p][c] = d.rows[p][c]
    PROVE  Sound(e, A)
  BY DEF Sound

\* Adding another column keeps the addresses.
LEMMA SoundAdd ==
    ASSUME NEW d, NEW A, Sound(d, A), NEW c, c \notin {"id", "ethereum_address"}, NEW t
    PROVE  Sound(AddColumn(d, c, t), A)
<1> DEFINE e == AddColumn(d, c, t)
<1>1. IsDb(e) /\ (e.ok => d.ok)
  BY DEF Sound, IsDb, AddColumn, Stmt
<1>2. ASSUME e.ok
      PROVE  /\ e.cols = Put(d.cols, c, [type |-> t, null |-> TRUE])
             /\ e.rows = [p \in DOMAIN d.rows |-> Put(d.rows[p], c, Null)]
  BY <1>2 DEF Sound, IsDb, AddColumn, Stmt
<1> HIDE DEF e
<1>3. ASSUME e.ok, NEW p \in DOMAIN e.rows
      PROVE  /\ p \in DOMAIN d.rows /\ DOMAIN d.rows[p] = DOMAIN d.cols
             /\ e.rows[p] = Put(d.rows[p], c, Null)
  BY <1>1, <1>2, <1>3 DEF Sound
<1>4. ASSUME e.ok, NEW p \in DOMAIN e.rows PROVE DOMAIN e.rows[p] = DOMAIN e.cols
  BY <1>2, <1>3, <1>4 DEF Put
<1>5. ASSUME e.ok, NEW x \in {"id", "ethereum_address"}
      PROVE  /\ x \in DOMAIN e.cols <=> x \in DOMAIN d.cols
             /\ x \in DOMAIN e.cols => e.cols[x] = d.cols[x]
             /\ x \in DOMAIN e.cols => \A p \in DOMAIN e.rows : e.rows[p][x] = d.rows[p][x]
  <2>1. /\ x \in DOMAIN e.cols <=> x \in DOMAIN d.cols
        /\ x \in DOMAIN e.cols => e.cols[x] = d.cols[x]
    BY <1>2, <1>5 DEF Put
  <2>2. ASSUME x \in DOMAIN e.cols, NEW p \in DOMAIN e.rows
        PROVE e.rows[p][x] = d.rows[p][x]
    <3>1. x \in DOMAIN d.rows[p] /\ x # c /\ e.rows[p] = Put(d.rows[p], c, Null)
      BY <1>3, <1>5, <2>1, <2>2
    <3> QED
      BY <3>1 DEF Put
  <2> QED
    BY <2>1, <2>2
<1>6. e.ok => DOMAIN e.rows = DOMAIN d.rows
  BY <1>2
<1>7. Sound(e, A)
  BY <1>1, <1>4, <1>5, <1>6, SoundStep
<1> QED
  BY <1>7 DEF e

\* Dropping another column keeps the addresses.
LEMMA SoundDrop ==
    ASSUME NEW d, NEW A, Sound(d, A), NEW c, c \notin {"id", "ethereum_address"}
    PROVE  Sound(DropColumn(d, c), A)
<1> DEFINE e == DropColumn(d, c)
<1>1. IsDb(e) /\ (e.ok => d.ok)
  BY DEF Sound, IsDb, DropColumn, Stmt
<1>2. ASSUME e.ok
      PROVE  /\ e.cols = Restrict(d.cols, DOMAIN d.cols \ {c})
             /\ e.rows = [p \in DOMAIN d.rows |->
                            Restrict(d.rows[p], DOMAIN d.rows[p] \ {c})]
  BY <1>2 DEF Sound, IsDb, DropColumn, Stmt
<1> HIDE DEF e
<1>3. ASSUME e.ok, NEW p \in DOMAIN e.rows
      PROVE  /\ p \in DOMAIN d.rows /\ DOMAIN d.rows[p] = DOMAIN d.cols
             /\ e.rows[p] = Restrict(d.rows[p], DOMAIN d.rows[p] \ {c})
  BY <1>1, <1>2, <1>3 DEF Sound
<1>4. ASSUME e.ok, NEW p \in DOMAIN e.rows PROVE DOMAIN e.rows[p] = DOMAIN e.cols
  BY <1>2, <1>3, <1>4 DEF Restrict
<1>5. ASSUME e.ok, NEW x \in {"id", "ethereum_address"}
      PROVE  /\ x \in DOMAIN e.cols <=> x \in DOMAIN d.cols
             /\ x \in DOMAIN e.cols => e.cols[x] = d.cols[x]
             /\ x \in DOMAIN e.cols => \A p \in DOMAIN e.rows : e.rows[p][x] = d.rows[p][x]
  <2>1. /\ x \in DOMAIN e.cols <=> x \in DOMAIN d.cols
        /\ x \in DOMAIN e.cols => e.cols[x] = d.cols[x]
    BY <1>2, <1>5 DEF Restrict
  <2>2. ASSUME x \in DOMAIN e.cols, NEW p \in DOMAIN e.rows
        PROVE e.rows[p][x] = d.rows[p][x]
    <3>1. e.rows[p] = [y \in DOMAIN d.cols \ {c} |-> d.rows[p][y]]
      BY <1>3, <1>5, <2>2 DEF Restrict
    <3>2. x \in DOMAIN d.cols \ {c}
      BY <1>5, <2>1, <2>2
    <3> QED
      BY <3>1, <3>2
  <2> QED
    BY <2>1, <2>2
<1>6. e.ok => DOMAIN e.rows = DOMAIN d.rows
  BY <1>2
<1>7. Sound(e, A)
  BY <1>1, <1>4, <1>5, <1>6, SoundStep
<1> QED
  BY <1>7 DEF e

\* An UPDATE of another column keeps the addresses.
LEMMA SoundUpdate ==
    ASSUME NEW d, NEW A, Sound(d, A), NEW c, c \notin {"id", "ethereum_address"}, NEW v
    PROVE  Sound(Update(d, c, v), A)
<1> DEFINE e == Update(d, c, v)
<1>1. IsDb(e) /\ (e.ok => d.ok)
  BY DEF Sound, IsDb, Update, Stmt
<1>2. ASSUME e.ok
      PROVE  e.cols = d.cols /\ e.rows = [p \in DOMAIN d.rows |-> [d.rows[p] EXCEPT ![c] = v[p]]]
  BY <1>2 DEF Sound, IsDb, Update, Stmt
<1> HIDE DEF e
<1>3. ASSUME e.ok, NEW p \in DOMAIN e.rows
      PROVE  /\ p \in DOMAIN d.rows /\ DOMAIN d.rows[p] = DOMAIN d.cols
             /\ e.rows[p] = [d.rows[p] EXCEPT ![c] = v[p]]
  BY <1>1, <1>2, <1>3 DEF Sound
<1>4. ASSUME e.ok, NEW p \in DOMAIN e.rows PROVE DOMAIN e.rows[p] = DOMAIN e.cols
  BY <1>2, <1>3, <1>4
<1>5. ASSUME e.ok, NEW x \in {"id", "ethereum_address"}
      PROVE  /\ x \in DOMAIN e.cols <=> x \in DOMAIN d.cols
             /\ x \in DOMAIN e.cols => e.cols[x] = d.cols[x]
             /\ x \in DOMAIN e.cols => \A p \in DOMAIN e.rows : e.rows[p][x] = d.rows[p][x]
  <2>1. /\ x \in DOMAIN e.cols <=> x \in DOMAIN d.cols
        /\ x \in DOMAIN e.cols => e.cols[x] = d.cols[x]
    BY <1>2, <1>5
  <2>2. ASSUME x \in DOMAIN e.cols, NEW p \in DOMAIN e.rows
        PROVE e.rows[p][x] = d.rows[p][x]
    BY <1>3, <1>5, <2>1, <2>2
  <2> QED
    BY <2>1, <2>2
<1>6. e.ok => DOMAIN e.rows = DOMAIN d.rows
  BY <1>2
<1>7. Sound(e, A)
  BY <1>1, <1>4, <1>5, <1>6, SoundStep
<1> QED
  BY <1>7 DEF e

\* A statement that leaves the rows and the two columns alone keeps the addresses.
LEMMA SoundSchema ==
    ASSUME NEW d, NEW A, Sound(d, A), NEW e, IsDb(e),
           e.ok => /\ d.ok /\ e.rows = d.rows /\ DOMAIN e.cols = DOMAIN d.cols
                   /\ \A c \in DOMAIN d.cols \cap {"id", "ethereum_address"} :
                          e.cols[c] = d.cols[c]
    PROVE  Sound(e, A)
<1>1. ASSUME e.ok, NEW x \in {"id", "ethereum_address"}
      PROVE  /\ x \in DOMAIN e.cols <=> x \in DOMAIN d.cols
             /\ x \in DOMAIN e.cols => e.cols[x] = d.cols[x]
             /\ x \in DOMAIN e.cols => \A p \in DOMAIN e.rows : e.rows[p][x] = d.rows[p][x]
  BY <1>1
<1>2. e.ok => \A p \in DOMAIN e.rows : DOMAIN e.rows[p] = DOMAIN e.cols
  BY DEF Sound
<1> QED
  BY <1>1, <1>2, SoundStep

\* ALTER COLUMN on another column keeps the addresses.
LEMMA SoundAlter ==
    ASSUME NEW d, NEW A, Sound(d, A), NEW c, c \notin {"id", "ethereum_address"}, NEW t
    PROVE  Sound(AlterType(d, c, t), A) /\ Sound(SetNotNull(d, c), A)
<1>1. Sound(AlterType(d, c, t), A)
  <2> DEFINE e == AlterType(d, c, t)
  <2>1. IsDb(e) /\ (e.ok => d.ok)
    BY DEF Sound, IsDb, AlterType, Stmt
  <2>2. e.ok => e.cols = [d.cols EXCEPT ![c].type = t] /\ e.rows = d.rows
    BY DEF Sound, IsDb, AlterType, Stmt
  <2> HIDE DEF e
  <2>3. Sound(e, A)
    BY <2>1, <2>2, SoundSchema
  <2> QED
    BY <2>3 DEF e
<1>2. Sound(SetNotNull(d, c), A)
  <2> DEFINE e == SetNotNull(d, c)
  <2>1. IsDb(e) /\ (e.ok => d.ok)
    BY DEF Sound, IsDb, SetNotNull, Stmt
  <2>2. e.ok => e.cols = [d.cols EXCEPT ![c].null = FALSE] /\ e.rows = d.rows
    BY DEF Sound, IsDb, SetNotNull, Stmt
  <2> HIDE DEF e
  <2>3. Sound(e, A)
    BY <2>1, <2>2, SoundSchema
  <2> QED
    BY <2>3 DEF e
<1> QED
  BY <1>1, <1>2

\* CREATE and DROP of other objects keep the addresses.
LEMMA SoundObjs ==
    ASSUME NEW d, NEW A, Sound(d, A), NEW c, NEW o
    PROVE  Sound(AddObj(d, o), A) /\ Sound(DropObj(d, o), A) /\ Sound(AddOn(d, c, o), A)
<1>1. ASSUME NEW e, IsDb(e), e.ok => d.ok /\ e.rows = d.rows /\ e.cols = d.cols
      PROVE  Sound(e, A)
  BY <1>1, SoundSchema
<1>2. Sound(AddObj(d, o), A)
  <2> DEFINE e == AddObj(d, o)
  <2>1. IsDb(e) /\ (e.ok => d.ok /\ e.rows = d.rows /\ e.cols = d.cols)
    BY DEF Sound, IsDb, AddObj, Stmt
  <2> QED
    BY <1>1, <2>1
<1>3. Sound(DropObj(d, o), A)
  <2> DEFINE e == DropObj(d, o)
  <2>1. IsDb(e) /\ (e.ok => d.ok /\ e.rows = d.rows /\ e.cols = d.cols)
    BY DEF Sound, IsDb, DropObj, Stmt
  <2> QED
    BY <1>1, <2>1
<1>4. Sound(AddOn(d, c, o), A)
  <2> DEFINE e == AddOn(d, c, o)
  <2>1. IsDb(e) /\ (e.ok => d.ok /\ e.rows = d.rows /\ e.cols = d.cols)
    BY DEF Sound, IsDb, AddOn, AddObj, Stmt
  <2> QED
    BY <1>1, <2>1
<1> QED
  BY <1>2, <1>3, <1>4

\* So do the sequences of statements that several files share.
LEMMA SoundComposed ==
    ASSUME NEW d, NEW A, Sound(d, A), NEW c, c \notin {"id", "ethereum_address"}
    PROVE  /\ \A t : Sound(AddNotNull(d, c, t), A)
           /\ \A t, v, w : Sound(AddByAddress(d, c, t, v, w), A)
           /\ \A os : Sound(DropWith(d, c, os), A)
<1>1. \A t : Sound(AddNotNull(d, c, t), A)
  BY SoundAdd, SoundUpdate, SoundAlter DEF AddNotNull
<1>2. \A t, v, w : Sound(AddByAddress(d, c, t, v, w), A)
  BY SoundAdd, SoundUpdate, SoundAlter DEF AddByAddress, Fill
<1>3. ASSUME NEW os PROVE Sound(DropWith(d, c, os), A)
  <2> DEFINE e == DropColumn(d, c)
             f == [e EXCEPT !.objs = @ \ os]
  <2>1. Sound(e, A)
    BY SoundDrop
  <2> HIDE DEF e
  <2>2. IsDb(f) /\ (f.ok => e.ok) /\ f.rows = e.rows /\ f.cols = e.cols
    BY <2>1 DEF Sound, IsDb
  <2> HIDE DEF f
  <2>3. Sound(f, A)
    BY <2>1, <2>2, SoundSchema
  <2> QED
    BY <2>3 DEF DropWith, e, f
<1> QED
  BY <1>1, <1>2, <1>3

\* CREATE TABLE users succeeds only where there is no table, so no users.
LEMMA SoundCreate ==
    ASSUME NEW d, NEW A, Sound(d, A)
    PROVE  Sound(create_user_table(d), A)
<1> DEFINE e == create_user_table(d)
<1>1. IsDb(e) /\ (e.ok => d.ok /\ d.cols = NoTable /\ e.rows = d.rows)
  BY DEF Sound, IsDb, create_user_table, Stmt
<1>2. e.ok => DOMAIN e.cols = {"id", "email_address", "email_confirmed",
                "email_confirmation_sent", "email_confirmation_key", "created_at"}
  BY DEF Sound, IsDb, create_user_table, Stmt
<1>3. DOMAIN NoTable = {}
  BY DEF NoTable
<1> HIDE DEF e
<1>4. Sound(e, A)
  BY <1>1, <1>2, <1>3 DEF Sound
<1> QED
  BY <1>4 DEF e

\* File 4 succeeds only where there is no address, and adds none.
LEMMA SoundAddAddress ==
    ASSUME NEW d, NEW A, Sound(d, A)
    PROVE  Sound(add_ethereum_address(d), A)
<1> DEFINE eth == "ethereum_address"
           e == add_ethereum_address(d)
           k == [type |-> "CHAR", null |-> TRUE]
<1>1. IsDb(e) /\ (e.ok => d.ok)
  BY DEF Sound, IsDb, add_ethereum_address, AddColumn, Stmt
<1>2. ASSUME e.ok
      PROVE  /\ eth \notin DOMAIN d.cols /\ e.cols = Put(d.cols, eth, k)
             /\ e.rows = [p \in DOMAIN d.rows |-> Put(d.rows[p], eth, Null)]
  BY <1>2 DEF Sound, IsDb, add_ethereum_address, AddColumn, Stmt, Has
<1>3. IsColumn(k)
  BY DEF IsColumn
<1> HIDE DEF e, k
<1>4. ASSUME e.ok
      PROVE  /\ A = {} /\ DOMAIN e.rows = DOMAIN d.rows /\ eth \in DOMAIN e.cols
             /\ "id" \in DOMAIN e.cols <=> "id" \in DOMAIN d.cols
             /\ IsColumn(e.cols[eth])
  BY <1>1, <1>2, <1>3, <1>4 DEF Sound, Put
<1>5. ASSUME e.ok, NEW p \in DOMAIN e.rows
      PROVE  DOMAIN e.rows[p] = DOMAIN e.cols /\ e.rows[p][eth] = Null
  <2>1. DOMAIN d.rows[p] = DOMAIN d.cols /\ e.rows[p] = Put(d.rows[p], eth, Null)
    BY <1>1, <1>2, <1>5 DEF Sound
  <2> QED
    BY <1>2, <1>5, <2>1 DEF Put
<1>6. \A p, t : Address(t, p \in {}) = Null
  BY DEF Address
<1>7. Sound(e, A)
  BY <1>1, <1>4, <1>5, <1>6 DEF Sound
<1> QED
  BY <1>7 DEF e

\* File 20 either fails or turns every address into bytes and none into NULL: it copies
\* them before it clears them, and decodes the copy of text addresses only.
LEMMA SoundConvert ==
    ASSUME NEW d, NEW A, Sound(d, A)
    PROVE  Sound(make_eth_addr_byte_arr(d), A)
<1> DEFINE eth == "ethereum_address"
           c == copy_eth_addr(d)
           a == AlterType(c, eth, "BYTEA")
           n == Update(a, eth, All(c, Null))
           u == Update(n, eth, Decoded(n))
           s == Stmt(n, n.ethType # "BYTEA", u)
           o == DropObj(s, "users_eth")
           r == DropCopy(s)
<1>1. IsDb(d)
  BY DEF Sound
<1>2. /\ IsDb(c)
      /\ c.ok => /\ d.ok /\ eth \in DOMAIN d.cols /\ c.cols = d.cols /\ c.rows = d.rows
                 /\ c.eth = [p \in DOMAIN d.rows |-> d.rows[p][eth]]
                 /\ c.ethType = d.cols[eth].type
  BY <1>1 DEF IsDb, copy_eth_addr, Stmt, Has
<1>3. /\ make_eth_addr_byte_arr(d) = r
      /\ r = [o EXCEPT !.eth = Nothing.eth, !.ethType = Nothing.ethType]
  BY DEF make_eth_addr_byte_arr, decode_eth_addr, null_eth_addr, DropCopy
<1> HIDE DEF c
<1>4. /\ IsDb(a)
      /\ a.ok => /\ c.ok /\ a.cols = [c.cols EXCEPT ![eth].type = "BYTEA"]
                 /\ a.rows = c.rows /\ a.eth = c.eth /\ a.ethType = c.ethType
  BY <1>2 DEF IsDb, AlterType, Stmt
<1> HIDE DEF a
<1>5. /\ IsDb(n)
      /\ n.ok => /\ a.ok /\ n.cols = a.cols /\ n.eth = a.eth /\ n.ethType = a.ethType
                 /\ n.rows = [p \in DOMAIN a.rows |->
                                [a.rows[p] EXCEPT ![eth] = All(c, Null)[p]]]
  BY <1>4 DEF IsDb, Update, Stmt
<1> HIDE DEF n
<1>6. /\ IsDb(u)
      /\ u.ok => /\ n.ok /\ u.cols = n.cols
                 /\ u.rows = [p \in DOMAIN n.rows |->
                                [n.rows[p] EXCEPT ![eth] = Decoded(n)[p]]]
  BY <1>5 DEF IsDb, Update, Stmt
<1> HIDE DEF u
<1>7. IsDb(s) /\ (s.ok => n.ok /\ n.ethType # "BYTEA" /\ s = u)
  BY <1>5, <1>6 DEF IsDb, Stmt
<1> HIDE DEF s
<1>8. IsDb(o) /\ (o.ok => s.ok /\ o.cols = s.cols /\ o.rows = s.rows)
  BY <1>7 DEF IsDb, DropObj, Stmt
<1> HIDE DEF o, r
<1>9. IsDb(r)
  <2>1. IsDb([o EXCEPT !.eth = Nothing.eth, !.ethType = Nothing.ethType])
    BY <1>8, TwoFields
  <2> QED
    BY <1>3, <2>1
<1>10. (r.ok => o.ok) /\ r.cols = o.cols /\ r.rows = o.rows
  BY <1>3, <1>8 DEF IsDb
<1> SUFFICES ASSUME r.ok PROVE Sound(r, A)
  BY <1>3, <1>9 DEF Sound
<1>11. /\ r.cols = [d.cols EXCEPT ![eth].type = "BYTEA"] /\ r.rows = u.rows
       /\ c.ok /\ d.ok /\ n.ok /\ u.ok /\ a.ok /\ eth \in DOMAIN d.cols
       /\ d.cols[eth].type # "BYTEA"
  <2>1. o.ok /\ s.ok /\ s = u /\ n.ok /\ n.ethType # "BYTEA"
    BY <1>7, <1>8, <1>10
  <2>2. u.ok /\ a.ok /\ c.ok /\ d.ok /\ eth \in DOMAIN d.cols
    BY <1>2, <1>4, <1>5, <2>1
  <2>3. r.rows = u.rows /\ r.cols = u.cols
    BY <1>8, <1>10, <2>1
  <2>4. u.cols = [d.cols EXCEPT ![eth].type = "BYTEA"]
    BY <1>2, <1>4, <1>5, <1>6, <2>1, <2>2
  <2>5. d.cols[eth].type # "BYTEA"
    BY <1>2, <1>4, <1>5, <2>1, <2>2
  <2> QED
    BY <2>1, <2>2, <2>3, <2>4, <2>5
<1>12. /\ DOMAIN r.cols = DOMAIN d.cols /\ IsColumn(r.cols[eth])
       /\ r.cols[eth].type = "BYTEA"
  BY <1>11 DEF Sound, IsColumn
<1>13. DOMAIN n.rows = DOMAIN d.rows /\ DOMAIN r.rows = DOMAIN d.rows
  BY <1>2, <1>4, <1>5, <1>6, <1>11
<1>14. ASSUME NEW p \in DOMAIN d.rows
       PROVE  DOMAIN r.rows[p] = DOMAIN r.cols /\ r.rows[p][eth] = Address("BYTEA", p \in A)
  <2>1. DOMAIN d.rows[p] = DOMAIN d.cols /\ d.rows[p][eth] = Address(d.cols[eth].type, p \in A)
    BY <1>11 DEF Sound
  <2>2. n.rows[p] = [d.rows[p] EXCEPT ![eth] = Null]
    BY <1>2, <1>4, <1>5, <1>11 DEF All
  <2>3. DOMAIN n.rows[p] = DOMAIN d.cols /\ n.rows[p][eth] = Null
    BY <1>11, <2>1, <2>2
  <2>4. Decoded(n)[p] = IF d.rows[p][eth] = "text" THEN "bytes" ELSE Null
    <3>1. p \in DOMAIN n.eth /\ n.eth[p] = d.rows[p][eth]
      BY <1>2, <1>4, <1>5, <1>11
    <3> QED
      BY <1>13, <2>3, <3>1 DEF Decoded
  <2>5. r.rows[p] = [n.rows[p] EXCEPT ![eth] = Decoded(n)[p]]
    BY <1>6, <1>11, <1>13
  <2>6. DOMAIN r.rows[p] = DOMAIN r.cols /\ r.rows[p][eth] = Decoded(n)[p]
    BY <1>11, <1>12, <2>3, <2>5
  <2>7. Decoded(n)[p] = Address("BYTEA", p \in A)
    BY <1>11, <2>1, <2>4 DEF Address, Null
  <2> QED
    BY <2>6, <2>7
<1> QED
  BY <1>9, <1>11, <1>12, <1>13, <1>14 DEF Sound

\* Every file, on every table it does not fail on, keeps the addresses.
LEMMA SoundUp ==
    ASSUME NEW d, NEW A, Sound(d, A), NEW v \in 1 .. Last
    PROVE  Sound(Up(v, d), A)
<1>1. Sound(create_schema(d), A)
  BY DEF create_schema
<1>2. Sound(create_user_table(d), A)
  BY SoundCreate
<1>3. Sound(add_country_code(d), A)
  BY SoundAdd DEF add_country_code
<1>4. Sound(add_ethereum_address(d), A)
  BY SoundAddAddress
<1>5. Sound(add_referral_code(d), A)
  BY SoundComposed DEF add_referral_code
<1>6. Sound(rename_email_confirmation_sent(d), A)
  <2> DEFINE old == "email_confirmation_sent"
  <2>1. Sound(Stmt(d, Has(d, old), d), A)
    BY DEF Sound, IsDb, Stmt
  <2> QED
    BY <2>1, SoundAdd, SoundDrop DEF rename_email_confirmation_sent
<1>7. Sound(trim_referral_codes(d), A)
  BY SoundAlter DEF trim_referral_codes
<1>8. Sound(add_tos_agreement_timestamp(d), A)
  BY SoundAdd, SoundUpdate DEF add_tos_agreement_timestamp
<1>9. Sound(make_referral_unique(d), A)
  BY SoundObjs DEF make_referral_unique
<1>10. Sound(add_referrer_id(d), A)
  BY SoundAdd, SoundObjs DEF add_referrer_id
<1>11. Sound(referral_table(d), A)
  BY SoundObjs DEF referral_table
<1>12. Sound(user_auth_provider_id(d), A)
  BY SoundComposed DEF user_auth_provider_id
<1>13. Sound(wallet_confirmation(d), A)
  BY SoundAdd, SoundComposed DEF wallet_confirmation
<1>14. Sound(null_deleted_referrer(d), A)
  BY SoundObjs DEF null_deleted_referrer
<1>15. Sound(add_in_app_wallet_flag(d), A)
  BY SoundComposed DEF add_in_app_wallet_flag
<1>16. Sound(remove_old_referral_relations(d), A)
  BY SoundObjs, SoundComposed DEF remove_old_referral_relations
<1>17. Sound(create_referral_code(d), A)
  BY SoundAdd, SoundObjs DEF create_referral_code
<1>18. Sound(alter_referral_code(d), A)
  BY SoundAlter DEF alter_referral_code
<1>19. Sound(referral_date(d), A)
  BY SoundAdd, SoundDrop, SoundObjs DEF referral_date
<1>20. Sound(make_eth_addr_byte_arr(d), A)
  BY SoundConvert
<1>21. Sound(add_addr_index(d), A)
  BY SoundObjs DEF add_addr_index
<1>22. Sound(add_migrated_at(d), A)
  BY SoundAdd DEF add_migrated_at
<1> QED
  BY <1>1, <1>2, <1>3, <1>4, <1>5, <1>6, <1>7, <1>8, <1>9, <1>10, <1>11, <1>12, <1>13,
     <1>14, <1>15, <1>16, <1>17, <1>18, <1>19, <1>20, <1>21, <1>22 DEF Up, Last

-----------------------------------------------------------------------------
(* What the files that are run rely on.                                    *)

\* What the start of the pods relies on, in the schema d of version v.
Startable(v, d) ==
    /\ IsDb(d) /\ d.ok
    /\ v >= 2 => "id" \in DOMAIN d.cols
    /\ v >= 4 => /\ "ethereum_address" \in DOMAIN d.cols
                 /\ IsColumn(d.cols["ethereum_address"])
                 /\ d.cols["ethereum_address"].null = TRUE
    /\ v < 4 => "ethereum_address" \notin DOMAIN d.cols

\* No version is a failed transaction, and from 4 on there are addresses.
LEMMA SchemaFacts ==
    ASSUME NEW v \in 0 .. Last
    PROVE  Startable(v, SchemaAt[v])
<1> USE DEF Last
<1>1. CASE v \in {0, 1}
  <2>1. SchemaAt[v] = Nothing
    BY <1>1, SchemaIs DEF Up, create_schema
  <2> QED
    BY <1>1, <2>1 DEF Startable, Nothing, NoTable, IsDb
<1>2. ASSUME NEW D, NEW O, NEW T, Shape(SchemaAt[v], D, O, T), "id" \in D, v >= 2,
             v >= 4 <=> "ethereum_address" \in D
      PROVE  Startable(v, SchemaAt[v])
  BY <1>2 DEF Startable, Shape, Bare
<1>3. /\ "id" \in Cols2 /\ "ethereum_address" \notin Cols2
      /\ "id" \in Cols3 /\ "ethereum_address" \notin Cols3
      /\ \A D \in {Cols4, Cols5, Cols6, Cols8, Cols10, Cols12, Cols13, Cols15, Cols16, Cols17,
                    Cols19, Cols22} : "id" \in D /\ "ethereum_address" \in D
  BY DEF Cols2, Cols3, Cols4, Cols5, Cols6, Cols8, Cols10, Cols12, Cols13, Cols15, Cols16,
         Cols17, Cols19, Cols22
<1>4. CASE v \in 2 .. 3
  BY <1>2, <1>3, <1>4, Shape15
<1>5. CASE v \in 4 .. 8
  BY <1>2, <1>3, <1>5, Shape15
<1>6. CASE v \in 9 .. 15
  BY <1>2, <1>3, <1>6, Shape15
<1>7. CASE v \in 16 .. 18
  BY <1>2, <1>3, <1>7, Shape18
<1>8. CASE v \in 19 .. 22
  BY <1>2, <1>3, <1>8, Shape22
<1> QED
  BY <1>1, <1>4, <1>5, <1>6, <1>7, <1>8

\* What makes a file past 16 fail, or do nothing, where it is already applied.
LEMMA RecentFacts ==
    ASSUME NEW n \in 16 .. Last
    PROVE  LET d == SchemaAt[n] IN
           /\ n >= 17 => "referral_code" \in DOMAIN d.cols
           /\ n >= 19 => "referred_by" \notin DOMAIN d.cols
           /\ n >= 20 => d.cols["ethereum_address"].type = "BYTEA"
           /\ n >= 21 => "users_ethereum_address_idx" \in d.objs
           /\ n = 22 => "migrated_at" \in DOMAIN d.cols
<1> USE DEF Last
<1>1. /\ "referral_code" \in Cols17 /\ "referral_code" \in Cols19 /\ "referral_code" \in Cols22
      /\ "referred_by" \notin Cols19 /\ "referred_by" \notin Cols22
      /\ "migrated_at" \in Cols22
      /\ "ethereum_address" \in Cols19 /\ "ethereum_address" \in Cols22
  BY DEF Cols2, Cols3, Cols4, Cols5, Cols6, Cols8, Cols10, Cols12, Cols13, Cols15, Cols16,
         Cols17, Cols19, Cols22
<1>2. \A d, D, O, T : Shape(d, D, O, T) => DOMAIN d.cols = D /\ d.objs = O
  BY DEF Shape, Bare
<1>3. ASSUME NEW d, NEW D, NEW O, Shape(d, D, O, {}), "ethereum_address" \in D
      PROVE  d.cols["ethereum_address"].type = "BYTEA"
  BY <1>3 DEF Shape, Fit, ModelColumns
<1>4. CASE n = 16
  BY <1>4
<1>5. CASE n \in 17 .. 18
  BY <1>1, <1>2, <1>5, Shape18
<1>6. CASE n = 19
  BY <1>1, <1>2, <1>6, Shape22
<1>7. CASE n = 20
  BY <1>1, <1>2, <1>3, <1>7, Shape22
<1>8. CASE n = 21
  BY <1>1, <1>2, <1>3, <1>8, Shape22
<1>9. CASE n = 22
  BY <1>1, <1>2, <1>3, <1>9, Shape22
<1> QED
  BY <1>4, <1>5, <1>6, <1>7, <1>8, <1>9

\* A file past 16 that a slower runner applies again fails or changes nothing.
LEMMA Repeated ==
    ASSUME NEW d, NEW n \in 16 .. Last, NEW m \in 17 .. n, Agree(d, SchemaAt[n]),
           Up(m, d).ok
    PROVE  Agree(Up(m, d), SchemaAt[n])
<1> USE DEF Last
<1> DEFINE e == SchemaAt[n]
<1>1. e.ok /\ IsDb(d) /\ IsDb(e)
  <2>1. n \in 0 .. Last
    OBVIOUS
  <2>2. Startable(n, e)
    BY <2>1, SchemaFacts
  <2> QED
    BY <2>2 DEF Agree, Startable
<1>2. /\ n >= 17 => "referral_code" \in DOMAIN e.cols
      /\ n >= 19 => "referred_by" \notin DOMAIN e.cols
      /\ n >= 20 => e.cols["ethereum_address"].type = "BYTEA"
      /\ n >= 21 => "users_ethereum_address_idx" \in e.objs
      /\ n = 22 => "migrated_at" \in DOMAIN e.cols
  BY RecentFacts
<1>3. /\ \A x, c, t : IsDb(x) => IsDb(AddColumn(x, c, t))
                        /\ (AddColumn(x, c, t).ok => x.ok /\ c \notin DOMAIN x.cols)
      /\ \A x, c : IsDb(x) => IsDb(DropColumn(x, c))
                        /\ (DropColumn(x, c).ok => x.ok /\ c \in DOMAIN x.cols)
      /\ \A x, c, o : IsDb(x) /\ AddOn(x, c, o).ok => x.ok /\ o \notin x.objs
  <2>1. ASSUME NEW x, NEW c, NEW t, IsDb(x)
        PROVE  IsDb(AddColumn(x, c, t))
               /\ (AddColumn(x, c, t).ok => x.ok /\ c \notin DOMAIN x.cols)
    BY <2>1 DEF IsDb, AddColumn, Stmt, Has
  <2>2. ASSUME NEW x, NEW c, IsDb(x)
        PROVE  IsDb(DropColumn(x, c)) /\ (DropColumn(x, c).ok => x.ok /\ c \in DOMAIN x.cols)
    BY <2>2 DEF IsDb, DropColumn, Stmt, Has
  <2>3. ASSUME NEW x, NEW c, NEW o, IsDb(x), AddOn(x, c, o).ok PROVE x.ok /\ o \notin x.objs
    BY <2>3 DEF IsDb, AddOn, AddObj, Stmt
  <2> QED
    BY <2>1, <2>2, <2>3
<1> HIDE DEF e
<1>4. CASE m = 17
  <2>1. Up(m, d) = create_referral_code(d)
    BY <1>4 DEF Up
  <2>2. d.ok /\ "referral_code" \notin DOMAIN d.cols
    BY <1>1, <1>3, <2>1 DEF create_referral_code
  <2> QED
    BY <1>1, <1>2, <1>4, <2>2 DEF Agree, e
<1>5. CASE m = 18
  <2> DEFINE f == AlterType(d, "referral_code", "VARCHAR")
             g == AlterType(f, "referred_by", "VARCHAR")
  <2>1. Up(m, d) = g
    BY <1>5 DEF Up, alter_referral_code
  <2>2. IsDb(f) /\ (f.ok => d.ok /\ f.cols = [d.cols EXCEPT !["referral_code"].type = "VARCHAR"]
                            /\ f.objs = d.objs /\ f.ethType = d.ethType)
    BY <1>1 DEF IsDb, AlterType, Stmt
  <2> HIDE DEF f
  <2>3. IsDb(g) /\ (g.ok => f.ok /\ g.cols = [f.cols EXCEPT !["referred_by"].type = "VARCHAR"]
                            /\ "referred_by" \in DOMAIN f.cols
                            /\ g.objs = f.objs /\ g.ethType = f.ethType)
    BY <2>2 DEF IsDb, AlterType, Stmt, Has
  <2> HIDE DEF g
  <2>4. d.ok /\ "referred_by" \in DOMAIN d.cols
    BY <2>1, <2>2, <2>3
  <2>5. n = 18
    BY <1>1, <1>2, <1>5, <2>4 DEF Agree, e
  <2>6. g.cols = d.cols
    <3>1. d.cols = SchemaAt[18].cols
      BY <1>1, <2>4, <2>5 DEF Agree, e
    <3>2. /\ d.cols["referral_code"].type = "VARCHAR" /\ d.cols["referred_by"].type = "VARCHAR"
          /\ d.cols = [c \in DOMAIN d.cols |-> d.cols[c]]
          /\ \A c \in DOMAIN d.cols : IsColumn(d.cols[c])
      BY <3>1, Shape18 DEF Shape
    <3>3. \A c \in DOMAIN d.cols : IsColumn(d.cols[c]) /\ d.cols[c].type = "VARCHAR"
                => [d.cols EXCEPT ![c].type = "VARCHAR"] = d.cols
      BY <3>2 DEF IsColumn
    <3>4. "referral_code" \in DOMAIN d.cols /\ "referred_by" \in DOMAIN d.cols
      BY <1>1, <1>2, <2>4, <2>5 DEF Agree, e
    <3> QED
      BY <2>1, <2>2, <2>3, <3>2, <3>3, <3>4
  <2> QED
    BY <1>1, <2>1, <2>2, <2>3, <2>6 DEF Agree, e
<1>6. CASE m = 19
  <2>1. Up(m, d) = referral_date(d)
    BY <1>6 DEF Up
  <2>2. d.ok /\ "referred_by" \in DOMAIN d.cols
    BY <1>1, <1>3, <2>1 DEF referral_date
  <2> QED
    BY <1>1, <1>2, <1>6, <2>2 DEF Agree, e
<1>7. CASE m = 20
  <2> DEFINE eth == "ethereum_address"
             c == copy_eth_addr(d)
             a == AlterType(c, eth, "BYTEA")
             u == Update(a, eth, All(c, Null))
             w == Update(u, eth, Decoded(u))
             s == Stmt(u, u.ethType # "BYTEA", w)
             o == DropObj(s, "users_eth")
  <2>1. Up(m, d) = [o EXCEPT !.eth = Nothing.eth, !.ethType = Nothing.ethType]
    BY <1>7 DEF Up, make_eth_addr_byte_arr, null_eth_addr, decode_eth_addr, DropCopy
  <2>2. IsDb(c) /\ (c.ok => d.ok /\ c.ethType = d.cols[eth].type)
    BY <1>1 DEF IsDb, copy_eth_addr, Stmt
  <2> HIDE DEF c
  <2>3. IsDb(a) /\ (a.ok => c.ok /\ a.ethType = c.ethType)
    BY <2>2 DEF IsDb, AlterType, Stmt
  <2> HIDE DEF a
  <2>4. IsDb(u) /\ (u.ok => a.ok /\ u.ethType = a.ethType)
    BY <2>3 DEF IsDb, Update, Stmt
  <2> HIDE DEF u
  <2>5. IsDb(w)
    BY <2>4 DEF IsDb, Update, Stmt
  <2> HIDE DEF w
  <2>6. IsDb(s) /\ (s.ok => u.ok /\ u.ethType # "BYTEA")
    BY <2>4, <2>5 DEF IsDb, Stmt
  <2> HIDE DEF s
  <2>7. IsDb(o) /\ (o.ok => s.ok)
    BY <2>6 DEF IsDb, DropObj, Stmt
  <2> HIDE DEF o
  <2>8. o.ok
    BY <2>1, <2>7 DEF IsDb
  <2>9. d.ok /\ d.cols[eth].type # "BYTEA"
    BY <2>2, <2>3, <2>4, <2>6, <2>7, <2>8
  <2> QED
    BY <1>1, <1>2, <1>7, <2>9 DEF Agree, e
<1>8. CASE m = 21
  <2>1. Up(m, d) = AddOn(d, "ethereum_address", "users_ethereum_address_idx")
    BY <1>8 DEF Up, add_addr_index
  <2>2. d.ok /\ "users_ethereum_address_idx" \notin d.objs
    BY <1>1, <1>3, <2>1
  <2> QED
    BY <1>1, <1>2, <1>8, <2>2 DEF Agree, e
<1>9. CASE m = 22
  <2>1. Up(m, d) = AddColumn(d, "migrated_at", "TIMESTAMPTZ")
    BY <1>9 DEF Up, add_migrated_at
  <2>2. d.ok /\ "migrated_at" \notin DOMAIN d.cols
    BY <1>1, <1>3, <2>1
  <2> QED
    BY <1>1, <1>2, <1>9, <2>2 DEF Agree, e
<1> QED
  BY <1>4, <1>5, <1>6, <1>7, <1>8, <1>9

\* The table after the last file is the table of models.User.
LEMMA LastServes ==
    LET cols == SchemaAt[Last].cols IN
    /\ DOMAIN cols = DOMAIN ModelColumns
    /\ \A c \in DOMAIN cols : /\ cols[c].type \in ModelColumns[c].types
                              /\ cols[c].null = ModelColumns[c].null
<1> DEFINE cols == SchemaAt[22].cols
<1>1. DOMAIN cols = Cols22 /\ \A c \in Cols22 : Fit(c, cols[c])
  BY Shape22 DEF Shape
<1>2. Cols22 = DOMAIN ModelColumns
  BY DEF Cols2, Cols3, Cols4, Cols5, Cols6, Cols8, Cols10, Cols12, Cols13, Cols15, Cols16,
         Cols17, Cols19, Cols22, ModelColumns
<1> QED
  BY <1>1, <1>2 DEF Fit, Last

-----------------------------------------------------------------------------
(* The runners.                                                            *)

\* The runner has begun the transaction of file 20.
In20(r) == pc[r] \in {"selecting", "copied", "altered"}

\* The runner is in its plan.
Active(r) == pc[r] = "run" \/ In20(r)

\* The recorded versions have no gap; a runner is at most one file ahead of them.
Counts ==
    /\ Applied \in 0 .. Last /\ versions = 1 .. Applied
    /\ \A r \in Runner : /\ Active(r) => next[r] \in 1 .. Last /\ next[r] =< Applied + 1
                         /\ In20(r) => next[r] = 20
                         /\ pc[r] = "done" => Applied = Last

\* Inside file 20 a runner holds what its statements make of the committed database,
\* which nobody else can change.
Locks ==
    /\ DOMAIN tx = Runner
    /\ \A r \in Runner :
         /\ pc[r] = "copied" => tx[r] = copy_eth_addr(db)
         /\ pc[r] = "altered" => tx[r] = null_eth_addr(copy_eth_addr(db))
         /\ \A s \in Runner \ {r} :
              /\ pc[r] = "altered" => ~In20(s)
              /\ pc[r] = "copied" => pc[s] # "copied"

\* The invariant of the runners, whatever the files do.
RunInv == TypeOK /\ Counts /\ Locks

\* The highest of the versions 1 .. n is n.
LEMMA AppliedIs ==
    ASSUME NEW n \in Nat, versions = 1 .. n
    PROVE  Applied = n
<1>1. CASE n = 0
  BY <1>1 DEF Applied
<1>2. CASE n # 0
  <2>1. n \in versions /\ \A w \in versions : w =< n
    BY <1>2
  <2>2. ASSUME NEW v \in versions, \A w \in versions : w =< v PROVE v = n
    BY <2>1, <2>2
  <2> QED
    BY <2>1, <2>2 DEF Applied
<1> QED
  BY <1>1, <1>2

\* The same after a step.
LEMMA AppliedNext ==
    ASSUME NEW n \in Nat, versions' = 1 .. n
    PROVE  Applied' = n
<1>1. CASE n = 0
  BY <1>1 DEF Applied
<1>2. CASE n # 0
  <2>1. n \in versions' /\ \A w \in versions' : w =< n
    BY <1>2
  <2>2. ASSUME NEW v \in versions', \A w \in versions' : w =< v PROVE v = n
    BY <2>1, <2>2
  <2> QED
    BY <2>1, <2>2 DEF Applied
<1> QED
  BY <1>1, <1>2

\* A step of r that commits nothing.
Local(r) == /\ UNCHANGED <<db, versions, had>>
            /\ \A s \in Runner \ {r} : pc'[s] = pc[s] /\ next'[s] = next[s] /\ tx'[s] = tx[s]

\* A step of r that commits its file.
Commits(r) == /\ Active(r) /\ Up(next[r], db).ok /\ Commit(r, Up(next[r], db))
              /\ next[r] = 1 \/ NoLock(r)

\* Every step of a runner commits its file as a whole, or commits nothing.  A file 20
\* that is committed is the file applied to the database as it is at that moment.
LEMMA StepKind ==
    ASSUME RunInv, NEW r \in Runner, Step(r) \/ Crash(r)
    PROVE  \/ Commits(r)
           \/ Connect(r) \/ Plan(r) \/ Select(r) \/ AlterAddress(r)
           \/ CopyAddresses(r) \/ Fail(r) \/ Crash(r)
<1>1. CASE RunFile(r)
  BY <1>1 DEF RunFile, Commits, Active
<1>2. CASE DecodeAddresses(r)
  <2>1. CASE Fail(r)
    BY <2>1
  <2>2. CASE decode_eth_addr(tx[r]).ok /\ Commit(r, decode_eth_addr(tx[r]))
    <3>1. pc[r] = "altered" /\ In20(r) /\ next[r] = 20
      BY <1>2 DEF DecodeAddresses, In20, RunInv, Counts
    <3>2. tx[r] = null_eth_addr(copy_eth_addr(db)) /\ NoLock(r)
      BY <3>1 DEF RunInv, Locks, In20, NoLock
    <3>3. decode_eth_addr(tx[r]) = Up(next[r], db)
      BY <3>1, <3>2 DEF Up, make_eth_addr_byte_arr
    <3> QED
      BY <2>2, <3>1, <3>2, <3>3 DEF Commits, Active
  <2> QED
    BY <1>2, <2>1, <2>2 DEF DecodeAddresses
<1>3. CASE Deadlock(r)
  BY <1>3 DEF Deadlock
<1> QED
  BY <1>1, <1>2, <1>3 DEF Step

\* A step that commits nothing changes only the runner's own state.
LEMMA Stays ==
    ASSUME RunInv, NEW r \in Runner,
           \/ Connect(r) \/ Plan(r) \/ Select(r) \/ AlterAddress(r)
           \/ CopyAddresses(r) \/ Fail(r) \/ Crash(r)
    PROVE  Local(r)
<1> USE DEF Local, RunInv, TypeOK, Locks
<1>1. CASE Connect(r)
  BY <1>1 DEF Connect
<1>2. CASE Plan(r)
  BY <1>2 DEF Plan
<1>3. CASE Select(r)
  BY <1>3 DEF Select
<1>4. CASE AlterAddress(r)
  BY <1>4 DEF AlterAddress
<1>5. CASE CopyAddresses(r)
  BY <1>5 DEF CopyAddresses, Fail, Exit
<1>6. CASE Fail(r) \/ Crash(r)
  BY <1>6 DEF Fail, Crash, Exit
<1> QED
  BY <1>1, <1>2, <1>3, <1>4, <1>5, <1>6

\* A step that commits nothing leaves the runner at most one file ahead.
LEMMA LocalCounts ==
    ASSUME RunInv, NEW r \in Runner,
           \/ Connect(r) \/ Plan(r) \/ Select(r) \/ AlterAddress(r)
           \/ CopyAddresses(r) \/ Fail(r) \/ Crash(r)
    PROVE  TypeOK' /\ Counts'
<1> USE DEF Last
<1>1. Local(r)
  BY Stays
<1>2. Applied' = Applied /\ versions' = versions /\ db' = db
  BY <1>1 DEF Local, Applied
<1>3. ASSUME NEW pr, NEW nr,
             pc' = [pc EXCEPT ![r] = pr], next' = [next EXCEPT ![r] = nr],
             pr \in {"connect", "plan", "run", "selecting", "copied", "altered", "done",
                     "none"},
             nr \in 0 .. Last + 1, crashes' \in 0 .. MaxCrashes,
             pr \in {"run", "selecting", "copied", "altered"} =>
                nr \in 1 .. Last /\ nr =< Applied + 1,
             pr \in {"selecting", "copied", "altered"} => nr = 20,
             pr = "done" => Applied = Last
      PROVE  TypeOK' /\ Counts'
  <2>1. TypeOK'
    BY <1>2, <1>3 DEF RunInv, TypeOK
  <2>2. ASSUME NEW s \in Runner
        PROVE  (/\ Active(s) => next[s] \in 1 .. Last /\ next[s] =< Applied + 1
                /\ In20(s) => next[s] = 20
                /\ pc[s] = "done" => Applied = Last)'
    <3>1. CASE s = r
      <4>1. pc'[s] = pr /\ next'[s] = nr
        BY <1>3, <3>1 DEF RunInv, TypeOK
      <4> QED
        BY <1>2, <1>3, <4>1 DEF Active, In20
    <3>2. CASE s # r
      <4>1. pc'[s] = pc[s] /\ next'[s] = next[s]
        BY <1>1, <3>2 DEF Local
      <4> QED
        BY <1>2, <4>1 DEF RunInv, Counts, Active, In20
    <3> QED
      BY <3>1, <3>2
  <2> QED
    BY <1>2, <2>1, <2>2 DEF RunInv, Counts
<1>4. /\ pc \in [Runner -> {"connect", "plan", "run", "selecting", "copied",
                            "altered", "done", "none"}]
      /\ next \in [Runner -> 0 .. Last + 1] /\ next = [next EXCEPT ![r] = next[r]]
      /\ Applied \in 0 .. Last /\ crashes \in 0 .. MaxCrashes /\ MaxCrashes \in Nat
      /\ next[r] \in 0 .. Last + 1
  BY MigrationsAssumption DEF RunInv, TypeOK, Counts
<1>5. CASE Connect(r)
  BY <1>3, <1>4, <1>5 DEF Connect
<1>6. CASE Plan(r)
  <2> DEFINE a == Applied + 1
  <2>1. /\ a \in 0 .. Last + 1 /\ a =< Applied + 1
        /\ Applied < Last => a \in 1 .. Last
        /\ ~(Applied < Last) => Applied = Last
    BY <1>4
  <2>2. /\ pc' = [pc EXCEPT ![r] = IF Applied < Last THEN "run" ELSE "done"]
        /\ next' = [next EXCEPT ![r] = a] /\ crashes' \in 0 .. MaxCrashes
    BY <1>4, <1>6 DEF Plan
  <2> HIDE DEF a
  <2>3. CASE Applied < Last
    <3>1. pc' = [pc EXCEPT ![r] = "run"]
      BY <2>2, <2>3
    <3> QED
      BY <1>3, <2>1, <2>2, <2>3, <3>1
  <2>4. CASE ~(Applied < Last)
    <3>1. pc' = [pc EXCEPT ![r] = "done"]
      BY <2>2, <2>4
    <3> QED
      BY <1>3, <2>1, <2>2, <2>4, <3>1
  <2> QED
    BY <2>3, <2>4
<1>7. CASE Select(r)
  BY <1>3, <1>4, <1>7 DEF Select, RunInv, Counts, Active
<1>8. CASE AlterAddress(r)
  BY <1>3, <1>4, <1>8 DEF AlterAddress, RunInv, Counts, Active, In20
<1>9. CASE Fail(r) \/ Crash(r)
  BY <1>3, <1>4, <1>9 DEF Fail, Crash, Exit
<1>10. CASE CopyAddresses(r)
  BY <1>3, <1>4, <1>9, <1>10 DEF CopyAddresses, RunInv, Counts, Active, In20
<1> QED
  BY <1>5, <1>6, <1>7, <1>8, <1>9, <1>10

\* A step that commits nothing leaves what the others hold in file 20 as it is.
LEMMA LocalLocks ==
    ASSUME RunInv, NEW r \in Runner,
           \/ Connect(r) \/ Plan(r) \/ Select(r) \/ AlterAddress(r)
           \/ CopyAddresses(r) \/ Fail(r) \/ Crash(r)
    PROVE  Locks'
<1>1. Local(r)
  BY Stays
<1>2. \A s \in Runner \ {r} : /\ pc'[s] = pc[s] /\ tx'[s] = tx[s]
                              /\ In20(s)' = In20(s)
  BY <1>1 DEF Local, In20
<1>3. db' = db
  BY <1>1 DEF Local
<1>4. /\ pc \in [Runner -> {"connect", "plan", "run", "selecting", "copied",
                            "altered", "done", "none"}]
      /\ DOMAIN tx = Runner
  BY DEF RunInv, TypeOK, Locks
<1>5. DOMAIN tx' = Runner
  BY <1>4 DEF Connect, Plan, Select, AlterAddress, CopyAddresses, Fail, Crash, Exit
<1>6. /\ pc'[r] = "copied" => tx'[r] = copy_eth_addr(db)
      /\ pc'[r] = "altered" => tx'[r] = null_eth_addr(copy_eth_addr(db))
      /\ pc'[r] = "altered" => \A s \in Runner \ {r} : ~In20(s)
      /\ pc'[r] = "copied" => \A s \in Runner \ {r} : pc[s] \notin {"copied", "altered"}
      /\ pc'[r] = "selecting" => \A s \in Runner \ {r} : pc[s] # "altered"
  <2>1. CASE Connect(r)
    BY <1>4, <2>1 DEF Connect
  <2>2. CASE Plan(r)
    BY <1>4, <2>2 DEF Plan
  <2>3. CASE Select(r)
    BY <1>4, <2>3 DEF Select
  <2>4. CASE AlterAddress(r)
    BY <1>4, <2>4 DEF AlterAddress, NoLock, In20, RunInv, Locks
  <2>5. CASE Fail(r) \/ Crash(r)
    BY <1>4, <2>5 DEF Fail, Crash, Exit
  <2>6. CASE CopyAddresses(r)
    BY <1>4, <2>5, <2>6 DEF CopyAddresses
  <2> QED
    BY <2>1, <2>2, <2>3, <2>4, <2>5, <2>6
<1>7. ASSUME NEW q \in Runner
      PROVE  (/\ pc[q] = "copied" => tx[q] = copy_eth_addr(db)
              /\ pc[q] = "altered" => tx[q] = null_eth_addr(copy_eth_addr(db)))'
  BY <1>2, <1>3, <1>6 DEF RunInv, Locks
<1>8. ASSUME NEW q \in Runner, NEW s \in Runner \ {q}
      PROVE  (/\ pc[q] = "altered" => ~In20(s)
              /\ pc[q] = "copied" => pc[s] # "copied")'
  <2>1. CASE q = r
    BY <1>2, <1>6, <2>1
  <2>2. CASE q # r /\ s = r
    <3>1. pc[q] = "altered" => pc'[r] \notin {"selecting", "copied", "altered"}
      BY <1>6, <2>2 DEF In20
    <3>2. pc[q] = "copied" => pc'[r] # "copied"
      BY <1>6, <2>2
    <3> QED
      BY <1>2, <2>2, <3>1, <3>2 DEF In20
  <2>3. CASE q # r /\ s # r
    BY <1>2, <2>3 DEF RunInv, Locks
  <2> QED
    BY <2>1, <2>2, <2>3
<1> QED
  BY <1>5, <1>7, <1>8 DEF Locks

\* A commit finds nobody inside file 20 and adds at most the next version.
LEMMA CommitInv ==
    ASSUME RunInv, NEW r \in Runner, Commits(r)
    PROVE  /\ RunInv'
           /\ Applied' = IF next[r] = Applied + 1 THEN Applied + 1 ELSE Applied
<1> USE DEF Last
<1>1. /\ pc \in [Runner -> {"connect", "plan", "run", "selecting", "copied",
                            "altered", "done", "none"}]
      /\ next \in [Runner -> 0 .. Last + 1] /\ DOMAIN tx = Runner
      /\ Applied \in 0 .. Last /\ versions = 1 .. Applied
      /\ next[r] \in 1 .. Last /\ next[r] =< Applied + 1
  BY DEF RunInv, TypeOK, Counts, Locks, Commits
<1> DEFINE n == IF next[r] = Applied + 1 THEN Applied + 1 ELSE Applied
<1>2. n \in 0 .. Last /\ n >= Applied /\ n >= next[r] /\ versions' = 1 .. n
  <2>1. versions' = versions \cup {next[r]}
    BY DEF Commits, Commit
  <2>2. CASE next[r] = Applied + 1
    <3>1. (1 .. Applied) \cup {Applied + 1} = 1 .. (Applied + 1)
      BY <1>1
    <3> QED
      BY <1>1, <2>1, <2>2, <3>1
  <2>3. CASE next[r] # Applied + 1
    <3>1. next[r] \in 1 .. Applied
      BY <1>1, <2>3
    <3>2. (1 .. Applied) \cup {next[r]} = 1 .. Applied
      BY <3>1
    <3> QED
      BY <1>1, <2>1, <2>3, <3>1, <3>2
  <2> QED
    BY <2>2, <2>3
<1>3. Applied' = n
  BY <1>2, AppliedNext
<1> HIDE DEF n
<1>4. /\ pc' = [pc EXCEPT ![r] = IF next[r] < Last THEN "run" ELSE "done"]
      /\ next' = [next EXCEPT ![r] = next[r] + 1] /\ tx' = [tx EXCEPT ![r] = Nothing]
      /\ db' = Up(next[r], db) /\ db'.ok /\ crashes' = crashes
  BY DEF Commits, Commit
<1>5. /\ pc'[r] = (IF next[r] < Last THEN "run" ELSE "done") /\ next'[r] = next[r] + 1
      /\ \A s \in Runner \ {r} : pc'[s] = pc[s] /\ next'[s] = next[s] /\ tx'[s] = tx[s]
      /\ DOMAIN tx' = Runner
  BY <1>1, <1>4
<1>6. TypeOK'
  <2>1. versions' \subseteq 1 .. Last
    BY <1>2
  <2>2. next' \in [Runner -> 0 .. Last + 1]
    <3>1. next[r] + 1 \in 0 .. Last + 1
      <4>1. next[r] \in 1 .. Last
        BY <1>1
      <4> QED
        BY <4>1
    <3> QED
      BY <1>1, <1>4, <3>1
  <2>3. pc' \in [Runner -> {"connect", "plan", "run", "selecting", "copied",
                            "altered", "done", "none"}]
    BY <1>1, <1>4
  <2>4. crashes' \in 0 .. MaxCrashes
    BY <1>4 DEF RunInv, TypeOK
  <2> QED
    BY <1>4, <2>1, <2>2, <2>3, <2>4 DEF TypeOK
<1>7. ASSUME NEW s \in Runner
      PROVE  (/\ Active(s) => next[s] \in 1 .. Last /\ next[s] =< Applied + 1
              /\ In20(s) => next[s] = 20
              /\ pc[s] = "done" => Applied = Last)'
  <2>1. CASE s = r
    <3>1. next[r] < Last => next[r] + 1 \in 1 .. Last /\ next[r] + 1 =< n + 1
      <4>1. next[r] \in 1 .. Last /\ n \in 0 .. Last /\ n >= next[r]
        BY <1>1, <1>2
      <4> QED
        BY <4>1
    <3>2. ~(next[r] < Last) => n = Last
      <4>1. next[r] \in 1 .. Last /\ n \in 0 .. Last /\ n >= next[r]
        BY <1>1, <1>2
      <4> QED
        BY <4>1
    <3> QED
      BY <1>3, <1>5, <2>1, <3>1, <3>2 DEF Active, In20
  <2>2. CASE s # r
    <3>1. /\ Active(s) => next[s] \in 1 .. Last /\ next[s] =< Applied + 1
          /\ In20(s) => next[s] = 20
          /\ pc[s] = "done" => Applied = Last
      BY DEF RunInv, Counts
    <3>2. /\ pc'[s] = pc[s] /\ next'[s] = next[s]
          /\ Active(s)' <=> Active(s)
          /\ In20(s)' <=> In20(s)
      BY <1>5, <2>2 DEF Active, In20
    <3>3. next[s] \in 0 .. Last + 1
      BY <1>1
    <3>4. /\ next[s] =< Applied + 1 => next[s] =< n + 1
          /\ Applied = Last => n = Last
      <4>1. Applied \in 0 .. Last /\ n \in 0 .. Last /\ n >= Applied
        BY <1>1, <1>2
      <4> QED
        BY <3>3, <4>1
    <3> QED
      BY <1>3, <3>1, <3>2, <3>4
  <2> QED
    BY <2>1, <2>2
<1>8. Counts'
  BY <1>2, <1>3, <1>7 DEF Counts
<1>9. db' = db \/ \A s \in Runner \ {r} : ~In20(s)
  <2>1. next[r] = 1 => Up(next[r], db) = db
    BY DEF Up, create_schema
  <2> QED
    BY <1>4, <2>1 DEF Commits, NoLock, In20
<1>10. ASSUME NEW q \in Runner
       PROVE  (/\ pc[q] = "copied" => tx[q] = copy_eth_addr(db)
               /\ pc[q] = "altered" => tx[q] = null_eth_addr(copy_eth_addr(db)))'
  <2>1. CASE q = r
    BY <1>5, <2>1
  <2>2. CASE q # r
    BY <1>5, <1>9, <2>2 DEF RunInv, Locks, In20
  <2> QED
    BY <2>1, <2>2
<1>11. ASSUME NEW q \in Runner, NEW s \in Runner \ {q}
       PROVE  (/\ pc[q] = "altered" => ~In20(s)
               /\ pc[q] = "copied" => pc[s] # "copied")'
  BY <1>5 DEF RunInv, Locks, In20
<1>12. Locks'
  BY <1>5, <1>10, <1>11 DEF Locks
<1> QED
  BY <1>3, <1>6, <1>8, <1>12 DEF RunInv, n

\* At the start nobody is inside a file and the tables are those of the version.
LEMMA InitInv ==
    ASSUME Init
    PROVE  RunInv /\ Sound(db, had) /\ Agree(db, SchemaAt[Applied])
<1> USE DEF Last
<1>1. PICK s \in Start, S \in SUBSET Person :
          /\ s.version < 2 => S = {}
          /\ had \in SUBSET S /\ (s.version < 4 => had = {})
          /\ db = [SchemaAt[s.version] EXCEPT !.rows = RowsAt(s.version, S, had)]
          /\ versions = 1 .. s.version
          /\ pc = [r \in Runner |-> IF r \in s.pods THEN "connect" ELSE "none"]
  BY DEF Init
<1> DEFINE v == s.version
           d == SchemaAt[v]
           eth == "ethereum_address"
<1>2. v \in 0 .. Last /\ Applied = v
  BY <1>1, MigrationsAssumption, AppliedIs
<1>3. Startable(v, d)
  BY <1>2, SchemaFacts
<1> HIDE DEF v, d
<1>4. db = [d EXCEPT !.rows = RowsAt(v, S, had)] /\ IsDb(d) /\ d.ok
  BY <1>1, <1>3 DEF v, d, Startable
<1>5. /\ IsDb(db) /\ db.ok /\ db.cols = d.cols /\ db.objs = d.objs /\ db.ethType = d.ethType
      /\ db.rows = RowsAt(v, S, had)
  BY <1>4 DEF IsDb
<1>6. Agree(db, SchemaAt[Applied])
  BY <1>2, <1>4, <1>5 DEF Agree, d
<1>7. RunInv
  <2>1. /\ next = [r \in Runner |-> 0] /\ tx = [r \in Runner |-> Nothing] /\ crashes = 0
        /\ versions = 1 .. v /\ pc = [r \in Runner |-> IF r \in s.pods THEN "connect" ELSE "none"]
    BY <1>1 DEF Init, v
  <2>2. TypeOK
    BY <1>2, <1>5, <2>1, MigrationsAssumption DEF TypeOK
  <2>3. \A r \in Runner : pc[r] \in {"connect", "none"}
    BY <2>1
  <2>4. Counts
    BY <1>2, <2>1, <2>3 DEF Counts, Active, In20
  <2>5. Locks
    BY <2>1, <2>3 DEF Locks
  <2> QED
    BY <2>2, <2>4, <2>5 DEF RunInv
<1>8. DOMAIN db.rows = S
  BY <1>5 DEF RowsAt
<1>9. ASSUME NEW p \in S
      PROVE  /\ DOMAIN db.rows[p] = DOMAIN d.cols
             /\ eth \in DOMAIN d.cols =>
                    db.rows[p][eth] = Address(d.cols[eth].type, p \in had)
  <2>1. db.rows[p] = [c \in DOMAIN d.cols |->
                        IF c = "ethereum_address" /\ p \in had
                        THEN IF d.cols[c].type = "BYTEA" THEN "bytes" ELSE "text"
                        ELSE IF d.cols[c].null THEN Null ELSE "set"]
    BY <1>5 DEF RowsAt, d
  <2>2. eth \in DOMAIN d.cols => d.cols[eth].null = TRUE
    BY <1>2, <1>3 DEF Startable
  <2> QED
    BY <2>1, <2>2 DEF Address
<1>10. Sound(db, had)
  <2>1. had \subseteq S /\ (v < 4 => had = {}) /\ (v < 2 => S = {})
    BY <1>1 DEF v
  <2>2. "id" \notin DOMAIN d.cols => S = {}
    BY <1>2, <1>3, <2>1 DEF Startable
  <2>3. /\ eth \notin DOMAIN d.cols => had = {}
        /\ eth \in DOMAIN d.cols => IsColumn(d.cols[eth])
    BY <1>2, <1>3, <2>1 DEF Startable
  <2> QED
    BY <1>5, <1>8, <1>9, <2>1, <2>2, <2>3 DEF Sound
<1> QED
  BY <1>6, <1>7, <1>10

\* Every step preserves the invariant of the runners.
LEMMA RunStep ==
    ASSUME RunInv, [Next]_vars
    PROVE  RunInv'
<1>1. CASE UNCHANGED vars
  BY <1>1 DEF vars, RunInv, TypeOK, Counts, Locks, Applied, Active, In20
<1>2. ASSUME NEW r \in Runner, Step(r) \/ Crash(r) PROVE RunInv'
  BY <1>2, StepKind, CommitInv, LocalCounts, LocalLocks DEF RunInv
<1> QED
  BY <1>1, <1>2 DEF Next, Done

\* Every step keeps the addresses.
LEMMA AddressStep ==
    ASSUME RunInv, Sound(db, had), [Next]_vars
    PROVE  Sound(db, had)'
<1>1. CASE UNCHANGED vars
  BY <1>1 DEF vars
<1>2. ASSUME NEW r \in Runner, Commits(r) PROVE Sound(db, had)'
  <2>1. next[r] \in 1 .. Last
    BY <1>2 DEF RunInv, Counts, Commits
  <2>2. Sound(Up(next[r], db), had)
    BY <2>1, SoundUp
  <2>3. db' = Up(next[r], db) /\ had' = had
    BY <1>2 DEF Commits, Commit
  <2> QED
    BY <2>2, <2>3
<1>3. ASSUME NEW r \in Runner, Local(r) PROVE Sound(db, had)'
  BY <1>3 DEF Local
<1>4. ASSUME NEW r \in Runner, Step(r) \/ Crash(r) PROVE Sound(db, had)'
  BY <1>2, <1>3, <1>4, StepKind, Stays
<1> QED
  BY <1>1, <1>4 DEF Next, Done

\* The runners that matter to the schema: only one, which is never behind, or
\* several, which are past the last file that drops what earlier ones add.
Orderly ==
    \/ /\ \A q, r \in Runner : pc[q] # "none" /\ pc[r] # "none" => q = r
       /\ \A r \in Runner : Active(r) => next[r] = Applied + 1
    \/ Applied >= 16 /\ \A r \in Runner : Active(r) => next[r] >= 17

\* The tables are those of the highest recorded version.
SchemaInv == Agree(db, SchemaAt[Applied]) /\ Orderly

\* At the start there is one runner, which is not behind, or file 16 is applied.
LEMMA InitOrderly ==
    ASSUME Init, OnePodOrRecent
    PROVE  Orderly
<1> USE DEF Last
<1>1. PICK s \in Start :
          /\ versions = 1 .. s.version
          /\ pc = [r \in Runner |-> IF r \in s.pods THEN "connect" ELSE "none"]
  BY DEF Init
<1>2. s.version \in 0 .. Last /\ Applied = s.version
  BY <1>1, MigrationsAssumption, AppliedIs
<1>3. \A r \in Runner : ~Active(r) /\ (pc[r] # "none" => r \in s.pods)
  BY <1>1 DEF Active, In20
<1> QED
  BY <1>2, <1>3 DEF OnePodOrRecent, Orderly

\* Every step keeps the tables those of the highest version: a commit is of the next
\* file, or of one past 16 that is applied again.
LEMMA SchemaStep ==
    ASSUME RunInv, SchemaInv, [Next]_vars
    PROVE  SchemaInv'
<1> USE DEF Last
<1>1. CASE UNCHANGED vars
  BY <1>1 DEF vars, SchemaInv, Orderly, Applied, Active, In20
<1>2. ASSUME NEW r \in Runner, Commits(r) PROVE SchemaInv'
  <2> DEFINE n == Applied
             m == next[r]
  <2>1. /\ n \in 0 .. Last /\ m \in 1 .. Last /\ m =< n + 1
        /\ Applied' = IF m = n + 1 THEN n + 1 ELSE n
    BY <1>2, CommitInv DEF RunInv, Counts, Commits
  <2>2. db' = Up(m, db) /\ db'.ok
    BY <1>2 DEF Commits, Commit
  <2>3. Active(r) /\ pc[r] # "none"
    BY <1>2 DEF Commits, Active, In20
  <2>4. /\ \A s \in Runner \ {r} : pc'[s] = pc[s] /\ next'[s] = next[s]
        /\ pc'[r] \in {"run", "done"} /\ next'[r] = m + 1
    BY <1>2 DEF Commits, Commit, RunInv, TypeOK
  <2>5. \A s \in Runner \ {r} : Active(s)' <=> Active(s)
    BY <2>4 DEF Active, In20
  <2> HIDE DEF n, m
  <2>6. CASE m = n + 1
    <3>1. Applied' = n + 1 /\ n + 1 \in 1 .. Last /\ (n + 1) - 1 = n
      BY <2>1, <2>6
    <3>2. Agree(Up(m, db), Up(m, SchemaAt[n]))
      BY <2>1, AgreeUp DEF SchemaInv, n
    <3>3. SchemaAt[n + 1] = Up(n + 1, SchemaAt[n])
      BY <3>1, SchemaIs
    <3>4. Agree(db', SchemaAt[Applied'])
      BY <2>2, <2>6, <3>1, <3>2, <3>3
    <3>5. CASE /\ \A p, q \in Runner : pc[p] # "none" /\ pc[q] # "none" => p = q
               /\ \A q \in Runner : Active(q) => next[q] = Applied + 1
      <4>1. \A s \in Runner \ {r} : pc'[s] = "none" /\ ~Active(s)'
        BY <2>3, <2>4, <3>5 DEF Active, In20
      <4>2. next'[r] = Applied' + 1
        BY <2>1, <2>4, <2>6, <3>1
      <4>3. Orderly'
        BY <4>1, <4>2 DEF Orderly
      <4> QED
        BY <3>4, <4>3 DEF SchemaInv
    <3>6. CASE Applied >= 16 /\ \A q \in Runner : Active(q) => next[q] >= 17
      <4>1. Applied' >= 16 /\ m + 1 >= 17
        BY <2>1, <3>1, <3>6, <2>6 DEF n
      <4>2. ASSUME NEW q \in Runner, Active(q)' PROVE next'[q] >= 17
        BY <2>4, <2>5, <3>6, <4>1, <4>2
      <4>3. Orderly'
        BY <4>1, <4>2 DEF Orderly
      <4> QED
        BY <3>4, <4>3 DEF SchemaInv
    <3> QED
      BY <3>5, <3>6 DEF SchemaInv, Orderly
  <2>7. CASE m # n + 1
    <3>1. Applied' = n /\ m =< n
      BY <2>1, <2>7
    <3>2. Applied >= 16 /\ \A q \in Runner : Active(q) => next[q] >= 17
      BY <2>3, <2>7 DEF SchemaInv, Orderly, n, m
    <3>3. n \in 16 .. Last /\ m \in 17 .. n
      BY <2>1, <2>3, <3>1, <3>2 DEF n, m
    <3>4. Agree(db', SchemaAt[Applied'])
      BY <2>2, <3>1, <3>3, Repeated DEF SchemaInv, n
    <3>5. Applied' >= 16 /\ m + 1 >= 17
      BY <3>1, <3>3
    <3>6. ASSUME NEW q \in Runner, Active(q)' PROVE next'[q] >= 17
      BY <2>4, <2>5, <3>2, <3>5, <3>6
    <3> QED
      BY <3>4, <3>5, <3>6 DEF SchemaInv, Orderly
  <2> QED
    BY <2>6, <2>7
<1>3. ASSUME NEW r \in Runner, pc[r] # "none",
             \/ Connect(r) \/ Plan(r) \/ Select(r) \/ AlterAddress(r)
             \/ CopyAddresses(r) \/ Fail(r) \/ Crash(r)
      PROVE  SchemaInv'
  <2>1. Local(r)
    BY <1>3, Stays
  <2>2. Applied' = Applied /\ db' = db
    BY <2>1 DEF Local, Applied
  <2>3. Active(r)' => next'[r] = Applied + 1 \/ (Active(r) /\ next'[r] = next[r])
    <3>1. /\ pc \in [Runner -> {"connect", "plan", "run", "selecting", "copied",
                                "altered", "done", "none"}]
          /\ next \in [Runner -> 0 .. Last + 1]
      BY DEF RunInv, TypeOK
    <3>2. CASE Connect(r)
      BY <3>1, <3>2 DEF Connect, Active, In20
    <3>3. CASE Plan(r)
      BY <3>1, <3>3 DEF Plan
    <3>4. CASE Select(r)
      BY <3>1, <3>4 DEF Select, Active
    <3>5. CASE AlterAddress(r)
      BY <3>1, <3>5 DEF AlterAddress, Active, In20
    <3>6. CASE Fail(r) \/ Crash(r)
      BY <3>1, <3>6 DEF Fail, Crash, Exit, Active, In20
    <3>7. CASE CopyAddresses(r)
      BY <3>1, <3>6, <3>7 DEF CopyAddresses, Active, In20
    <3> QED
      BY <1>3, <3>2, <3>3, <3>4, <3>5, <3>6, <3>7
  <2>4. \A s \in Runner \ {r} : /\ pc'[s] = pc[s] /\ next'[s] = next[s]
                                /\ Active(s)' <=> Active(s)
    BY <2>1 DEF Local, Active, In20
  <2>5. Applied \in 0 .. Last
    BY DEF RunInv, Counts
  <2>6. Orderly'
    BY <1>3, <2>2, <2>3, <2>4, <2>5 DEF SchemaInv, Orderly
  <2> QED
    BY <2>2, <2>6 DEF SchemaInv
<1>4. ASSUME NEW r \in Runner, Step(r) \/ Crash(r) PROVE pc[r] # "none"
  <2>1. CASE Deadlock(r)
    BY <2>1 DEF Deadlock
  <2>2. CASE ~Deadlock(r)
    BY <1>4, <2>2 DEF Step, Crash, Connect, Plan, RunFile, Select, CopyAddresses,
                      AlterAddress, DecodeAddresses
  <2> QED
    BY <2>1, <2>2
<1> QED
  BY <1>1, <1>2, <1>3, <1>4, StepKind DEF Next, Done

-----------------------------------------------------------------------------
(* The theorems.                                                           *)

\* Whatever the pods, the crashes and the version the database starts with: the
\* runners' control state has its type, and no failed transaction is committed.
THEOREM TypeCorrect == Spec => []TypeOK
<1>1. Init => RunInv
  BY InitInv
<1>2. RunInv /\ [Next]_vars => RunInv'
  BY RunStep
<1>3. RunInv => TypeOK
  BY DEF RunInv
<1> QED
  BY <1>1, <1>2, <1>3, PTL DEF Spec

\* Whatever the pods, the crashes and the version the database starts with, nobody
\* loses a wallet to file 20 (migrations/00020) or gets one.
THEOREM NoAddressLost == Spec => []AddressesSurvive
<1> DEFINE I == RunInv /\ Sound(db, had)
<1>1. Init => I
  BY InitInv
<1>2. I /\ [Next]_vars => I'
  BY RunStep, AddressStep
<1>3. I => AddressesSurvive
  <2>1. ASSUME I PROVE AddressesSurvive
    <3>1. Sound(db, had) /\ db.ok
      BY <2>1 DEF RunInv, TypeOK
    <3> QED
      BY <3>1 DEF Sound, Address, AddressesSurvive
  <2> QED
    BY <2>1
<1> QED
  BY <1>1, <1>2, <1>3, PTL DEF Spec

\* One pod, or several on a database that is past file 16: the versions goose has
\* recorded have no gap and the tables are those the files up to the highest make.
THEOREM SchemaFollows == ASSUME OnePodOrRecent PROVE Spec => []SchemaIsVersion
<1> DEFINE I == RunInv /\ SchemaInv
<1>1. Init => I
  BY InitInv, InitOrderly DEF SchemaInv
<1>2. I /\ [Next]_vars => I'
  BY RunStep, SchemaStep
<1>3. I => SchemaIsVersion
  <2>1. ASSUME I PROVE SchemaIsVersion
    <3>1. /\ Agree(db, SchemaAt[Applied]) /\ db.ok
          /\ Applied \in 0 .. Last /\ versions = 1 .. Applied
      BY <2>1 DEF SchemaInv, RunInv, Counts, TypeOK
    <3>2. SchemaAt[Applied].ok
      BY <3>1, SchemaFacts DEF Startable
    <3> QED
      BY <3>1, <3>2 DEF Agree, SchemaIsVersion
  <2> QED
    BY <2>1
<1> QED
  BY <1>1, <1>2, <1>3, PTL DEF Spec

\* One pod, or several on a database that is past file 16: a pod whose init container
\* has finished finds exactly the columns of models.User.
THEOREM FinishedServes == ASSUME OnePodOrRecent PROVE Spec => []ServesModel
<1> DEFINE I == RunInv /\ SchemaInv
<1>1. Init => I
  BY InitInv, InitOrderly DEF SchemaInv
<1>2. I /\ [Next]_vars => I'
  BY RunStep, SchemaStep
<1>3. I => ServesModel
  <2>1. ASSUME I, NEW r \in Runner, pc[r] = "done"
        PROVE  /\ DOMAIN db.cols = DOMAIN ModelColumns
               /\ \A c \in DOMAIN db.cols : /\ db.cols[c].type \in ModelColumns[c].types
                                            /\ db.cols[c].null = ModelColumns[c].null
    <3>1. Agree(db, SchemaAt[Last]) /\ db.ok
      BY <2>1 DEF SchemaInv, RunInv, Counts, TypeOK
    <3>2. SchemaAt[Last].ok
      <4>1. Last \in 0 .. Last
        BY DEF Last
      <4>2. Startable(Last, SchemaAt[Last])
        BY <4>1, SchemaFacts
      <4> QED
        BY <4>2 DEF Startable
    <3>3. db.cols = SchemaAt[Last].cols
      BY <3>1, <3>2 DEF Agree
    <3> QED
      BY <3>3, LastServes
  <2> QED
    BY <2>1 DEF ServesModel
<1> QED
  BY <1>1, <1>2, <1>3, PTL DEF Spec
=============================================================================
