--------------------------- MODULE AccountProofs ----------------------------
(***************************************************************************)
(* The safety properties of Account, for any credentials.  The inductive   *)
(* invariant IInv has a part for each place where something is remembered  *)
(* across the steps of others: the credentials `auth` works with (ApiInv), *)
(* the files while it stores them (StoreInv), the hint the collector has   *)
(* seen (CollInv) and the login that `auth` reported (LoginInv).           *)
(***************************************************************************)
EXTENDS Account, TLAPS

USE AccountAssumption

Values == Apis \cup {Empty}

\* What the files and the credentials in memory look like.
TypeInv ==
  /\ disk \in [id : Values, hash : Values, hint : {Empty, "a", "u"}]
  /\ api \in [id : Values, hash : Values]
  /\ params \in [id : Values, hash : Values]
  /\ step \in 0 .. 6

\* `auth` works with a pair, unless it took it from torn files.
ApiInv ==
  /\ Pair(api) \/ api.id = Empty \/ torn
  /\ auth \in {"phone", "code", "password", "store"} => api.id # Empty

\* How far the files are written; the hint comes last.
StoreInv ==
  auth = "store" =>
    /\ step >= 2 => disk.id = api.id
    /\ step >= 4 => disk.hash = api.hash \/ api.hash = Empty
    /\ ~ over /\ step < 6 => ~ Hint

\* A collector that saw the hint reads a pair, unless somebody crossed it.
CollInv ==
  /\ coll = "id" /\ ~ crossed =>
       /\ Hint \/ (Rewriting /\ step = 5) \/ torn
       /\ auth = "store" /\ step = 6 => Hint
  /\ coll = "hash" /\ ~ crossed => params.id = disk.id /\ Pair(disk)

\* A login that nobody took back, in the database on disk or in one that was
\* removed before.
LoginInv ==
  /\ auth = "store" /\ login # "none" =>
       /\ login = "real" => tddata
       /\ step = 6 => Hint
  /\ fresh # "none" => Hint /\ (fresh = "real" => tddata)
  /\ fresh = "real" => auth \notin {"phone", "code", "password"}

IInv ==
  /\ TypeInv
  /\ ApiInv /\ StoreInv /\ CollInv /\ LoginInv
  /\ HintMeansCredentials /\ CollectorReadsPair /\ LoggedInUsable

----------------------------------------------------------------------------
(***************************************************************************)
(* What single actions do to the files.                                    *)
(***************************************************************************)

\* The six writes of `auth`, one half of a setter each.
LEMMA StoreEffect ==
  ASSUME TypeInv, AuthStore
  PROVE  /\ step \in 0 .. 5 /\ step' = step + 1
         /\ disk' \in [id : Values, hash : Values, hint : {Empty, "a", "u"}]
         /\ disk'.id = CASE step = 0 -> Empty [] step = 1 -> api.id [] OTHER -> disk.id
         /\ disk'.hash = CASE step = 2 /\ api.hash # Empty -> Empty
                           [] step = 3 /\ api.hash # Empty -> api.hash
                           [] OTHER -> disk.hash
         /\ disk'.hint = CASE step = 4 -> Empty [] step = 5 -> "a" [] OTHER -> disk.hint
  <1>1. step \in 0 .. 5 /\ step' = step + 1
    BY DEF TypeInv, AuthStore, StoreOrder
  <1>2. /\ 0 \div 2 = 0 /\ 1 \div 2 = 0 /\ 2 \div 2 = 1
        /\ 3 \div 2 = 1 /\ 4 \div 2 = 2 /\ 5 \div 2 = 2
        /\ 0 % 2 = 0 /\ 1 % 2 = 1 /\ 2 % 2 = 0
        /\ 3 % 2 = 1 /\ 4 % 2 = 0 /\ 5 % 2 = 1
    OBVIOUS
  <1>3. CASE step = 0
    <2>1. StoreOrder[(step \div 2) + 1] = "id"
      BY <1>3, <1>2 DEF StoreOrder
    <2>2. disk' = [disk EXCEPT !["id"] = IF step % 2 = 0 THEN Empty ELSE Contents("id")]
      BY <2>1 DEF AuthStore
    <2>3. disk' = [disk EXCEPT !["id"] = Empty]
      BY <1>3, <1>2, <2>2
    <2> QED BY <1>1, <1>3, <2>3 DEF TypeInv, Values
  <1>4. CASE step = 1
    <2>1. StoreOrder[(step \div 2) + 1] = "id"
      BY <1>4, <1>2 DEF StoreOrder
    <2>2. disk' = [disk EXCEPT !["id"] = IF step % 2 = 0 THEN Empty ELSE Contents("id")]
      BY <2>1 DEF AuthStore
    <2>3. disk' = [disk EXCEPT !["id"] = api.id]
      BY <1>4, <1>2, <2>2 DEF Contents
    <2> QED BY <1>1, <1>4, <2>3 DEF TypeInv, Values
  <1>5. CASE step = 2
    <2>1. StoreOrder[(step \div 2) + 1] = "hash"
      BY <1>5, <1>2 DEF StoreOrder
    <2>2. disk' = IF api.hash = Empty THEN disk
               ELSE [disk EXCEPT !["hash"] = IF step % 2 = 0 THEN Empty ELSE Contents("hash")]
      BY <2>1 DEF AuthStore
    <2>3. disk' = IF api.hash = Empty THEN disk ELSE [disk EXCEPT !["hash"] = Empty]
      BY <1>5, <1>2, <2>2
    <2> QED BY <1>1, <1>5, <2>3 DEF TypeInv, Values
  <1>6. CASE step = 3
    <2>1. StoreOrder[(step \div 2) + 1] = "hash"
      BY <1>6, <1>2 DEF StoreOrder
    <2>2. disk' = IF api.hash = Empty THEN disk
               ELSE [disk EXCEPT !["hash"] = IF step % 2 = 0 THEN Empty ELSE Contents("hash")]
      BY <2>1 DEF AuthStore
    <2>3. disk' = IF api.hash = Empty THEN disk ELSE [disk EXCEPT !["hash"] = api.hash]
      BY <1>6, <1>2, <2>2 DEF Contents
    <2> QED BY <1>1, <1>6, <2>3 DEF TypeInv, Values
  <1>7. CASE step = 4
    <2>1. StoreOrder[(step \div 2) + 1] = "hint"
      BY <1>7, <1>2 DEF StoreOrder
    <2>2. disk' = [disk EXCEPT !["hint"] = IF step % 2 = 0 THEN Empty ELSE Contents("hint")]
      BY <2>1 DEF AuthStore
    <2>3. disk' = [disk EXCEPT !["hint"] = Empty]
      BY <1>7, <1>2, <2>2
    <2> QED BY <1>1, <1>7, <2>3 DEF TypeInv, Values
  <1>8. CASE step = 5
    <2>1. StoreOrder[(step \div 2) + 1] = "hint"
      BY <1>8, <1>2 DEF StoreOrder
    <2>2. disk' = [disk EXCEPT !["hint"] = IF step % 2 = 0 THEN Empty ELSE Contents("hint")]
      BY <2>1 DEF AuthStore
    <2>3. disk' = [disk EXCEPT !["hint"] = "a"]
      BY <1>8, <1>2, <2>2 DEF Contents
    <2> QED BY <1>1, <1>8, <2>3 DEF TypeInv, Values
  <1> QED BY <1>1, <1>3, <1>4, <1>5, <1>6, <1>7, <1>8

\* The process of `auth` ends.
LEMMA GoneEffect ==
  ASSUME Gone
  PROVE  /\ auth' = "idle" /\ step' = 0 /\ api' = NoApi /\ ~ over'
  BY DEF Gone

\* The session is logged in: nothing is stored yet.
LEMMA ReadyEffect ==
  ASSUME Ready
  PROVE  /\ auth' = "store" /\ step' = 0
         /\ over' <=> Hint
         /\ login' = IF lost' THEN "void" ELSE "real"
         /\ UNCHANGED <<disk, api, reset, coll, params, torn, crossed, fresh>>
  BY DEF Ready

\* What a write leaves alone.
LEMMA StoreFrame ==
  ASSUME AuthStore
  PROVE  /\ auth = "store" /\ fresh' = "none"
         /\ crossed' <=> crossed \/ coll = "hash"
         /\ UNCHANGED <<auth, tddata, api, reset, coll, params, over, torn, login>>
  BY DEF AuthStore

----------------------------------------------------------------------------
(***************************************************************************)
(* The inductive invariant.                                                *)
(***************************************************************************)

\* Every step keeps the types.
LEMMA TypeStep == TypeInv /\ [Next]_vars => TypeInv'
  <1> SUFFICES ASSUME TypeInv, [Next]_vars PROVE TypeInv'
    OBVIOUS
  <1> USE DEF TypeInv, client, Prompts, Values, Apis, NoApi, Coll, Ready, Hint
  <1>1. CASE AuthStart BY <1>1 DEF AuthStart
  <1>2. CASE AuthParams BY <1>2 DEF AuthParams
  <1>3. CASE AuthAsk BY <1>3 DEF AuthAsk
  <1>4. CASE AuthError BY <1>4 DEF AuthError
  <1>5. CASE AuthBusy BY <1>5, GoneEffect DEF AuthBusy
  <1>6. CASE AuthOpen BY <1>6 DEF AuthOpen
  <1>7. CASE AuthPhone BY <1>7 DEF AuthPhone
  <1>8. CASE AuthCode BY <1>8 DEF AuthCode
  <1>9. CASE AuthIn BY <1>9 DEF AuthIn
  <1>10. CASE AuthStore
    <2>1. step' \in 0 .. 6
      BY <1>10, StoreEffect
    <2>2. disk' \in [id : Values, hash : Values, hint : {Empty, "a", "u"}]
      BY <1>10, StoreEffect
    <2> QED BY <1>10, StoreFrame, <2>1, <2>2
  <1>11. CASE AuthDone BY <1>11, GoneEffect DEF AuthDone
  <1>12. CASE AuthFatal BY <1>12, GoneEffect DEF AuthFatal
  <1>13. CASE AuthCrash BY <1>13, GoneEffect DEF AuthCrash
  <1>14. CASE ResetOpen BY <1>14 DEF ResetOpen
  <1>15. CASE ResetHint BY <1>15 DEF ResetHint
  <1>16. CASE ResetFails BY <1>16 DEF ResetFails
  <1>17. CASE ResetRemove BY <1>17 DEF ResetRemove
  <1>18. CASE ResetCrash BY <1>18 DEF ResetCrash
  <1>19. CASE Revoke BY <1>19 DEF Revoke
  <1>20. CASE CollStart BY <1>20 DEF CollStart
  <1>21. CASE CollHint BY <1>21 DEF CollHint
  <1>22. CASE CollAgain BY <1>22 DEF CollAgain
  <1>23. CASE CollId BY <1>23 DEF CollId
  <1>24. CASE CollHash BY <1>24 DEF CollHash
  <1>25. CASE CollMute BY <1>25 DEF CollMute
  <1>26. CASE CollUp BY <1>26 DEF CollUp
  <1>27. CASE CollCorrupt BY <1>27 DEF CollCorrupt
  <1>28. CASE CollStop BY <1>28 DEF CollStop
  <1>29. CASE UNCHANGED vars BY <1>29 DEF vars
  <1> QED
    BY <1>1, <1>2, <1>3, <1>4, <1>5, <1>6, <1>7, <1>8, <1>9, <1>10, <1>11, <1>12,
       <1>13, <1>14, <1>15, <1>16, <1>17, <1>18, <1>19, <1>20, <1>21, <1>22, <1>23,
       <1>24, <1>25, <1>26, <1>27, <1>28, <1>29 DEF Next, Auth, Reset, Collect,
       World

\* The credentials of `auth`.
LEMMA ApiStep == TypeInv /\ ApiInv /\ HintMeansCredentials /\ [Next]_vars => ApiInv'
  <1> SUFFICES ASSUME TypeInv, ApiInv, HintMeansCredentials, [Next]_vars PROVE ApiInv'
    OBVIOUS
  <1> USE DEF ApiInv, client, Prompts, NoApi, Pair, Coll, Ready, Hint
  <1>1. CASE AuthStart BY <1>1 DEF AuthStart
  <1>2. CASE AuthParams
    <2>1. Pair(api') \/ api'.id = Empty \/ torn
      <3>1. CASE Hint
        <4>1. api'.id = disk.id /\ api'.hash = disk.hash
          BY <1>2, <3>1 DEF AuthParams
        <4>2. Pair(disk) \/ torn
          BY <1>2, <3>1 DEF AuthParams, HintMeansCredentials, Rewriting
        <4> QED BY <4>1, <4>2
      <3>2. CASE ~ Hint /\ own
        BY <1>2, <3>2 DEF AuthParams, Apis
      <3>3. CASE ~ Hint /\ ~ own
        <4>1. PICK a \in Typed : \E i \in {a, Empty} : api' = [id |-> i, hash |-> a]
          BY <1>2, <3>3 DEF AuthParams
        <4> QED BY <4>1 DEF Apis
      <3> QED BY <3>1, <3>2, <3>3
    <2> QED BY <1>2, <2>1 DEF AuthParams
  <1>3. CASE AuthAsk BY <1>3 DEF AuthAsk
  <1>4. CASE AuthError BY <1>4 DEF AuthError
  <1>5. CASE AuthBusy BY <1>5, GoneEffect DEF AuthBusy
  <1>6. CASE AuthOpen BY <1>6 DEF AuthOpen
  <1>7. CASE AuthPhone BY <1>7 DEF AuthPhone
  <1>8. CASE AuthCode BY <1>8 DEF AuthCode
  <1>9. CASE AuthIn BY <1>9 DEF AuthIn
  <1>10. CASE AuthStore BY <1>10 DEF AuthStore
  <1>11. CASE AuthDone BY <1>11, GoneEffect DEF AuthDone
  <1>12. CASE AuthFatal BY <1>12, GoneEffect DEF AuthFatal
  <1>13. CASE AuthCrash BY <1>13, GoneEffect DEF AuthCrash
  <1>14. CASE ResetOpen BY <1>14 DEF ResetOpen
  <1>15. CASE ResetHint BY <1>15 DEF ResetHint
  <1>16. CASE ResetFails BY <1>16 DEF ResetFails
  <1>17. CASE ResetRemove BY <1>17 DEF ResetRemove
  <1>18. CASE ResetCrash BY <1>18 DEF ResetCrash
  <1>19. CASE Revoke BY <1>19 DEF Revoke
  <1>20. CASE CollStart BY <1>20 DEF CollStart
  <1>21. CASE CollHint BY <1>21 DEF CollHint
  <1>22. CASE CollAgain BY <1>22 DEF CollAgain
  <1>23. CASE CollId BY <1>23 DEF CollId
  <1>24. CASE CollHash BY <1>24 DEF CollHash
  <1>25. CASE CollMute BY <1>25 DEF CollMute
  <1>26. CASE CollUp BY <1>26 DEF CollUp
  <1>27. CASE CollCorrupt BY <1>27 DEF CollCorrupt
  <1>28. CASE CollStop BY <1>28 DEF CollStop
  <1>29. CASE UNCHANGED vars BY <1>29 DEF vars
  <1> QED
    BY <1>1, <1>2, <1>3, <1>4, <1>5, <1>6, <1>7, <1>8, <1>9, <1>10, <1>11, <1>12,
       <1>13, <1>14, <1>15, <1>16, <1>17, <1>18, <1>19, <1>20, <1>21, <1>22, <1>23,
       <1>24, <1>25, <1>26, <1>27, <1>28, <1>29 DEF Next, Auth, Reset, Collect,
       World

\* The files while `auth` stores.
LEMMA StoreStep == TypeInv /\ StoreInv /\ [Next]_vars => StoreInv'
  <1> SUFFICES ASSUME TypeInv, StoreInv, [Next]_vars PROVE StoreInv'
    OBVIOUS
  <1> USE DEF StoreInv, TypeInv, client, Prompts, Coll, Hint
  <1>1. CASE AuthStart BY <1>1 DEF AuthStart
  <1>2. CASE AuthParams BY <1>2 DEF AuthParams
  <1>3. CASE AuthAsk BY <1>3 DEF AuthAsk
  <1>4. CASE AuthError BY <1>4 DEF AuthError
  <1>5. CASE AuthBusy BY <1>5, GoneEffect DEF AuthBusy
  <1>6. CASE AuthOpen
    <2>1. CASE tddata /\ Ready BY <1>6, <2>1, ReadyEffect DEF AuthOpen
    <2>2. CASE ~ (tddata /\ Ready) BY <1>6, <2>2 DEF AuthOpen
    <2> QED BY <2>1, <2>2
  <1>7. CASE AuthPhone BY <1>7 DEF AuthPhone
  <1>8. CASE AuthCode BY <1>8 DEF AuthCode
  <1>9. CASE AuthIn
    BY <1>9, ReadyEffect DEF AuthIn
  <1>10. CASE AuthStore
    <2>1. step' >= 2 => disk'.id = api'.id
      BY <1>10, StoreEffect, StoreFrame
    <2>2. step' >= 4 => disk'.hash = api'.hash \/ api'.hash = Empty
      BY <1>10, StoreEffect, StoreFrame
    <2>3. ~ over' /\ step' < 6 => ~ (disk'.hint = "a")
      BY <1>10, StoreEffect, StoreFrame DEF Empty
    <2> QED BY <2>1, <2>2, <2>3
  <1>11. CASE AuthDone BY <1>11, GoneEffect DEF AuthDone
  <1>12. CASE AuthFatal BY <1>12, GoneEffect DEF AuthFatal
  <1>13. CASE AuthCrash BY <1>13, GoneEffect DEF AuthCrash
  <1>14. CASE ResetOpen
    <2>1. disk'.id = disk.id /\ disk'.hash = disk.hash /\ disk'.hint = Empty
      BY <1>14 DEF ResetOpen
    <2> QED BY <1>14, <2>1 DEF ResetOpen, Empty
  <1>15. CASE ResetHint BY <1>15 DEF ResetHint
  <1>16. CASE ResetFails BY <1>16 DEF ResetFails
  <1>17. CASE ResetRemove BY <1>17 DEF ResetRemove
  <1>18. CASE ResetCrash BY <1>18 DEF ResetCrash
  <1>19. CASE Revoke BY <1>19 DEF Revoke
  <1>20. CASE CollStart BY <1>20 DEF CollStart
  <1>21. CASE CollHint BY <1>21 DEF CollHint
  <1>22. CASE CollAgain BY <1>22 DEF CollAgain
  <1>23. CASE CollId BY <1>23 DEF CollId
  <1>24. CASE CollHash BY <1>24 DEF CollHash
  <1>25. CASE CollMute BY <1>25 DEF CollMute
  <1>26. CASE CollUp BY <1>26 DEF CollUp
  <1>27. CASE CollCorrupt BY <1>27 DEF CollCorrupt
  <1>28. CASE CollStop BY <1>28 DEF CollStop
  <1>29. CASE UNCHANGED vars BY <1>29 DEF vars
  <1> QED
    BY <1>1, <1>2, <1>3, <1>4, <1>5, <1>6, <1>7, <1>8, <1>9, <1>10, <1>11, <1>12,
       <1>13, <1>14, <1>15, <1>16, <1>17, <1>18, <1>19, <1>20, <1>21, <1>22, <1>23,
       <1>24, <1>25, <1>26, <1>27, <1>28, <1>29 DEF Next, Auth, Reset, Collect,
       World

\* What the collector saw.
LEMMA CollStep ==
  TypeInv /\ StoreInv /\ CollInv /\ HintMeansCredentials /\ [Next]_vars =>
    CollInv'
  <1> SUFFICES ASSUME TypeInv, StoreInv, CollInv, HintMeansCredentials, [Next]_vars
               PROVE  CollInv'
    OBVIOUS
  <1> USE DEF CollInv, StoreInv, HintMeansCredentials, Rewriting, Pair, TypeInv,
              client, Prompts, Coll, Hint
  <1>1. CASE AuthStart BY <1>1 DEF AuthStart
  <1>2. CASE AuthParams BY <1>2 DEF AuthParams
  <1>3. CASE AuthAsk BY <1>3 DEF AuthAsk
  <1>4. CASE AuthError BY <1>4 DEF AuthError
  <1>5. CASE AuthBusy BY <1>5, GoneEffect DEF AuthBusy
  <1>6. CASE AuthOpen
    <2>1. CASE tddata /\ Ready BY <1>6, <2>1, ReadyEffect DEF AuthOpen
    <2>2. CASE ~ (tddata /\ Ready) BY <1>6, <2>2 DEF AuthOpen
    <2> QED BY <2>1, <2>2
  <1>7. CASE AuthPhone BY <1>7 DEF AuthPhone
  <1>8. CASE AuthCode BY <1>8 DEF AuthCode
  <1>9. CASE AuthIn
    BY <1>9, ReadyEffect DEF AuthIn
  <1>10. CASE AuthStore
    BY <1>10, StoreEffect, StoreFrame
  <1>11. CASE AuthDone
    <2>1. step = 6
      BY <1>11 DEF AuthDone, StoreOrder
    <2> QED BY <1>11, <2>1, GoneEffect DEF AuthDone
  <1>12. CASE AuthFatal BY <1>12, GoneEffect DEF AuthFatal
  <1>13. CASE AuthCrash BY <1>13, GoneEffect DEF AuthCrash
  <1>14. CASE ResetOpen BY <1>14 DEF ResetOpen
  <1>15. CASE ResetHint BY <1>15 DEF ResetHint
  <1>16. CASE ResetFails BY <1>16 DEF ResetFails
  <1>17. CASE ResetRemove BY <1>17 DEF ResetRemove
  <1>18. CASE ResetCrash BY <1>18 DEF ResetCrash
  <1>19. CASE Revoke BY <1>19 DEF Revoke
  <1>20. CASE CollStart BY <1>20 DEF CollStart
  <1>21. CASE CollHint BY <1>21 DEF CollHint
  <1>22. CASE CollAgain BY <1>22 DEF CollAgain
  <1>23. CASE CollId BY <1>23 DEF CollId
  <1>24. CASE CollHash BY <1>24 DEF CollHash
  <1>25. CASE CollMute BY <1>25 DEF CollMute
  <1>26. CASE CollUp BY <1>26 DEF CollUp
  <1>27. CASE CollCorrupt BY <1>27 DEF CollCorrupt
  <1>28. CASE CollStop BY <1>28 DEF CollStop
  <1>29. CASE UNCHANGED vars BY <1>29 DEF vars
  <1> QED
    BY <1>1, <1>2, <1>3, <1>4, <1>5, <1>6, <1>7, <1>8, <1>9, <1>10, <1>11, <1>12,
       <1>13, <1>14, <1>15, <1>16, <1>17, <1>18, <1>19, <1>20, <1>21, <1>22, <1>23,
       <1>24, <1>25, <1>26, <1>27, <1>28, <1>29 DEF Next, Auth, Reset, Collect,
       World

\* The login that was reported.
LEMMA LoginStep == TypeInv /\ LoginInv /\ [Next]_vars => LoginInv'
  <1> SUFFICES ASSUME TypeInv, LoginInv, [Next]_vars PROVE LoginInv'
    OBVIOUS
  <1> USE DEF LoginInv, TypeInv, client, Prompts, Coll, Hint
  <1>1. CASE AuthStart BY <1>1 DEF AuthStart
  <1>2. CASE AuthParams BY <1>2 DEF AuthParams
  <1>3. CASE AuthAsk BY <1>3 DEF AuthAsk
  <1>4. CASE AuthError BY <1>4 DEF AuthError
  <1>5. CASE AuthBusy BY <1>5, GoneEffect DEF AuthBusy
  <1>6. CASE AuthOpen
    <2>1. CASE tddata /\ Ready BY <1>6, <2>1, ReadyEffect DEF AuthOpen
    <2>2. CASE ~ (tddata /\ Ready) BY <1>6, <2>2 DEF AuthOpen
    <2> QED BY <2>1, <2>2
  <1>7. CASE AuthPhone BY <1>7 DEF AuthPhone
  <1>8. CASE AuthCode BY <1>8 DEF AuthCode
  <1>9. CASE AuthIn
    <2>1. (tddata' <=> ~ lost) /\ UNCHANGED lost
      BY <1>9 DEF AuthIn
    <2> QED BY <1>9, <2>1, ReadyEffect DEF AuthIn
  <1>10. CASE AuthStore
    BY <1>10, StoreEffect, StoreFrame
  <1>11. CASE AuthDone
    <2>1. step = 6
      BY <1>11 DEF AuthDone, StoreOrder
    <2>2. fresh' = login
      BY <1>11 DEF AuthDone
    <2> QED BY <1>11, <2>1, <2>2, GoneEffect DEF AuthDone
  <1>12. CASE AuthFatal BY <1>12, GoneEffect DEF AuthFatal
  <1>13. CASE AuthCrash BY <1>13, GoneEffect DEF AuthCrash
  <1>14. CASE ResetOpen BY <1>14 DEF ResetOpen
  <1>15. CASE ResetHint BY <1>15 DEF ResetHint
  <1>16. CASE ResetFails BY <1>16 DEF ResetFails
  <1>17. CASE ResetRemove BY <1>17 DEF ResetRemove
  <1>18. CASE ResetCrash BY <1>18 DEF ResetCrash
  <1>19. CASE Revoke BY <1>19 DEF Revoke
  <1>20. CASE CollStart BY <1>20 DEF CollStart
  <1>21. CASE CollHint BY <1>21 DEF CollHint
  <1>22. CASE CollAgain BY <1>22 DEF CollAgain
  <1>23. CASE CollId BY <1>23 DEF CollId
  <1>24. CASE CollHash BY <1>24 DEF CollHash
  <1>25. CASE CollMute BY <1>25 DEF CollMute
  <1>26. CASE CollUp BY <1>26 DEF CollUp
  <1>27. CASE CollCorrupt BY <1>27 DEF CollCorrupt
  <1>28. CASE CollStop BY <1>28 DEF CollStop
  <1>29. CASE UNCHANGED vars BY <1>29 DEF vars
  <1> QED
    BY <1>1, <1>2, <1>3, <1>4, <1>5, <1>6, <1>7, <1>8, <1>9, <1>10, <1>11, <1>12,
       <1>13, <1>14, <1>15, <1>16, <1>17, <1>18, <1>19, <1>20, <1>21, <1>22, <1>23,
       <1>24, <1>25, <1>26, <1>27, <1>28, <1>29 DEF Next, Auth, Reset, Collect,
       World

\* The hint and the credentials.
LEMMA HintStep ==
  TypeInv /\ ApiInv /\ StoreInv /\ HintMeansCredentials /\ [Next]_vars =>
    HintMeansCredentials'
  <1> SUFFICES ASSUME TypeInv, ApiInv, StoreInv, HintMeansCredentials, [Next]_vars
               PROVE  HintMeansCredentials'
    OBVIOUS
  <1> USE DEF HintMeansCredentials, ApiInv, StoreInv, Rewriting, Pair, TypeInv,
              client, Prompts, Coll, Hint
  <1>1. CASE AuthStart BY <1>1 DEF AuthStart
  <1>2. CASE AuthParams BY <1>2 DEF AuthParams
  <1>3. CASE AuthAsk BY <1>3 DEF AuthAsk
  <1>4. CASE AuthError BY <1>4 DEF AuthError
  <1>5. CASE AuthBusy BY <1>5, GoneEffect DEF AuthBusy
  <1>6. CASE AuthOpen
    <2>1. CASE tddata /\ Ready BY <1>6, <2>1, ReadyEffect DEF AuthOpen
    <2>2. CASE ~ (tddata /\ Ready) BY <1>6, <2>2 DEF AuthOpen
    <2> QED BY <2>1, <2>2
  <1>7. CASE AuthPhone BY <1>7 DEF AuthPhone
  <1>8. CASE AuthCode BY <1>8 DEF AuthCode
  <1>9. CASE AuthIn
    BY <1>9, ReadyEffect DEF AuthIn
  <1>10. CASE AuthStore
    <2>1. CASE step = 5
      BY <1>10, <2>1, StoreEffect, StoreFrame
    <2>2. CASE ~ (step = 5)
      <3>1. ~ over => ~ (disk'.hint = "a")
        BY <1>10, <2>2, StoreEffect, StoreFrame DEF Empty
      <3> QED BY <1>10, <3>1, StoreFrame
    <2> QED BY <2>1, <2>2
  <1>11. CASE AuthDone
    <2>1. step = 6
      BY <1>11 DEF AuthDone, StoreOrder
    <2>2. torn' <=> torn /\ ~ Pair(api)
      BY <1>11 DEF AuthDone
    <2>3. Pair(api) => Pair(disk)
      BY <1>11, <2>1 DEF AuthDone
    <2> QED BY <1>11, <2>1, <2>2, <2>3, GoneEffect DEF AuthDone
  <1>12. CASE AuthFatal BY <1>12, GoneEffect DEF AuthFatal
  <1>13. CASE AuthCrash
    <2>1. auth = "store" /\ ~ over /\ Hint => step = 6
      BY <1>13
    <2>2. torn' <=> torn \/ (auth = "store" /\ over)
      BY <1>13 DEF AuthCrash
    <2> QED BY <1>13, <2>1, <2>2, GoneEffect DEF AuthCrash
  <1>14. CASE ResetOpen
    <2>1. disk'.id = disk.id /\ disk'.hash = disk.hash /\ disk'.hint = Empty
      BY <1>14 DEF ResetOpen
    <2> QED BY <1>14, <2>1 DEF ResetOpen, Empty
  <1>15. CASE ResetHint BY <1>15 DEF ResetHint
  <1>16. CASE ResetFails BY <1>16 DEF ResetFails
  <1>17. CASE ResetRemove BY <1>17 DEF ResetRemove
  <1>18. CASE ResetCrash BY <1>18 DEF ResetCrash
  <1>19. CASE Revoke BY <1>19 DEF Revoke
  <1>20. CASE CollStart BY <1>20 DEF CollStart
  <1>21. CASE CollHint BY <1>21 DEF CollHint
  <1>22. CASE CollAgain BY <1>22 DEF CollAgain
  <1>23. CASE CollId BY <1>23 DEF CollId
  <1>24. CASE CollHash BY <1>24 DEF CollHash
  <1>25. CASE CollMute BY <1>25 DEF CollMute
  <1>26. CASE CollUp BY <1>26 DEF CollUp
  <1>27. CASE CollCorrupt BY <1>27 DEF CollCorrupt
  <1>28. CASE CollStop BY <1>28 DEF CollStop
  <1>29. CASE UNCHANGED vars BY <1>29 DEF vars
  <1> QED
    BY <1>1, <1>2, <1>3, <1>4, <1>5, <1>6, <1>7, <1>8, <1>9, <1>10, <1>11, <1>12,
       <1>13, <1>14, <1>15, <1>16, <1>17, <1>18, <1>19, <1>20, <1>21, <1>22, <1>23,
       <1>24, <1>25, <1>26, <1>27, <1>28, <1>29 DEF Next, Auth, Reset, Collect,
       World

\* What the collector has read.
LEMMA ReadStep ==
  TypeInv /\ CollInv /\ HintMeansCredentials /\ CollectorReadsPair /\ [Next]_vars =>
    CollectorReadsPair'
  <1> SUFFICES ASSUME TypeInv, CollInv, HintMeansCredentials, CollectorReadsPair, [Next]_vars
               PROVE  CollectorReadsPair'
    OBVIOUS
  <1> USE DEF CollectorReadsPair, CollInv, HintMeansCredentials, Rewriting, Pair,
              TypeInv, client, Prompts, Coll, Hint
  <1>1. CASE AuthStart BY <1>1 DEF AuthStart
  <1>2. CASE AuthParams BY <1>2 DEF AuthParams
  <1>3. CASE AuthAsk BY <1>3 DEF AuthAsk
  <1>4. CASE AuthError BY <1>4 DEF AuthError
  <1>5. CASE AuthBusy BY <1>5, GoneEffect DEF AuthBusy
  <1>6. CASE AuthOpen
    <2>1. CASE tddata /\ Ready BY <1>6, <2>1, ReadyEffect DEF AuthOpen
    <2>2. CASE ~ (tddata /\ Ready) BY <1>6, <2>2 DEF AuthOpen
    <2> QED BY <2>1, <2>2
  <1>7. CASE AuthPhone BY <1>7 DEF AuthPhone
  <1>8. CASE AuthCode BY <1>8 DEF AuthCode
  <1>9. CASE AuthIn
    BY <1>9, ReadyEffect DEF AuthIn
  <1>10. CASE AuthStore
    BY <1>10, StoreEffect, StoreFrame
  <1>11. CASE AuthDone BY <1>11, GoneEffect DEF AuthDone
  <1>12. CASE AuthFatal BY <1>12, GoneEffect DEF AuthFatal
  <1>13. CASE AuthCrash BY <1>13, GoneEffect DEF AuthCrash
  <1>14. CASE ResetOpen BY <1>14 DEF ResetOpen
  <1>15. CASE ResetHint BY <1>15 DEF ResetHint
  <1>16. CASE ResetFails BY <1>16 DEF ResetFails
  <1>17. CASE ResetRemove BY <1>17 DEF ResetRemove
  <1>18. CASE ResetCrash BY <1>18 DEF ResetCrash
  <1>19. CASE Revoke BY <1>19 DEF Revoke
  <1>20. CASE CollStart BY <1>20 DEF CollStart
  <1>21. CASE CollHint BY <1>21 DEF CollHint
  <1>22. CASE CollAgain BY <1>22 DEF CollAgain
  <1>23. CASE CollId BY <1>23 DEF CollId
  <1>24. CASE CollHash BY <1>24 DEF CollHash
  <1>25. CASE CollMute BY <1>25 DEF CollMute
  <1>26. CASE CollUp BY <1>26 DEF CollUp
  <1>27. CASE CollCorrupt BY <1>27 DEF CollCorrupt
  <1>28. CASE CollStop BY <1>28 DEF CollStop
  <1>29. CASE UNCHANGED vars BY <1>29 DEF vars
  <1> QED
    BY <1>1, <1>2, <1>3, <1>4, <1>5, <1>6, <1>7, <1>8, <1>9, <1>10, <1>11, <1>12,
       <1>13, <1>14, <1>15, <1>16, <1>17, <1>18, <1>19, <1>20, <1>21, <1>22, <1>23,
       <1>24, <1>25, <1>26, <1>27, <1>28, <1>29 DEF Next, Auth, Reset, Collect,
       World

\* The login that is usable.
LEMMA UsableStep ==
  TypeInv /\ ApiInv /\ StoreInv /\ LoginInv /\ LoggedInUsable /\ [Next]_vars =>
    LoggedInUsable'
  <1> SUFFICES ASSUME TypeInv, ApiInv, StoreInv, LoginInv, LoggedInUsable, [Next]_vars
               PROVE  LoggedInUsable'
    OBVIOUS
  <1> USE DEF LoggedInUsable, ApiInv, StoreInv, LoginInv, Pair, TypeInv, client,
              Prompts, Coll, Hint
  <1>1. CASE AuthStart BY <1>1 DEF AuthStart
  <1>2. CASE AuthParams BY <1>2 DEF AuthParams
  <1>3. CASE AuthAsk BY <1>3 DEF AuthAsk
  <1>4. CASE AuthError BY <1>4 DEF AuthError
  <1>5. CASE AuthBusy BY <1>5, GoneEffect DEF AuthBusy
  <1>6. CASE AuthOpen
    <2>1. CASE tddata /\ Ready BY <1>6, <2>1, ReadyEffect DEF AuthOpen
    <2>2. CASE ~ (tddata /\ Ready) BY <1>6, <2>2 DEF AuthOpen
    <2> QED BY <2>1, <2>2
  <1>7. CASE AuthPhone BY <1>7 DEF AuthPhone
  <1>8. CASE AuthCode BY <1>8 DEF AuthCode
  <1>9. CASE AuthIn
    <2>1. (tddata' <=> ~ lost) /\ UNCHANGED lost
      BY <1>9 DEF AuthIn
    <2> QED BY <1>9, <2>1, ReadyEffect DEF AuthIn
  <1>10. CASE AuthStore
    BY <1>10, StoreEffect, StoreFrame
  <1>11. CASE AuthDone
    <2>1. step = 6
      BY <1>11 DEF AuthDone, StoreOrder
    <2>2. fresh' = login
      BY <1>11 DEF AuthDone
    <2>3. torn' <=> torn /\ ~ Pair(api)
      BY <1>11 DEF AuthDone
    <2> QED BY <1>11, <2>1, <2>2, <2>3, GoneEffect DEF AuthDone
  <1>12. CASE AuthFatal BY <1>12, GoneEffect DEF AuthFatal
  <1>13. CASE AuthCrash
    <2>1. auth = "store" /\ ~ over /\ Hint => step = 6
      BY <1>13
    <2>2. torn' <=> torn \/ (auth = "store" /\ over)
      BY <1>13 DEF AuthCrash
    <2> QED BY <1>13, <2>1, <2>2, GoneEffect DEF AuthCrash
  <1>14. CASE ResetOpen BY <1>14 DEF ResetOpen
  <1>15. CASE ResetHint BY <1>15 DEF ResetHint
  <1>16. CASE ResetFails BY <1>16 DEF ResetFails
  <1>17. CASE ResetRemove BY <1>17 DEF ResetRemove
  <1>18. CASE ResetCrash BY <1>18 DEF ResetCrash
  <1>19. CASE Revoke BY <1>19 DEF Revoke
  <1>20. CASE CollStart BY <1>20 DEF CollStart
  <1>21. CASE CollHint BY <1>21 DEF CollHint
  <1>22. CASE CollAgain BY <1>22 DEF CollAgain
  <1>23. CASE CollId BY <1>23 DEF CollId
  <1>24. CASE CollHash BY <1>24 DEF CollHash
  <1>25. CASE CollMute BY <1>25 DEF CollMute
  <1>26. CASE CollUp BY <1>26 DEF CollUp
  <1>27. CASE CollCorrupt BY <1>27 DEF CollCorrupt
  <1>28. CASE CollStop BY <1>28 DEF CollStop
  <1>29. CASE UNCHANGED vars BY <1>29 DEF vars
  <1> QED
    BY <1>1, <1>2, <1>3, <1>4, <1>5, <1>6, <1>7, <1>8, <1>9, <1>10, <1>11, <1>12,
       <1>13, <1>14, <1>15, <1>16, <1>17, <1>18, <1>19, <1>20, <1>21, <1>22, <1>23,
       <1>24, <1>25, <1>26, <1>27, <1>28, <1>29 DEF Next, Auth, Reset, Collect,
       World

LEMMA Initially == Init => IInv
  <1> SUFFICES ASSUME Init PROVE IInv
    OBVIOUS
  <1>1. TypeInv
    BY DEF Init, TypeInv, NoApi, Values
  <1>2. api.id = Empty /\ auth = "idle" /\ ~ Hint
    BY DEF Init, NoApi, Hint, Empty
  <1> QED
    BY <1>1, <1>2 DEF Init, IInv, ApiInv, StoreInv, CollInv, LoginInv, HintMeansCredentials,
       CollectorReadsPair, LoggedInUsable

LEMMA Inductive == Spec => []IInv
  <1>1. Init => IInv
    BY Initially
  <1>2. IInv /\ [Next]_vars => IInv'
    BY TypeStep, ApiStep, StoreStep, CollStep, LoginStep, HintStep, ReadStep,
       UsableStep DEF IInv
  <1> QED
    BY <1>1, <1>2, PTL DEF Spec

----------------------------------------------------------------------------
\* Whatever credentials there are, and wherever auth, auth-reset and the
\* collector are interrupted: the hint is set over a pair, except while a
\* second login rewrites it or after one was killed doing so.
THEOREM HintHolds == Spec => []HintMeansCredentials
  <1>1. IInv => HintMeansCredentials
    BY DEF IInv
  <1> QED
    BY <1>1, Inductive, PTL

\* The collector's setTdlibParameters gets a pair, unless somebody changed the
\* files between its two reads or they were torn.
THEOREM CollectorGetsPair == Spec => []CollectorReadsPair
  <1>1. IInv => CollectorReadsPair
    BY DEF IInv
  <1> QED
    BY <1>1, Inductive, PTL

\* After "Logged in!" the hint is set over a pair until the user takes the
\* login back, and there is a session, unless auth-reset had removed its
\* database during the dialogue; credentials torn by a killed login excepted.
THEOREM LoginHolds == Spec => []LoggedInUsable
  <1>1. IInv => LoggedInUsable
    BY DEF IInv
  <1> QED
    BY <1>1, Inductive, PTL

=============================================================================
