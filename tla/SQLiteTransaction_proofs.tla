----------------------- MODULE SQLiteTransaction_proofs -----------------------
(***************************************************************************)
(* Until a COMMIT fails, SQLiteDatabase.write is atomic, for any number    *)
(* of calls, any nesting and any failing statements or crashes, and it     *)
(* implements AtomicCalls.  Whatever has failed, a call that returned is   *)
(* on disk, and between calls no transaction is open.                      *)
(***************************************************************************)
EXTENDS SQLiteTransaction, SequenceTheorems, FiniteSetTheorems, TLAPS

LEMMA InitInv == Init => IInv
<1> SUFFICES ASSUME Init PROVE IInv
  OBVIOUS
<1> USE TransactionAssumption DEF Init
<1>1. Calls = {} /\ LastCall = 0
  BY DEF Calls, LastCall
<1>2. CallsTypeOK
  <2>1. raising \in BOOLEAN /\ inTx \in BOOLEAN
    BY Zenon
  <2>2. /\ blocks \in Seq({"read", "write"}) /\ asked \in Seq(0..MaxRows)
        /\ outcome \in Seq(Outcomes) /\ Len(asked) = Len(outcome)
    OBVIOUS
  <2>3. depth \in Int /\ readDepth \in Int /\ pending \subseteq Rows /\ durable \subseteq Rows
    OBVIOUS
  <2>4. QED BY <2>1, <2>2, <2>3, Zenon DEF CallsTypeOK
<1>3. BlocksCounted
  BY DEF BlocksCounted
<1>4. QED BY <1>1, <1>2, <1>3 DEF IInv, CallsCounted, ReturnedIsDurable, OthersLeftNothing

\* What the invariant says of the blocks that are open.
LEMMA OpenBlocks ==
  ASSUME IInv, blocks # <<>>
  PROVE  /\ blocks \in Seq({"read", "write"}) /\ Len(blocks) \in Nat \ {0}
         /\ Innermost \in {"read", "write"} /\ Innermost = blocks[1]
         /\ DepthOf(Innermost) = Len(blocks)
         /\ LastCall \in Calls /\ LastCall \in Nat \ {0} /\ outcome[LastCall] = "running"
         /\ asked[LastCall] \in 0..MaxRows
<1>1. blocks \in Seq({"read", "write"}) /\ Len(blocks) \in Nat \ {0}
  BY DEF IInv, CallsTypeOK
<1>2. Innermost \in {"read", "write"} /\ Innermost = blocks[1]
  BY <1>1 DEF IInv, BlocksCounted, Innermost
<1>3. LastCall \in Calls /\ LastCall \in Nat \ {0}
  BY DEF IInv, CallsTypeOK, CallsCounted, Calls, LastCall
<1>4. DepthOf(Innermost) = Len(blocks)
  BY <1>1, <1>2 DEF IInv, BlocksCounted, DepthOf
<1>5. outcome[LastCall] = "running"
  BY <1>3 DEF IInv, CallsCounted
<1>6. asked[LastCall] \in 0..MaxRows
  <2>1. asked \in Seq(0..MaxRows) /\ LastCall \in 1..Len(asked)
    BY <1>3 DEF IInv, CallsTypeOK, Calls
  <2>2. QED BY <2>1, ElementOfSeq
<1>7. QED BY <1>1, <1>2, <1>3, <1>4, <1>5, <1>6

\* Leaving the innermost block.
LEMMA LeaveBlocks ==
  ASSUME CallsTypeOK, blocks # <<>>, Leave
  PROVE  /\ blocks' \in Seq({"read", "write"})
         /\ Len(blocks') = Len(blocks) - 1
         /\ \A i \in 1..Len(blocks') : blocks'[i] = blocks[i]
         /\ (blocks' = <<>>) = (Len(blocks) = 1)
<1>1. blocks \in Seq({"read", "write"}) /\ Len(blocks) \in Nat \ {0}
  BY DEF CallsTypeOK
<1>2. /\ blocks' \in Seq({"read", "write"})
      /\ Len(blocks') = Len(blocks) - 1
      /\ \A i \in 1..Len(blocks') : blocks'[i] = blocks[i]
  <2>1. \A i \in 1..(Len(blocks) - 1) : blocks[i] \in {"read", "write"}
    BY <1>1, ElementOfSeq
  <2> DEFINE n == Len(blocks) - 1
  <2>2. 1 \in Int /\ n \in Int
    BY <1>1
  <2> HIDE DEF n
  <2>3. /\ SubSeq(blocks, 1, n) \in Seq({"read", "write"})
        /\ Len(SubSeq(blocks, 1, n)) = IF 1 =< n THEN n - 1 + 1 ELSE 0
        /\ \A i \in 1..(n - 1 + 1) : SubSeq(blocks, 1, n)[i] = blocks[1 + i - 1]
    BY <2>1, <2>2, SubSeqProperties DEF n
  <2>4. blocks' = SubSeq(blocks, 1, n) /\ n = Len(blocks) - 1 /\ n \in Nat
    BY <1>1 DEF Leave, n
  <2>5. Len(blocks') = n /\ n - 1 + 1 = n /\ \A i \in 1..n : 1 + i - 1 = i
    BY <2>3, <2>4
  <2>6. \A i \in 1..n : blocks'[i] = blocks[i]
    BY <2>3, <2>4, <2>5
  <2>7. QED BY <2>3, <2>4, <2>5, <2>6
<1>3. QED BY <1>1, <1>2

-----------------------------------------------------------------------------
\* A call starts: it has written nothing.
LEMMA StartedCall ==
  ASSUME CallsTypeOK, NEW o \in Outcomes, LastCall < MaxCalls,
         asked' = Append(asked, 0), outcome' = Append(outcome, o)
  PROVE  /\ asked' \in Seq(0..MaxRows) /\ outcome' \in Seq(Outcomes)
         /\ Len(asked') = Len(outcome')
         /\ LastCall' = LastCall + 1 /\ LastCall \in Nat
         /\ Calls' = Calls \cup {LastCall'} /\ LastCall' \notin Calls
         /\ \A c \in Calls : outcome'[c] = outcome[c] /\ asked'[c] = asked[c]
         /\ outcome'[LastCall'] = o /\ asked'[LastCall'] = 0
<1>1. asked \in Seq(0..MaxRows) /\ outcome \in Seq(Outcomes) /\ Len(asked) = Len(outcome)
  BY DEF CallsTypeOK
<1>2. 0 \in 0..MaxRows
  BY TransactionAssumption
<1>3. QED BY <1>1, <1>2 DEF LastCall, Calls

\* With nothing newly on disk, the verdict on every earlier call stands.
LEMMA VerdictsStand ==
  ASSUME IInv, durable' = durable, Calls \subseteq Calls',
         \A c \in Calls : asked'[c] = asked[c],
         \A c \in Calls : outcome'[c] = outcome[c]
                          \/ (outcome[c] = "running" /\ outcome'[c] # "returned"),
         \A c \in Calls' \ Calls : outcome'[c] # "returned"
  PROVE  /\ ReturnedIsDurable' /\ OthersLeftNothing'
         /\ \A r \in durable' : r[1] \in Calls'
<1>1. \A r \in durable : r[1] \in Calls
  BY DEF IInv, CallsCounted
<1>2. ReturnedIsDurable'
  BY DEF IInv, ReturnedIsDurable
<1>3. OthersLeftNothing'
  <2>1. SUFFICES ASSUME NEW c \in Calls', outcome'[c] # "returned"
                 PROVE  durable \cap RowsOf(c) = {}
    BY DEF OthersLeftNothing, RowsOf
  <2>2. CASE c \in Calls
    BY <2>1, <2>2 DEF IInv, OthersLeftNothing
  <2>3. CASE c \notin Calls
    BY <1>1, <2>3 DEF RowsOf
  <2>4. QED BY <2>2, <2>3
<1>4. QED BY <1>1, <1>2, <1>3

LEMMA EnterStep ==
  ASSUME IInv, NEW kind \in {"read", "write"}, Enter(kind)
  PROVE  IInv'
<1>1. /\ ~raising /\ raising' = raising
      /\ blocks' = Append(blocks, kind) /\ SetDepth(kind, DepthOf(kind) + 1)
      /\ StartCall
      /\ IF DepthOf(kind) = 0 THEN Begin ELSE UNCHANGED engineVars
  BY DEF Enter
<1>2. blocks \in Seq({"read", "write"}) /\ depth \in Int /\ readDepth \in Int
      /\ pending \subseteq Rows /\ durable \subseteq Rows
  BY DEF IInv, CallsTypeOK
<1>3. /\ blocks' \in Seq({"read", "write"}) /\ Len(blocks') = Len(blocks) + 1
      /\ Len(blocks) \in Nat /\ blocks' # <<>>
      /\ \A i \in 1..Len(blocks) : blocks'[i] = blocks[i]
      /\ blocks'[Len(blocks) + 1] = kind
  BY <1>1, <1>2
<1>4. CASE blocks = <<>>
  <2>1. DepthOf(kind) = 0 /\ depth = 0 /\ readDepth = 0 /\ ~inTx
    BY <1>4 DEF IInv, BlocksCounted, DepthOf
  <2>2. /\ inTx' = TRUE /\ pending' = pending /\ durable' = durable /\ pending = {}
        /\ LastCall < MaxCalls
        /\ asked' = Append(asked, 0) /\ outcome' = Append(outcome, "running")
    BY <1>1, <1>4, <2>1 DEF Begin, StartCall, IInv, CallsCounted
  <2>3. /\ asked' \in Seq(0..MaxRows) /\ outcome' \in Seq(Outcomes)
        /\ Len(asked') = Len(outcome')
        /\ LastCall' = LastCall + 1 /\ LastCall \in Nat
        /\ Calls' = Calls \cup {LastCall'} /\ LastCall' \notin Calls
        /\ \A c \in Calls : outcome'[c] = outcome[c] /\ asked'[c] = asked[c]
        /\ outcome'[LastCall'] = "running" /\ asked'[LastCall'] = 0
    BY <2>2, StartedCall DEF IInv, Outcomes
  <2>4. depth' \in Int /\ readDepth' \in Int
        /\ depth' = (IF kind = "write" THEN 1 ELSE 0)
        /\ readDepth' = (IF kind = "read" THEN 1 ELSE 0)
    BY <1>1, <2>1 DEF SetDepth
  <2>5. inTx' \in BOOLEAN /\ raising' \in BOOLEAN /\ ~raising' /\ inTx'
    <3>1. raising \in BOOLEAN
      BY Zenon DEF IInv, CallsTypeOK
    <3>2. inTx' \in BOOLEAN
      BY <2>2, Zenon
    <3>3. QED BY <1>1, <2>2, <3>1, <3>2, Zenon
  <2>6. CallsTypeOK'
    BY <1>2, <1>3, <2>2, <2>3, <2>4, <2>5, Zenon DEF CallsTypeOK, Rows
  <2>7. Len(blocks) = 0 /\ Len(blocks') = 1 /\ blocks'[1] = kind
    BY <1>3, <1>4
  <2>8. BlocksCounted'
    BY <1>3, <2>4, <2>5, <2>7 DEF BlocksCounted
  <2>9. ReturnedIsDurable' /\ OthersLeftNothing' /\ \A r \in durable' : r[1] \in Calls'
    BY <2>2, <2>3, VerdictsStand
  <2>10. \A c \in Calls : outcome[c] # "running"
    BY <1>4 DEF IInv, CallsCounted
  <2>11. pending' = {LastCall'} \X (1..asked'[LastCall'])
    <3>1. 1..asked'[LastCall'] = {}
      BY <2>3
    <3>2. {LastCall'} \X {} = {}
      OBVIOUS
    <3>3. QED BY <2>2, <3>1, <3>2
  <2>12. CallsCounted'
    <3>1. LastCall' =< MaxCalls /\ LastCall' # 0
      BY <2>2, <2>3, TransactionAssumption
    <3>2. \A c \in Calls' : (outcome'[c] = "running") <=> (blocks' # <<>> /\ c = LastCall')
      BY <1>3, <2>3, <2>10
    <3>3. QED BY <2>5, <2>9, <2>11, <3>1, <3>2 DEF CallsCounted
  <2>13. QED BY <2>6, <2>8, <2>9, <2>12 DEF IInv
<1>5. CASE blocks # <<>>
  <2>1. inTx /\ kind = blocks[1] /\ DepthOf(kind) = Len(blocks) /\ Len(blocks) # 0
    BY <1>1, <1>2, <1>3, <1>5 DEF IInv, BlocksCounted, DepthOf, Begin
  <2>2. UNCHANGED <<inTx, pending, durable, asked, outcome>>
    BY <1>1, <1>5, <2>1 DEF StartCall, engineVars, callVars
  <2>3. depth' \in Int /\ readDepth' \in Int
        /\ depth' = (IF kind = "write" THEN Len(blocks) + 1 ELSE 0)
        /\ readDepth' = (IF kind = "read" THEN Len(blocks) + 1 ELSE 0)
    BY <1>1, <1>2, <1>3, <1>5, <2>1 DEF SetDepth, IInv, BlocksCounted
  <2>4. CallsTypeOK'
    BY <1>1, <1>3, <2>2, <2>3 DEF IInv, CallsTypeOK, Rows
  <2>5. blocks'[1] = kind /\ \A i \in 1..Len(blocks') : blocks'[i] = kind
    BY <1>3, <2>1 DEF IInv, BlocksCounted
  <2>6. BlocksCounted'
    BY <1>1, <1>3, <2>1, <2>2, <2>3, <2>5 DEF BlocksCounted
  <2>7. CallsCounted'
    BY <1>3, <1>5, <2>2 DEF IInv, CallsCounted, Calls, LastCall
  <2>8. ReturnedIsDurable' /\ OthersLeftNothing'
    BY <2>2 DEF IInv, ReturnedIsDurable, OthersLeftNothing, Calls, RowsOf
  <2>9. QED BY <2>4, <2>6, <2>7, <2>8 DEF IInv
<1>6. QED BY <1>4, <1>5

LEMMA EnterFailsStep ==
  ASSUME IInv, NEW kind \in {"read", "write"}, EnterFails(kind)
  PROVE  IInv'
<1>1. UNCHANGED <<blocks, depth, readDepth, inTx, pending, durable>>
  BY DEF EnterFails, engineVars
<1>2. CASE blocks = <<>>
  <2>1. /\ LastCall < MaxCalls /\ raising' = raising
        /\ asked' = Append(asked, 0) /\ outcome' = Append(outcome, "threw")
    BY <1>2 DEF EnterFails
  <2>2. /\ asked' \in Seq(0..MaxRows) /\ outcome' \in Seq(Outcomes)
        /\ Len(asked') = Len(outcome')
        /\ LastCall' = LastCall + 1 /\ LastCall \in Nat
        /\ Calls' = Calls \cup {LastCall'} /\ LastCall' \notin Calls
        /\ \A c \in Calls : outcome'[c] = outcome[c] /\ asked'[c] = asked[c]
        /\ outcome'[LastCall'] = "threw"
    BY <2>1, StartedCall DEF IInv, Outcomes
  <2>3. CallsTypeOK'
    BY <1>1, <2>1, <2>2 DEF IInv, CallsTypeOK, Rows
  <2>4. BlocksCounted'
    BY <1>1, <2>1 DEF IInv, BlocksCounted
  <2>5. ReturnedIsDurable' /\ OthersLeftNothing' /\ \A r \in durable' : r[1] \in Calls'
    BY <1>1, <2>2, VerdictsStand
  <2>6. CallsCounted'
    <3>1. LastCall' =< MaxCalls
      BY <2>1, <2>2, TransactionAssumption
    <3>2. ~inTx /\ pending = {}
      BY <1>2 DEF IInv, BlocksCounted, CallsCounted
    <3>3. \A c \in Calls' : outcome'[c] # "running"
      BY <1>2, <2>2 DEF IInv, CallsCounted
    <3>4. QED BY <1>1, <1>2, <2>5, <3>1, <3>2, <3>3 DEF CallsCounted
  <2>7. QED BY <2>3, <2>4, <2>5, <2>6 DEF IInv
<1>3. CASE blocks # <<>>
  <2>1. raising' = TRUE /\ UNCHANGED <<asked, outcome>>
    BY <1>3 DEF EnterFails, callVars
  <2>2. CallsTypeOK'
    <3>1. raising' \in BOOLEAN
      BY <2>1, Zenon
    <3>2. QED BY <1>1, <2>1, <3>1 DEF IInv, CallsTypeOK, Rows
  <2>3. BlocksCounted'
    BY <1>1, <1>3, <2>1 DEF IInv, BlocksCounted
  <2>4. CallsCounted' /\ ReturnedIsDurable' /\ OthersLeftNothing'
    BY <1>1, <2>1 DEF IInv, CallsCounted, ReturnedIsDurable, OthersLeftNothing,
       Calls, LastCall, RowsOf
  <2>5. QED BY <2>2, <2>3, <2>4 DEF IInv
<1>4. QED BY <1>2, <1>3

LEMMA StatementStep ==
  ASSUME IInv, Statement
  PROVE  IInv'
<1> DEFINE k == asked[LastCall] + 1
<1>1. /\ blocks # <<>> /\ ~raising /\ asked[LastCall] < MaxRows
      /\ Store(<<LastCall, k>>) /\ asked' = [asked EXCEPT ![LastCall] = @ + 1]
      /\ UNCHANGED <<blocks, raising, depth, readDepth, outcome>>
  BY DEF Statement, handleVars
<1>2. LastCall \in Calls /\ LastCall \in Nat \ {0} /\ outcome[LastCall] = "running"
      /\ asked[LastCall] \in 0..MaxRows
  BY <1>1, OpenBlocks
<1>3. inTx
  BY <1>1 DEF IInv, BlocksCounted
<1>4. pending' = pending \cup {<<LastCall, k>>} /\ UNCHANGED <<inTx, durable>>
  BY <1>1, <1>3 DEF Store
<1>5. asked \in Seq(0..MaxRows) /\ Len(asked) = Len(outcome) /\ Calls = 1..Len(asked)
  BY DEF IInv, CallsTypeOK, Calls
<1>6. k \in 1..MaxRows
  BY <1>1, <1>2, TransactionAssumption
<1>7. /\ asked' \in Seq(0..MaxRows) /\ Len(asked') = Len(asked)
      /\ \A c \in Calls : c # LastCall => asked'[c] = asked[c]
      /\ asked'[LastCall] = k
  BY <1>1, <1>2, <1>5, <1>6
<1>8. LastCall =< MaxCalls
  BY DEF IInv, CallsCounted
<1>9. <<LastCall, k>> \in Rows
  BY <1>2, <1>6, <1>8, TransactionAssumption DEF Rows
<1>10. Calls' = Calls /\ LastCall' = LastCall
  BY <1>1 DEF Calls, LastCall
<1>11. CallsTypeOK'
  <2>1. pending' \subseteq Rows
    BY <1>4, <1>9 DEF IInv, CallsTypeOK
  <2>2. Rows' = Rows
    BY DEF Rows
  <2>3. QED BY <1>1, <1>4, <1>5, <1>7, <2>1, <2>2 DEF IInv, CallsTypeOK
<1>12. BlocksCounted'
  BY <1>1, <1>4 DEF IInv, BlocksCounted
<1>13. CallsCounted'
  <2>1. pending = {LastCall} \X (1..asked[LastCall])
    BY <1>3 DEF IInv, CallsCounted
  <2>2. 1..k = (1..asked[LastCall]) \cup {k}
    BY <1>2
  <2>3. pending' = {LastCall} \X (1..k)
    BY <1>4, <2>1, <2>2
  <2>4. QED BY <1>1, <1>3, <1>4, <1>7, <1>10, <2>3 DEF IInv, CallsCounted
<1>14. ReturnedIsDurable' /\ OthersLeftNothing'
  BY <1>1, <1>2, <1>4, <1>7, <1>10 DEF IInv, ReturnedIsDurable, OthersLeftNothing, RowsOf
<1>15. QED BY <1>11, <1>12, <1>13, <1>14 DEF IInv

LEMMA BlockThrowsStep ==
  ASSUME IInv, BlockThrows
  PROVE  IInv'
<1>1. /\ blocks # <<>> /\ raising' = TRUE /\ durable' = durable
      /\ UNCHANGED <<blocks, depth, readDepth, asked, outcome>>
      /\ (inTx' = inTx /\ pending' = pending) \/ (inTx' = FALSE /\ pending' = {})
  BY DEF BlockThrows, engineVars, callVars, Discard
<1>2. raising' \in BOOLEAN /\ inTx' \in BOOLEAN
  BY <1>1, Zenon DEF IInv, CallsTypeOK
<1>3. CallsTypeOK'
  BY <1>1, <1>2 DEF IInv, CallsTypeOK, Rows
<1>4. BlocksCounted'
  BY <1>1 DEF IInv, BlocksCounted
<1>5. CallsCounted' /\ ReturnedIsDurable' /\ OthersLeftNothing'
  BY <1>1 DEF IInv, CallsCounted, ReturnedIsDurable, OthersLeftNothing, Calls, LastCall, RowsOf
<1>6. QED BY <1>3, <1>4, <1>5 DEF IInv

-----------------------------------------------------------------------------
\* A block is left: the depth of its kind falls by one.
LEMMA LeftBlocks ==
  ASSUME IInv, blocks # <<>>, Leave, SetDepth(Innermost, DepthOf(Innermost) - 1)
  PROVE  /\ blocks' \in Seq({"read", "write"})
         /\ depth' \in Int /\ readDepth' \in Int
         /\ \A i \in 1..Len(blocks') : blocks'[i] = blocks'[1]
         /\ depth' = IF blocks' # <<>> /\ blocks'[1] = "write" THEN Len(blocks') ELSE 0
         /\ readDepth' = IF blocks' # <<>> /\ blocks'[1] = "read" THEN Len(blocks') ELSE 0
         /\ (blocks' = <<>>) = (Len(blocks) = 1)
<1>1. /\ Len(blocks) \in Nat \ {0} /\ Innermost \in {"read", "write"}
      /\ Innermost = blocks[1] /\ DepthOf(Innermost) = Len(blocks)
  BY OpenBlocks
<1>2. /\ blocks' \in Seq({"read", "write"}) /\ Len(blocks') = Len(blocks) - 1
      /\ \A i \in 1..Len(blocks') : blocks'[i] = blocks[i]
      /\ (blocks' = <<>>) = (Len(blocks) = 1)
  BY LeaveBlocks DEF IInv
<1>3. \A i \in 1..Len(blocks) : blocks[i] = blocks[1]
  BY DEF IInv, BlocksCounted
<1>4. \A i \in 1..Len(blocks') : blocks'[i] = blocks[1]
  BY <1>1, <1>2, <1>3
<1>5. blocks' # <<>> => blocks'[1] = blocks[1]
  BY <1>1, <1>2, <1>4
<1>6. /\ depth' = IF blocks[1] = "write" THEN Len(blocks) - 1 ELSE 0
      /\ readDepth' = IF blocks[1] = "read" THEN Len(blocks) - 1 ELSE 0
  BY <1>1 DEF SetDepth, IInv, BlocksCounted
<1>7. QED BY <1>1, <1>2, <1>4, <1>5, <1>6

\* The report of a call whose outermost block is left.
LEMMA ReportedCall ==
  ASSUME CallsTypeOK, LastCall # 0, NEW result \in Outcomes, Report(result)
  PROVE  /\ outcome' \in Seq(Outcomes) /\ Len(outcome') = Len(outcome)
         /\ asked' = asked
         /\ Calls' = Calls /\ LastCall' = LastCall
         /\ \A c \in Calls : outcome'[c] = IF Len(blocks) = 1 /\ c = LastCall
                                           THEN result ELSE outcome[c]
<1>1. outcome \in Seq(Outcomes) /\ LastCall \in Calls /\ Calls = 1..Len(outcome)
  BY DEF CallsTypeOK, Calls, LastCall
<1>2. QED BY <1>1 DEF Report, Calls, LastCall

LEMMA ReturnStep ==
  ASSUME IInv, Return
  PROVE  IInv'
<1>1. /\ blocks # <<>> /\ ~raising /\ raising' = raising
      /\ SetDepth(Innermost, DepthOf(Innermost) - 1)
      /\ IF DepthOf(Innermost) = 1 THEN Commit ELSE UNCHANGED engineVars
      /\ Leave /\ Report("returned")
  BY DEF Return
<1>2. /\ LastCall \in Calls /\ outcome[LastCall] = "running"
      /\ DepthOf(Innermost) = Len(blocks)
  BY <1>1, OpenBlocks
<1>3. inTx /\ pending = {LastCall} \X (1..asked[LastCall])
  BY <1>1 DEF IInv, BlocksCounted, CallsCounted
<1>4. /\ blocks' \in Seq({"read", "write"})
      /\ depth' \in Int /\ readDepth' \in Int
      /\ \A i \in 1..Len(blocks') : blocks'[i] = blocks'[1]
      /\ depth' = IF blocks' # <<>> /\ blocks'[1] = "write" THEN Len(blocks') ELSE 0
      /\ readDepth' = IF blocks' # <<>> /\ blocks'[1] = "read" THEN Len(blocks') ELSE 0
      /\ (blocks' = <<>>) = (Len(blocks) = 1)
  BY <1>1, LeftBlocks
<1>5. "returned" \in Outcomes
  BY DEF Outcomes
<1>6. /\ outcome' \in Seq(Outcomes) /\ Len(outcome') = Len(outcome)
      /\ asked' = asked
      /\ Calls' = Calls /\ LastCall' = LastCall
      /\ \A c \in Calls : outcome'[c] = IF Len(blocks) = 1 /\ c = LastCall
                                        THEN "returned" ELSE outcome[c]
  BY <1>1, <1>5, ReportedCall, OpenBlocks DEF IInv
<1>7. CASE Len(blocks) = 1
  <2>1. /\ inTx' = FALSE /\ pending' = {}
        /\ durable' = durable \cup ({LastCall} \X (1..asked[LastCall]))
    BY <1>1, <1>2, <1>3, <1>7 DEF Commit
  <2>2. CallsTypeOK'
    <3>1. inTx' \in BOOLEAN /\ raising' \in BOOLEAN
      BY <1>1, <2>1, Zenon DEF IInv, CallsTypeOK
    <3>2. durable' \subseteq Rows /\ Rows' = Rows
      BY <1>3, <2>1 DEF IInv, CallsTypeOK, Rows
    <3>3. QED BY <1>4, <1>6, <2>1, <3>1, <3>2 DEF IInv, CallsTypeOK
  <2>3. BlocksCounted'
    BY <1>1, <1>4, <1>7, <2>1 DEF BlocksCounted
  <2>4. CallsCounted'
    BY <1>2, <1>4, <1>6, <1>7, <2>1 DEF IInv, CallsCounted
  <2>5. ReturnedIsDurable'
    BY <1>6, <1>7, <2>1 DEF IInv, ReturnedIsDurable
  <2>6. OthersLeftNothing'
    BY <1>6, <1>7, <2>1 DEF IInv, OthersLeftNothing, RowsOf
  <2>7. QED BY <2>2, <2>3, <2>4, <2>5, <2>6 DEF IInv
<1>8. CASE Len(blocks) # 1
  <2>1. UNCHANGED <<inTx, pending, durable>>
    BY <1>1, <1>2, <1>8 DEF engineVars
  <2>2. CallsTypeOK'
    BY <1>1, <1>4, <1>6, <2>1 DEF IInv, CallsTypeOK, Rows
  <2>3. BlocksCounted'
    BY <1>1, <1>3, <1>4, <1>8, <2>1 DEF BlocksCounted
  <2>4. CallsCounted'
    BY <1>1, <1>4, <1>6, <1>8, <2>1 DEF IInv, CallsCounted
  <2>5. ReturnedIsDurable' /\ OthersLeftNothing'
    BY <1>6, <1>8, <2>1 DEF IInv, ReturnedIsDurable, OthersLeftNothing, RowsOf
  <2>6. QED BY <2>2, <2>3, <2>4, <2>5 DEF IInv
<1>9. QED BY <1>7, <1>8

LEMMA CatchStep ==
  ASSUME IInv, Catch
  PROVE  IInv'
<1>1. /\ blocks # <<>> /\ raising
      /\ raising' = (Len(blocks) > 1)
      /\ SetDepth(Innermost, DepthOf(Innermost) - 1)
      /\ IF DepthOf(Innermost) = 1 THEN Discard ELSE UNCHANGED engineVars
      /\ Leave /\ Report("threw")
  BY DEF Catch
<1>2. /\ LastCall \in Calls /\ outcome[LastCall] = "running"
      /\ DepthOf(Innermost) = Len(blocks) /\ Len(blocks) \in Nat \ {0}
  BY <1>1, OpenBlocks
<1>3. /\ blocks' \in Seq({"read", "write"})
      /\ depth' \in Int /\ readDepth' \in Int
      /\ \A i \in 1..Len(blocks') : blocks'[i] = blocks'[1]
      /\ depth' = IF blocks' # <<>> /\ blocks'[1] = "write" THEN Len(blocks') ELSE 0
      /\ readDepth' = IF blocks' # <<>> /\ blocks'[1] = "read" THEN Len(blocks') ELSE 0
      /\ (blocks' = <<>>) = (Len(blocks) = 1)
  BY <1>1, LeftBlocks
<1>4. "threw" \in Outcomes
  BY DEF Outcomes
<1>5. /\ outcome' \in Seq(Outcomes) /\ Len(outcome') = Len(outcome)
      /\ asked' = asked
      /\ Calls' = Calls /\ LastCall' = LastCall
      /\ \A c \in Calls : outcome'[c] = IF Len(blocks) = 1 /\ c = LastCall
                                        THEN "threw" ELSE outcome[c]
  BY <1>1, <1>4, ReportedCall, OpenBlocks DEF IInv
<1>6. /\ durable' = durable
      /\ Len(blocks) = 1 => inTx' = FALSE /\ pending' = {}
      /\ Len(blocks) # 1 => inTx' = inTx /\ pending' = pending
  BY <1>1, <1>2 DEF Discard, engineVars
<1>7. CallsTypeOK'
  <2>1. raising' \in BOOLEAN
    <3>1. (Len(blocks) > 1) \in BOOLEAN
      OBVIOUS
    <3>2. QED BY <1>1, <3>1, Zenon
  <2>2. inTx' \in BOOLEAN
    BY <1>6, Zenon DEF IInv, CallsTypeOK
  <2>3. QED BY <1>3, <1>5, <1>6, <2>1, <2>2 DEF IInv, CallsTypeOK, Rows
<1>8. BlocksCounted'
  <2>1. raising' <=> Len(blocks) > 1
    BY <1>1, Zenon
  <2>2. (blocks' = <<>>) <=> ~(Len(blocks) > 1)
    BY <1>2, <1>3
  <2>3. inTx' => blocks' # <<>>
    BY <1>2, <1>3, <1>6
  <2>4. QED BY <1>3, <2>1, <2>2, <2>3 DEF BlocksCounted
<1>9. ReturnedIsDurable' /\ OthersLeftNothing' /\ \A r \in durable' : r[1] \in Calls'
  BY <1>2, <1>5, <1>6, VerdictsStand
<1>10. CallsCounted'
  BY <1>1, <1>2, <1>3, <1>5, <1>6, <1>9 DEF IInv, CallsCounted
<1>11. QED BY <1>7, <1>8, <1>9, <1>10 DEF IInv

\* A crash, at any point of a call, and the reopening of the file.
LEMMA ReopenStep ==
  ASSUME IInv, Reopen
  PROVE  IInv'
<1>1. /\ blocks' = <<>> /\ raising' = FALSE /\ depth' = 0 /\ readDepth' = 0
      /\ inTx' = FALSE /\ pending' = {} /\ durable' = durable /\ asked' = asked
  BY DEF Reopen, Discard
<1>2. outcome \in Seq(Outcomes) /\ Calls = 1..Len(outcome)
  BY DEF IInv, CallsTypeOK, Calls
<1>3. /\ outcome' \in Seq(Outcomes) /\ Len(outcome') = Len(outcome)
      /\ \A c \in Calls : outcome'[c] = outcome[c]
                          \/ (outcome[c] = "running" /\ outcome'[c] = "lost")
      /\ \A c \in Calls : outcome'[c] # "running"
  <2>1. CASE blocks = <<>>
    BY <1>2, <2>1 DEF Reopen, IInv, CallsCounted
  <2>2. CASE blocks # <<>>
    <3>1. LastCall \in Calls /\ outcome[LastCall] = "running"
          /\ \A c \in Calls : c # LastCall => outcome[c] # "running"
      BY <2>2, OpenBlocks DEF IInv, CallsCounted
    <3>2. QED BY <1>2, <2>2, <3>1 DEF Reopen, Outcomes
  <2>3. QED BY <2>1, <2>2
<1>4. Calls' = Calls /\ LastCall' = LastCall
  BY <1>3 DEF Calls, LastCall
<1>5. CallsTypeOK'
  <2>1. raising' \in BOOLEAN /\ inTx' \in BOOLEAN
    BY <1>1, Zenon
  <2>2. blocks' \in Seq({"read", "write"}) /\ depth' \in Int /\ readDepth' \in Int
    BY <1>1
  <2>3. QED BY <1>1, <1>3, <2>1, <2>2 DEF IInv, CallsTypeOK, Rows
<1>6. BlocksCounted'
  BY <1>1 DEF BlocksCounted
<1>7. ReturnedIsDurable' /\ OthersLeftNothing' /\ \A r \in durable' : r[1] \in Calls'
  BY <1>1, <1>3, <1>4, VerdictsStand
<1>8. CallsCounted'
  BY <1>1, <1>3, <1>4, <1>7 DEF IInv, CallsCounted
<1>9. QED BY <1>5, <1>6, <1>7, <1>8 DEF IInv

LEMMA StepInv ==
  ASSUME commitFailed \/ IInv, [Next]_vars
  PROVE  (commitFailed \/ IInv)'
<1>1. CASE UNCHANGED vars
  <2>1. commitFailed' = commitFailed
    BY <1>1 DEF vars
  <2>2. IInv => IInv'
    BY <1>1 DEF vars, IInv, CallsTypeOK, BlocksCounted, CallsCounted, ReturnedIsDurable,
       OthersLeftNothing, Calls, LastCall, Rows, RowsOf
  <2>3. QED BY <2>1, <2>2, Zenon
<1>2. CASE ReturnThrows /\ commitFailed' = TRUE
  BY <1>2
<1>3. CASE Step /\ UNCHANGED commitFailed
  <2>1. IInv => IInv'
    BY <1>3, EnterStep, EnterFailsStep, StatementStep, BlockThrowsStep,
       ReturnStep, CatchStep, ReopenStep DEF Step
  <2>2. QED BY <1>3, <2>1, Zenon
<1>4. QED BY <1>1, <1>2, <1>3 DEF Next

\* Until a COMMIT fails, the inductive invariant holds.
THEOREM Invariance == Spec => [](commitFailed \/ IInv)
<1>1. Init => commitFailed \/ IInv
  BY InitInv
<1>2. (commitFailed \/ IInv) /\ [Next]_vars => (commitFailed \/ IInv)'
  BY StepInv
<1>3. QED BY <1>1, <1>2, PTL DEF Spec

\* Until a COMMIT fails, a call that did not return left nothing on disk.
THEOREM Atomicity == Spec => []OthersLeaveNothing
<1>1. commitFailed \/ IInv => OthersLeaveNothing
  BY DEF IInv, OthersLeaveNothing
<1>2. QED BY <1>1, Invariance, PTL

-----------------------------------------------------------------------------
(* What holds whatever has failed.                                         *)

Kinds == {"read", "write"}

LEMMA OpenedFinite ==
  ASSUME CallsTypeOK, NEW k
  PROVE  IsFiniteSet(Opened(k)) /\ Cardinality(Opened(k)) \in Nat
<1>1. Len(blocks) \in Int /\ 1 \in Int
  BY DEF CallsTypeOK
<1>2. IsFiniteSet(1..Len(blocks))
  BY <1>1, FS_Interval
<1>3. Opened(k) \in SUBSET (1..Len(blocks))
  BY DEF Opened
<1>4. IsFiniteSet(Opened(k))
  BY <1>2, <1>3, FS_Subset
<1>5. QED BY <1>4, FS_CardinalityType

\* A block entered is one more open block of its kind.
LEMMA OneMoreOpen ==
  ASSUME CallsTypeOK, NEW kind \in Kinds, blocks' = Append(blocks, kind)
  PROVE  /\ blocks' \in Seq(Kinds) /\ blocks' # <<>>
         /\ \A k \in Kinds : /\ Cardinality(Opened(k)) \in Nat
                             /\ Cardinality(Opened(k))' = Cardinality(Opened(k))
                                                          + (IF k = kind THEN 1 ELSE 0)
<1>1. blocks \in Seq(Kinds) /\ Len(blocks) \in Nat
  BY DEF CallsTypeOK, Kinds
<1>2. /\ blocks' \in Seq(Kinds) /\ Len(blocks') = Len(blocks) + 1
      /\ \A i \in 1..Len(blocks) : blocks'[i] = blocks[i]
      /\ blocks'[Len(blocks) + 1] = kind
  BY <1>1
<1>3. ASSUME NEW k \in Kinds
      PROVE  IsFiniteSet(Opened(k)) /\ Cardinality(Opened(k)) \in Nat
  BY OpenedFinite
<1>4. ASSUME NEW k \in Kinds, k # kind PROVE Opened(k)' = Opened(k)
  BY <1>1, <1>2, <1>4 DEF Opened
<1>5. Opened(kind)' = Opened(kind) \cup {Len(blocks) + 1}
  BY <1>1, <1>2 DEF Opened
<1>6. Len(blocks) + 1 \notin Opened(kind)
  BY <1>1 DEF Opened
<1>7. Cardinality(Opened(kind))' = Cardinality(Opened(kind)) + 1
  BY <1>3, <1>5, <1>6, FS_AddElement
<1>8. ASSUME NEW k \in Kinds
      PROVE  Cardinality(Opened(k))' = Cardinality(Opened(k)) + (IF k = kind THEN 1 ELSE 0)
  BY <1>3, <1>4, <1>7
<1>9. QED BY <1>1, <1>2, <1>3, <1>8

\* A block left is one open block of its kind less.
LEMMA OneLessOpen ==
  ASSUME CallsTypeOK, blocks # <<>>, Leave
  PROVE  /\ Innermost \in Kinds
         /\ blocks' \in Seq(Kinds) /\ (blocks' = <<>>) = (Len(blocks) = 1)
         /\ \A k \in Kinds : /\ Cardinality(Opened(k)) \in Nat
                             /\ Cardinality(Opened(k))' = Cardinality(Opened(k))
                                                          - (IF k = Innermost THEN 1 ELSE 0)
<1>1. blocks \in Seq(Kinds) /\ Len(blocks) \in Nat \ {0} /\ Innermost \in Kinds
  BY DEF CallsTypeOK, Kinds, Innermost
<1>2. /\ blocks' \in Seq(Kinds) /\ Len(blocks') = Len(blocks) - 1
      /\ \A i \in 1..Len(blocks') : blocks'[i] = blocks[i]
      /\ (blocks' = <<>>) = (Len(blocks) = 1)
  BY LeaveBlocks DEF Kinds
<1>3. ASSUME NEW k \in Kinds
      PROVE  IsFiniteSet(Opened(k)) /\ Cardinality(Opened(k)) \in Nat
  BY OpenedFinite
<1>4. PICK kind \in Kinds : kind = blocks[Len(blocks)]
  BY <1>1 DEF Innermost
<1>5. ASSUME NEW k \in Kinds, k # kind PROVE Opened(k)' = Opened(k)
  BY <1>1, <1>2, <1>4, <1>5 DEF Opened
<1>6. Opened(kind)' = Opened(kind) \ {Len(blocks)} /\ Len(blocks) \in Opened(kind)
  BY <1>1, <1>2, <1>4 DEF Opened
<1>7. Cardinality(Opened(kind))' = Cardinality(Opened(kind)) - 1
  BY <1>3, <1>6, FS_RemoveElement
<1>8. ASSUME NEW k \in Kinds
      PROVE  Cardinality(Opened(k))' = Cardinality(Opened(k)) - (IF k = kind THEN 1 ELSE 0)
  BY <1>3, <1>5, <1>7
<1>9. QED BY <1>1, <1>2, <1>3, <1>4, <1>8 DEF Innermost

\* With nothing open no block counts.
LEMMA NoneOpen ==
  ASSUME blocks = <<>>, NEW k
  PROVE  Cardinality(Opened(k)) = 0
<1>1. Opened(k) = {}
  BY DEF Opened
<1>2. QED BY <1>1, FS_EmptySet

\* A block is left: its depth falls, so no depth passes the blocks left open.
LEMMA BlockLeft ==
  ASSUME CallsTypeOK, TransactionOwned, blocks # <<>>, Leave,
         NEW n \in Int, n =< DepthOf(Innermost) - 1, SetDepth(Innermost, n)
  PROVE  /\ blocks' \in Seq(Kinds) /\ depth' \in Int /\ readDepth' \in Int
         /\ \/ DepthOf(Innermost) = depth /\ depth' = n /\ readDepth' = readDepth
            \/ DepthOf(Innermost) = readDepth /\ readDepth' = n /\ depth' = depth
         /\ depth' =< Cardinality(Opened("write"))'
         /\ readDepth' =< Cardinality(Opened("read"))'
         /\ (blocks' = <<>>) = (Len(blocks) = 1)
         /\ blocks' = <<>> => depth' =< 0 /\ readDepth' =< 0
<1>1. depth \in Int /\ readDepth \in Int
  BY DEF CallsTypeOK
<1>2. /\ Innermost \in Kinds
      /\ blocks' \in Seq(Kinds) /\ (blocks' = <<>>) = (Len(blocks) = 1)
      /\ \A k \in Kinds : /\ Cardinality(Opened(k)) \in Nat
                          /\ Cardinality(Opened(k))' = Cardinality(Opened(k))
                                                       - (IF k = Innermost THEN 1 ELSE 0)
  BY OneLessOpen
<1>3. "write" \in Kinds /\ "read" \in Kinds
  BY DEF Kinds
<1>4. \/ Innermost = "write" /\ DepthOf(Innermost) = depth /\ depth' = n /\ readDepth' = readDepth
      \/ Innermost = "read" /\ DepthOf(Innermost) = readDepth /\ readDepth' = n /\ depth' = depth
  BY <1>2 DEF SetDepth, DepthOf, Kinds
<1>5. depth =< Cardinality(Opened("write")) /\ readDepth =< Cardinality(Opened("read"))
  BY DEF TransactionOwned
<1>6. /\ Cardinality(Opened("write")) \in Nat /\ Cardinality(Opened("read")) \in Nat
      /\ Cardinality(Opened("write"))' = Cardinality(Opened("write"))
                                         - (IF "write" = Innermost THEN 1 ELSE 0)
      /\ Cardinality(Opened("read"))' = Cardinality(Opened("read"))
                                        - (IF "read" = Innermost THEN 1 ELSE 0)
  BY <1>2, <1>3
<1>7. depth' =< Cardinality(Opened("write"))' /\ readDepth' =< Cardinality(Opened("read"))'
  BY <1>1, <1>4, <1>5, <1>6
<1>8. ASSUME blocks' = <<>>, NEW k \in Kinds PROVE Cardinality(Opened(k))' = 0
  <2>1. Opened(k)' = {}
    BY <1>8 DEF Opened
  <2>2. QED BY <2>1, FS_EmptySet
<1>9. blocks' = <<>> => depth' =< 0 /\ readDepth' =< 0
  <2>1. blocks' = <<>> => Cardinality(Opened("write"))' = 0 /\ Cardinality(Opened("read"))' = 0
    BY <1>3, <1>8
  <2>2. QED BY <1>7, <2>1
<1>10. QED BY <1>1, <1>2, <1>4, <1>7, <1>9

\* What is on disk stays, so a call that has returned stays durable.
LEMMA ReturnedStands ==
  ASSUME ReturnedIsDurable, durable \subseteq durable',
         \A c \in Calls' : outcome'[c] = "returned"
           => \/ c \in Calls /\ outcome[c] = "returned" /\ asked'[c] = asked[c]
              \/ {c} \X (1..asked'[c]) \subseteq durable'
  PROVE  ReturnedIsDurable'
<1>1. SUFFICES ASSUME NEW c \in Calls', outcome'[c] = "returned"
               PROVE  {c} \X (1..asked'[c]) \subseteq durable'
  BY DEF ReturnedIsDurable
<1>2. CASE c \in Calls /\ outcome[c] = "returned" /\ asked'[c] = asked[c]
  <2>1. {c} \X (1..asked[c]) \subseteq durable
    BY <1>2 DEF ReturnedIsDurable
  <2>2. QED BY <1>2, <2>1
<1>3. QED BY <1>1, <1>2

LEMMA InitF == Init => FInv
<1> SUFFICES ASSUME Init PROVE FInv
  OBVIOUS
<1>1. /\ blocks = <<>> /\ ~raising /\ depth = 0 /\ readDepth = 0 /\ ~inTx
      /\ pending = {} /\ outcome = <<>>
  BY DEF Init
<1>2. TypeOK
  <2>1. CallsTypeOK
    BY InitInv DEF IInv
  <2>2. commitFailed \in BOOLEAN
    BY Zenon DEF Init
  <2>3. QED BY <2>1, <2>2 DEF TypeOK
<1>3. TransactionOwned
  BY <1>1, NoneOpen DEF TransactionOwned
<1>4. RowsKept
  BY <1>1, TransactionAssumption DEF RowsKept, LastCall
<1>5. ReturnedIsDurable
  BY <1>1 DEF ReturnedIsDurable, Calls
<1>6. QED BY <1>2, <1>3, <1>4, <1>5 DEF FInv

LEMMA EnterF ==
  ASSUME FInv, NEW kind \in Kinds, Enter(kind), UNCHANGED commitFailed
  PROVE  FInv'
<1>1. /\ ~raising /\ raising' = raising
      /\ blocks' = Append(blocks, kind) /\ SetDepth(kind, DepthOf(kind) + 1)
      /\ StartCall
      /\ IF DepthOf(kind) = 0 THEN Begin ELSE UNCHANGED engineVars
  BY DEF Enter
<1>2. CallsTypeOK /\ TransactionOwned /\ RowsKept /\ ReturnedIsDurable
  BY DEF FInv, TypeOK
<1>3. depth \in Int /\ readDepth \in Int /\ pending \subseteq Rows /\ durable \subseteq Rows
  BY <1>2 DEF CallsTypeOK
<1>4. /\ blocks' \in Seq(Kinds) /\ blocks' # <<>>
      /\ \A k \in Kinds : /\ Cardinality(Opened(k)) \in Nat
                          /\ Cardinality(Opened(k))' = Cardinality(Opened(k))
                                                       + (IF k = kind THEN 1 ELSE 0)
  BY <1>1, <1>2, OneMoreOpen
<1>5. \/ kind = "write" /\ DepthOf(kind) = depth /\ depth' = depth + 1 /\ readDepth' = readDepth
      \/ kind = "read" /\ DepthOf(kind) = readDepth /\ readDepth' = readDepth + 1 /\ depth' = depth
  BY <1>1 DEF SetDepth, DepthOf, Kinds
<1>6. /\ pending' = pending /\ durable' = durable
      /\ \/ DepthOf(kind) = 0 /\ ~inTx /\ inTx'
         \/ DepthOf(kind) # 0 /\ inTx' = inTx
  BY <1>1 DEF Begin, engineVars
<1>7. inTx' \in BOOLEAN
  BY <1>1, <1>2, Zenon DEF CallsTypeOK, Begin, engineVars
<1>8. TransactionOwned'
  <2>1. depth =< Cardinality(Opened("write")) /\ readDepth =< Cardinality(Opened("read"))
    BY <1>2 DEF TransactionOwned
  <2>2. depth' =< Cardinality(Opened("write"))' /\ readDepth' =< Cardinality(Opened("read"))'
    <3>1. /\ Cardinality(Opened("write")) \in Nat /\ Cardinality(Opened("read")) \in Nat
          /\ Cardinality(Opened("write"))' = Cardinality(Opened("write"))
                                             + (IF "write" = kind THEN 1 ELSE 0)
          /\ Cardinality(Opened("read"))' = Cardinality(Opened("read"))
                                            + (IF "read" = kind THEN 1 ELSE 0)
      BY <1>4 DEF Kinds
    <3>2. QED BY <1>3, <1>5, <2>1, <3>1
  <2>3. /\ ~(depth' > 0 /\ readDepth' > 0)
        /\ inTx' => depth' > 0 \/ readDepth' > 0
        /\ depth' > 0 \/ readDepth' > 0 => inTx' \/ raising'
    BY <1>1, <1>2, <1>3, <1>5, <1>6 DEF TransactionOwned
  <2>4. ~raising'
    BY <1>1
  <2>5. QED BY <2>2, <2>3, <2>4 DEF TransactionOwned
<1>9. CASE blocks = <<>>
  <2>1. /\ LastCall < MaxCalls
        /\ asked' = Append(asked, 0) /\ outcome' = Append(outcome, "running")
    BY <1>1, <1>9 DEF StartCall
  <2>2. /\ asked' \in Seq(0..MaxRows) /\ outcome' \in Seq(Outcomes)
        /\ Len(asked') = Len(outcome')
        /\ LastCall' = LastCall + 1 /\ LastCall \in Nat
        /\ Calls' = Calls \cup {LastCall'} /\ LastCall' \notin Calls
        /\ \A c \in Calls : outcome'[c] = outcome[c] /\ asked'[c] = asked[c]
        /\ outcome'[LastCall'] = "running" /\ asked'[LastCall'] = 0
    BY <1>2, <2>1, StartedCall DEF Outcomes
  <2>3. TypeOK'
    BY <1>1, <1>2, <1>3, <1>4, <1>5, <1>6, <1>7, <2>2 DEF FInv, TypeOK, CallsTypeOK, Rows, Kinds
  <2>4. RowsKept'
    <3>1. LastCall' =< MaxCalls /\ LastCall' # 0
      BY <2>1, <2>2, TransactionAssumption
    <3>2. ~inTx' => pending' = {}
      BY <1>2, <1>6 DEF RowsKept
    <3>3. {LastCall'} \X (1..asked'[LastCall']) = {}
      BY <2>2
    <3>4. QED BY <2>2, <3>1, <3>2, <3>3 DEF RowsKept
  <2>5. ReturnedIsDurable'
    BY <1>2, <1>6, <2>2, ReturnedStands
  <2>6. QED BY <1>8, <2>3, <2>4, <2>5 DEF FInv
<1>10. CASE blocks # <<>>
  <2>1. asked' = asked /\ outcome' = outcome /\ Calls' = Calls /\ LastCall' = LastCall
    BY <1>1, <1>10 DEF StartCall, callVars, Calls, LastCall
  <2>2. TypeOK'
    BY <1>1, <1>2, <1>3, <1>4, <1>5, <1>6, <1>7, <2>1 DEF FInv, TypeOK, CallsTypeOK, Rows, Kinds
  <2>3. RowsKept'
    BY <1>1, <1>2, <1>6, <1>10, <2>1 DEF RowsKept
  <2>4. ReturnedIsDurable'
    BY <1>2, <1>6, <2>1, ReturnedStands
  <2>5. QED BY <1>8, <2>2, <2>3, <2>4 DEF FInv
<1>11. QED BY <1>9, <1>10

LEMMA EnterFailsF ==
  ASSUME FInv, NEW kind \in Kinds, EnterFails(kind), UNCHANGED commitFailed
  PROVE  FInv'
<1>1. UNCHANGED <<blocks, depth, readDepth, inTx, pending, durable>>
  BY DEF EnterFails, engineVars
<1>2. CallsTypeOK /\ TransactionOwned /\ RowsKept /\ ReturnedIsDurable
  BY DEF FInv, TypeOK
<1>3. CASE blocks = <<>>
  <2>1. /\ LastCall < MaxCalls /\ raising' = raising
        /\ asked' = Append(asked, 0) /\ outcome' = Append(outcome, "threw")
    BY <1>3 DEF EnterFails
  <2>2. /\ asked' \in Seq(0..MaxRows) /\ outcome' \in Seq(Outcomes)
        /\ Len(asked') = Len(outcome')
        /\ LastCall' = LastCall + 1 /\ LastCall \in Nat
        /\ Calls' = Calls \cup {LastCall'} /\ LastCall' \notin Calls
        /\ \A c \in Calls : outcome'[c] = outcome[c] /\ asked'[c] = asked[c]
        /\ outcome'[LastCall'] = "threw"
    BY <1>2, <2>1, StartedCall DEF Outcomes
  <2>3. TypeOK'
    BY <1>1, <1>2, <2>1, <2>2 DEF FInv, TypeOK, CallsTypeOK, Rows
  <2>4. TransactionOwned'
    BY <1>1, <1>2, <2>1 DEF TransactionOwned, Opened
  <2>5. RowsKept'
    <3>1. LastCall' =< MaxCalls
      BY <2>1, <2>2, TransactionAssumption
    <3>2. QED BY <1>1, <1>2, <1>3, <3>1 DEF RowsKept
  <2>6. ReturnedIsDurable'
    BY <1>1, <1>2, <2>2, ReturnedStands
  <2>7. QED BY <2>3, <2>4, <2>5, <2>6 DEF FInv
<1>4. CASE blocks # <<>>
  <2>1. raising' = TRUE /\ UNCHANGED <<asked, outcome>>
    BY <1>4 DEF EnterFails, callVars
  <2>2. raising' \in BOOLEAN
    BY <2>1, Zenon
  <2>3. TypeOK'
    BY <1>1, <1>2, <2>1, <2>2 DEF FInv, TypeOK, CallsTypeOK, Rows
  <2>4. TransactionOwned'
    BY <1>1, <1>2, <1>4, <2>1 DEF TransactionOwned, Opened
  <2>5. RowsKept' /\ ReturnedIsDurable'
    BY <1>1, <1>2, <2>1 DEF RowsKept, ReturnedIsDurable, Calls, LastCall
  <2>6. QED BY <2>3, <2>4, <2>5 DEF FInv
<1>5. QED BY <1>3, <1>4

LEMMA StatementF ==
  ASSUME FInv, Statement, UNCHANGED commitFailed
  PROVE  FInv'
<1> DEFINE k == asked[LastCall] + 1
<1>1. /\ blocks # <<>> /\ ~raising /\ asked[LastCall] < MaxRows
      /\ Store(<<LastCall, k>>) /\ asked' = [asked EXCEPT ![LastCall] = @ + 1]
      /\ UNCHANGED <<blocks, raising, depth, readDepth, outcome>>
  BY DEF Statement, handleVars
<1>2. CallsTypeOK /\ TransactionOwned /\ RowsKept /\ ReturnedIsDurable
  BY DEF FInv, TypeOK
<1>3. /\ asked \in Seq(0..MaxRows) /\ Len(asked) = Len(outcome) /\ Calls = 1..Len(asked)
      /\ LastCall = Len(asked) /\ Len(asked) \in Nat
  BY <1>2 DEF CallsTypeOK, Calls, LastCall
<1>4. LastCall \in Calls /\ LastCall \in Nat \ {0} /\ LastCall =< MaxCalls
      /\ outcome[LastCall] = "running"
  BY <1>1, <1>2, <1>3 DEF RowsKept
<1>5. asked[LastCall] \in 0..MaxRows
  BY <1>3, <1>4, ElementOfSeq
<1>6. k \in 1..MaxRows
  BY <1>1, <1>5, TransactionAssumption
<1>7. /\ asked' \in Seq(0..MaxRows) /\ Len(asked') = Len(asked)
      /\ \A c \in Calls : c # LastCall => asked'[c] = asked[c]
      /\ asked'[LastCall] = k
  BY <1>1, <1>3, <1>4, <1>5, <1>6
<1>8. <<LastCall, k>> \in Rows
  BY <1>4, <1>6, TransactionAssumption DEF Rows
<1>9. Calls' = Calls /\ LastCall' = LastCall
  BY <1>1 DEF Calls, LastCall
<1>10. /\ inTx' = inTx /\ durable \subseteq durable'
       /\ pending' \cup durable' = pending \cup durable \cup {<<LastCall, k>>}
       /\ pending' \subseteq pending \cup {<<LastCall, k>>}
       /\ ~inTx => pending' = pending
  BY <1>1 DEF Store
<1>11. TypeOK'
  <2>1. pending' \subseteq Rows /\ durable' \subseteq Rows
    BY <1>2, <1>8, <1>10 DEF CallsTypeOK
  <2>2. Rows' = Rows
    BY DEF Rows
  <2>3. QED BY <1>1, <1>2, <1>3, <1>7, <1>10, <2>1, <2>2 DEF FInv, TypeOK, CallsTypeOK
<1>12. TransactionOwned'
  BY <1>1, <1>2, <1>10 DEF TransactionOwned, Opened
<1>13. RowsKept'
  <2>1. {LastCall} \X (1..asked[LastCall]) \subseteq pending \cup durable
    BY <1>1, <1>2 DEF RowsKept
  <2>2. 1..k = (1..asked[LastCall]) \cup {k}
    BY <1>5
  <2>3. {LastCall} \X (1..k) \subseteq pending' \cup durable'
    BY <1>10, <2>1, <2>2
  <2>4. {LastCall'} \X (1..asked'[LastCall']) = {LastCall} \X (1..k)
    BY <1>7, <1>9
  <2>5. LastCall' =< MaxCalls /\ outcome'[LastCall'] = "running" /\ LastCall' # 0
    <3>1. outcome' = outcome
      BY <1>1
    <3>2. QED BY <1>4, <1>9, <3>1
  <2>6. ~inTx' => pending' = {}
    <3>1. ~inTx => pending = {}
      BY <1>2 DEF RowsKept
    <3>2. QED BY <1>10, <3>1
  <2>7. QED BY <2>3, <2>4, <2>5, <2>6 DEF RowsKept
<1>14. ReturnedIsDurable'
  BY <1>1, <1>2, <1>4, <1>7, <1>9, <1>10, ReturnedStands
<1>15. QED BY <1>11, <1>12, <1>13, <1>14 DEF FInv

LEMMA BlockThrowsF ==
  ASSUME FInv, BlockThrows, UNCHANGED commitFailed
  PROVE  FInv'
<1>1. /\ blocks # <<>> /\ raising' = TRUE /\ durable' = durable
      /\ UNCHANGED <<blocks, depth, readDepth, asked, outcome>>
      /\ (inTx' = inTx /\ pending' = pending) \/ (inTx' = FALSE /\ pending' = {})
  BY DEF BlockThrows, engineVars, callVars, Discard
<1>2. CallsTypeOK /\ TransactionOwned /\ RowsKept /\ ReturnedIsDurable
  BY DEF FInv, TypeOK
<1>3. raising' \in BOOLEAN /\ inTx' \in BOOLEAN
  BY <1>1, <1>2, Zenon DEF CallsTypeOK
<1>4. TypeOK'
  BY <1>1, <1>2, <1>3 DEF FInv, TypeOK, CallsTypeOK, Rows
<1>5. TransactionOwned'
  BY <1>1, <1>2 DEF TransactionOwned, Opened
<1>6. RowsKept' /\ ReturnedIsDurable'
  BY <1>1, <1>2 DEF RowsKept, ReturnedIsDurable, Calls, LastCall
<1>7. QED BY <1>4, <1>5, <1>6 DEF FInv

\* The outermost block of the call commits only when its depth is 1, and a
\* call whose depth is not 1 there has written each row on its own.
LEMMA ReturnF ==
  ASSUME FInv, Return, UNCHANGED commitFailed
  PROVE  FInv'
<1> DEFINE n == DepthOf(Innermost) - 1
<1>1. /\ blocks # <<>> /\ ~raising /\ raising' = raising
      /\ SetDepth(Innermost, n)
      /\ IF DepthOf(Innermost) = 1 THEN Commit ELSE UNCHANGED engineVars
      /\ Leave /\ Report("returned")
  BY DEF Return
<1>2. CallsTypeOK /\ TransactionOwned /\ RowsKept /\ ReturnedIsDurable
  BY DEF FInv, TypeOK
<1>3. depth \in Int /\ readDepth \in Int /\ n \in Int
  BY <1>2 DEF CallsTypeOK, DepthOf
<1>4. n =< DepthOf(Innermost) - 1 /\ DepthOf(Innermost) = n + 1
  BY <1>2 DEF CallsTypeOK, DepthOf
<1> HIDE DEF n
<1>5. /\ blocks' \in Seq(Kinds) /\ depth' \in Int /\ readDepth' \in Int
      /\ \/ DepthOf(Innermost) = depth /\ depth' = n /\ readDepth' = readDepth
         \/ DepthOf(Innermost) = readDepth /\ readDepth' = n /\ depth' = depth
      /\ depth' =< Cardinality(Opened("write"))'
      /\ readDepth' =< Cardinality(Opened("read"))'
      /\ (blocks' = <<>>) = (Len(blocks) = 1)
      /\ blocks' = <<>> => depth' =< 0 /\ readDepth' =< 0
  BY <1>1, <1>2, <1>3, <1>4, BlockLeft
<1>6. LastCall # 0 /\ outcome[LastCall] = "running"
      /\ {LastCall} \X (1..asked[LastCall]) \subseteq pending \cup durable
  BY <1>1, <1>2 DEF RowsKept
<1>7. /\ outcome' \in Seq(Outcomes) /\ Len(outcome') = Len(outcome)
      /\ asked' = asked
      /\ Calls' = Calls /\ LastCall' = LastCall
      /\ \A c \in Calls : outcome'[c] = IF Len(blocks) = 1 /\ c = LastCall
                                        THEN "returned" ELSE outcome[c]
  BY <1>1, <1>2, <1>6, ReportedCall DEF Outcomes
<1>8. /\ \/ n = 0 /\ inTx /\ ~inTx' /\ pending' = {} /\ durable' = durable \cup pending
         \/ n # 0 /\ inTx' = inTx /\ pending' = pending /\ durable' = durable
  BY <1>1, <1>3, <1>4 DEF Commit, engineVars
<1>9. TypeOK'
  <2>1. inTx' \in BOOLEAN
    BY <1>1, <1>2, Zenon DEF CallsTypeOK, Commit, engineVars
  <2>2. pending' \subseteq Rows /\ durable' \subseteq Rows /\ Rows' = Rows
    BY <1>2, <1>8 DEF CallsTypeOK, Rows
  <2>3. QED BY <1>1, <1>2, <1>5, <1>7, <2>1, <2>2 DEF FInv, TypeOK, CallsTypeOK, Kinds
<1>10. TransactionOwned'
  <2>1. /\ ~(depth' > 0 /\ readDepth' > 0)
        /\ inTx' => depth' > 0 \/ readDepth' > 0
        /\ depth' > 0 \/ readDepth' > 0 => inTx' \/ raising'
    BY <1>1, <1>2, <1>3, <1>4, <1>5, <1>8 DEF TransactionOwned
  <2>2. ~raising'
    BY <1>1
  <2>3. QED BY <1>5, <2>1, <2>2 DEF TransactionOwned
<1>11. ~inTx' => pending' = {}
  BY <1>2, <1>8 DEF RowsKept
<1>12. RowsKept'
  <2>1. pending \cup durable \subseteq pending' \cup durable'
    BY <1>8
  <2>2. LastCall' =< MaxCalls
    BY <1>2, <1>7 DEF RowsKept
  <2>3. blocks' # <<>> => outcome'[LastCall'] = "running"
    <3>1. LastCall \in Calls
      BY <1>2, <1>6 DEF CallsTypeOK, Calls, LastCall
    <3>2. QED BY <1>5, <1>6, <1>7, <3>1
  <2>4. QED BY <1>6, <1>7, <1>11, <2>1, <2>2, <2>3 DEF RowsKept
<1>13. ReturnedIsDurable'
  <2>1. Len(blocks) = 1 => {LastCall} \X (1..asked[LastCall]) \subseteq durable'
    <3>1. SUFFICES ASSUME Len(blocks) = 1
                   PROVE  pending \subseteq durable' /\ durable \subseteq durable'
      BY <1>6
    <3>2. ~inTx'
      BY <1>5, <1>10, <3>1 DEF TransactionOwned
    <3>3. QED BY <1>8, <1>11, <3>2
  <2>2. \A c \in Calls' : outcome'[c] = "returned"
          => \/ c \in Calls /\ outcome[c] = "returned" /\ asked'[c] = asked[c]
             \/ {c} \X (1..asked'[c]) \subseteq durable'
    BY <1>7, <2>1
  <2>3. QED BY <1>2, <1>8, <2>2, ReturnedStands
<1>14. QED BY <1>9, <1>10, <1>12, <1>13 DEF FInv

LEMMA ReturnThrowsF ==
  ASSUME FInv, ReturnThrows, commitFailed' = TRUE
  PROVE  FInv'
<1>1. /\ blocks # <<>> /\ ~raising /\ raising' = (Len(blocks) > 1)
      /\ DepthOf(Innermost) = 1 /\ SetDepth(Innermost, -1)
      /\ inTx' = FALSE /\ pending' = {} /\ durable' = durable
      /\ Leave /\ Report("threw")
  BY DEF ReturnThrows, CommitFails, Discard
<1>2. CallsTypeOK /\ TransactionOwned /\ RowsKept /\ ReturnedIsDurable
  BY DEF FInv, TypeOK
<1>3. -1 \in Int /\ -1 =< DepthOf(Innermost) - 1
  BY <1>1
<1>4. /\ blocks' \in Seq(Kinds) /\ depth' \in Int /\ readDepth' \in Int
      /\ \/ DepthOf(Innermost) = depth /\ depth' = -1 /\ readDepth' = readDepth
         \/ DepthOf(Innermost) = readDepth /\ readDepth' = -1 /\ depth' = depth
      /\ depth' =< Cardinality(Opened("write"))'
      /\ readDepth' =< Cardinality(Opened("read"))'
      /\ (blocks' = <<>>) = (Len(blocks) = 1)
  BY <1>1, <1>2, <1>3, BlockLeft
<1>5. LastCall # 0 /\ outcome[LastCall] = "running"
  BY <1>1, <1>2 DEF RowsKept
<1>6. /\ outcome' \in Seq(Outcomes) /\ Len(outcome') = Len(outcome)
      /\ asked' = asked
      /\ Calls' = Calls /\ LastCall' = LastCall
      /\ \A c \in Calls : outcome'[c] = IF Len(blocks) = 1 /\ c = LastCall
                                        THEN "threw" ELSE outcome[c]
  BY <1>1, <1>2, <1>5, ReportedCall DEF Outcomes
<1>7. Len(blocks) \in Nat \ {0}
  BY <1>1, <1>2 DEF CallsTypeOK
<1>8. raising' <=> blocks' # <<>>
  <2>1. raising' <=> Len(blocks) > 1
    BY <1>1, Zenon
  <2>2. (blocks' = <<>>) <=> ~(Len(blocks) > 1)
    <3> DEFINE l == Len(blocks)
    <3>1. l \in Nat \ {0}
      BY <1>7
    <3>2. (blocks' = <<>>) = (l = 1)
      BY <1>4
    <3> HIDE DEF l
    <3>3. (l = 1) <=> ~(l > 1)
      BY <3>1
    <3>4. (blocks' = <<>>) <=> ~(l > 1)
      BY <3>2, <3>3, Zenon
    <3>5. QED BY <3>4 DEF l
  <2>3. QED BY <2>1, <2>2, Zenon
<1>9. TypeOK'
  <2>1. raising' \in BOOLEAN
    <3>1. (Len(blocks) > 1) \in BOOLEAN
      OBVIOUS
    <3>2. QED BY <1>1, <3>1, Zenon
  <2>2. inTx' \in BOOLEAN /\ commitFailed' \in BOOLEAN
    BY <1>1, Zenon
  <2>3. QED BY <1>1, <1>2, <1>4, <1>6, <2>1, <2>2 DEF TypeOK, CallsTypeOK, Rows, Kinds
<1>10. TransactionOwned'
  <2>1. ~(depth' > 0 \/ readDepth' > 0)
    BY <1>1, <1>2, <1>4 DEF TransactionOwned, CallsTypeOK
  <2>2. QED BY <1>1, <1>4, <1>8, <2>1 DEF TransactionOwned
<1>11. RowsKept'
  <2>1. LastCall' =< MaxCalls
    BY <1>2, <1>6 DEF RowsKept
  <2>2. blocks' # <<>> => outcome'[LastCall'] = "running"
    <3>1. LastCall \in Calls
      BY <1>2, <1>5 DEF CallsTypeOK, Calls, LastCall
    <3>2. QED BY <1>4, <1>5, <1>6, <3>1
  <2>3. QED BY <1>1, <1>5, <1>6, <1>8, <2>1, <2>2 DEF RowsKept
<1>12. ReturnedIsDurable'
  <2>1. \A c \in Calls' : outcome'[c] = "returned"
          => c \in Calls /\ outcome[c] = "returned" /\ asked'[c] = asked[c]
    BY <1>6
  <2>2. QED BY <1>1, <1>2, <2>1, ReturnedStands
<1>13. QED BY <1>9, <1>10, <1>11, <1>12 DEF FInv

LEMMA CatchF ==
  ASSUME FInv, Catch, UNCHANGED commitFailed
  PROVE  FInv'
<1> DEFINE n == DepthOf(Innermost) - 1
<1>1. /\ blocks # <<>> /\ raising /\ raising' = (Len(blocks) > 1)
      /\ SetDepth(Innermost, n)
      /\ IF DepthOf(Innermost) = 1 THEN Discard ELSE UNCHANGED engineVars
      /\ Leave /\ Report("threw")
  BY DEF Catch
<1>2. CallsTypeOK /\ TransactionOwned /\ RowsKept /\ ReturnedIsDurable
  BY DEF FInv, TypeOK
<1>3. depth \in Int /\ readDepth \in Int /\ n \in Int
  BY <1>2 DEF CallsTypeOK, DepthOf
<1>4. n =< DepthOf(Innermost) - 1 /\ DepthOf(Innermost) = n + 1
  BY <1>2 DEF CallsTypeOK, DepthOf
<1> HIDE DEF n
<1>5. /\ blocks' \in Seq(Kinds) /\ depth' \in Int /\ readDepth' \in Int
      /\ \/ DepthOf(Innermost) = depth /\ depth' = n /\ readDepth' = readDepth
         \/ DepthOf(Innermost) = readDepth /\ readDepth' = n /\ depth' = depth
      /\ depth' =< Cardinality(Opened("write"))'
      /\ readDepth' =< Cardinality(Opened("read"))'
      /\ (blocks' = <<>>) = (Len(blocks) = 1)
      /\ blocks' = <<>> => depth' =< 0 /\ readDepth' =< 0
  BY <1>1, <1>2, <1>3, <1>4, BlockLeft
<1>6. LastCall # 0 /\ outcome[LastCall] = "running"
  BY <1>1, <1>2 DEF RowsKept
<1>7. /\ outcome' \in Seq(Outcomes) /\ Len(outcome') = Len(outcome)
      /\ asked' = asked
      /\ Calls' = Calls /\ LastCall' = LastCall
      /\ \A c \in Calls : outcome'[c] = IF Len(blocks) = 1 /\ c = LastCall
                                        THEN "threw" ELSE outcome[c]
  BY <1>1, <1>2, <1>6, ReportedCall DEF Outcomes
<1>8. /\ durable' = durable
      /\ \/ n = 0 /\ ~inTx' /\ pending' = {}
         \/ n # 0 /\ inTx' = inTx /\ pending' = pending
  BY <1>1, <1>3, <1>4 DEF Discard, engineVars
<1>9. Len(blocks) \in Nat \ {0}
  BY <1>1, <1>2 DEF CallsTypeOK
<1>10. raising' <=> blocks' # <<>>
  <2>1. raising' <=> Len(blocks) > 1
    BY <1>1, Zenon
  <2>2. (blocks' = <<>>) <=> ~(Len(blocks) > 1)
    <3> DEFINE l == Len(blocks)
    <3>1. l \in Nat \ {0}
      BY <1>9
    <3>2. (blocks' = <<>>) = (l = 1)
      BY <1>5
    <3> HIDE DEF l
    <3>3. (l = 1) <=> ~(l > 1)
      BY <3>1
    <3>4. (blocks' = <<>>) <=> ~(l > 1)
      BY <3>2, <3>3, Zenon
    <3>5. QED BY <3>4 DEF l
  <2>3. QED BY <2>1, <2>2, Zenon
<1>11. TypeOK'
  <2>1. raising' \in BOOLEAN
    <3>1. (Len(blocks) > 1) \in BOOLEAN
      OBVIOUS
    <3>2. QED BY <1>1, <3>1, Zenon
  <2>2. inTx' \in BOOLEAN
    BY <1>1, <1>2, Zenon DEF CallsTypeOK, Discard, engineVars
  <2>3. pending' \subseteq Rows /\ durable' \subseteq Rows /\ Rows' = Rows
    BY <1>2, <1>8 DEF CallsTypeOK, Rows
  <2>4. QED BY <1>1, <1>2, <1>5, <1>7, <2>1, <2>2, <2>3 DEF FInv, TypeOK, CallsTypeOK, Kinds
<1>12. TransactionOwned'
  <2>1. /\ ~(depth' > 0 /\ readDepth' > 0)
        /\ inTx' => depth' > 0 \/ readDepth' > 0
    BY <1>1, <1>2, <1>3, <1>4, <1>5, <1>8 DEF TransactionOwned
  <2>2. depth' > 0 \/ readDepth' > 0 => raising'
    BY <1>5, <1>10
  <2>3. QED BY <1>5, <1>10, <2>1, <2>2 DEF TransactionOwned
<1>13. RowsKept'
  <2>1. LastCall' =< MaxCalls
    BY <1>2, <1>7 DEF RowsKept
  <2>2. blocks' # <<>> => outcome'[LastCall'] = "running"
    <3>1. LastCall \in Calls
      BY <1>2, <1>6 DEF CallsTypeOK, Calls, LastCall
    <3>2. QED BY <1>5, <1>6, <1>7, <3>1
  <2>3. ~inTx' => pending' = {}
    BY <1>2, <1>8 DEF RowsKept
  <2>4. QED BY <1>6, <1>7, <1>10, <2>1, <2>2, <2>3 DEF RowsKept
<1>14. ReturnedIsDurable'
  <2>1. \A c \in Calls' : outcome'[c] = "returned"
          => c \in Calls /\ outcome[c] = "returned" /\ asked'[c] = asked[c]
    BY <1>7
  <2>2. QED BY <1>2, <1>8, <2>1, ReturnedStands
<1>15. QED BY <1>11, <1>12, <1>13, <1>14 DEF FInv

LEMMA ReopenF ==
  ASSUME FInv, Reopen, UNCHANGED commitFailed
  PROVE  FInv'
<1>1. /\ blocks' = <<>> /\ raising' = FALSE /\ depth' = 0 /\ readDepth' = 0
      /\ inTx' = FALSE /\ pending' = {} /\ durable' = durable /\ asked' = asked
  BY DEF Reopen, Discard
<1>2. CallsTypeOK /\ RowsKept /\ ReturnedIsDurable
  BY DEF FInv, TypeOK
<1>3. outcome \in Seq(Outcomes) /\ Calls = 1..Len(outcome) /\ LastCall = Len(outcome)
  BY <1>2 DEF CallsTypeOK, Calls, LastCall
<1>4. /\ outcome' \in Seq(Outcomes) /\ Len(outcome') = Len(outcome)
      /\ \A c \in Calls : outcome'[c] = outcome[c] \/ outcome'[c] = "lost"
  <2>1. CASE blocks = <<>>
    BY <1>3, <2>1 DEF Reopen
  <2>2. CASE blocks # <<>>
    <3>1. LastCall \in 1..Len(outcome) /\ "lost" \in Outcomes
      BY <1>2, <1>3, <2>2 DEF RowsKept, Outcomes
    <3>2. outcome' = [outcome EXCEPT ![LastCall] = "lost"]
      BY <2>2 DEF Reopen
    <3>3. QED BY <1>3, <3>1, <3>2
  <2>3. QED BY <2>1, <2>2
<1>5. Calls' = Calls /\ LastCall' = LastCall
  BY <1>4 DEF Calls, LastCall
<1>6. TypeOK'
  <2>1. raising' \in BOOLEAN /\ inTx' \in BOOLEAN
    BY <1>1, Zenon
  <2>2. blocks' \in Seq({"read", "write"}) /\ depth' \in Int /\ readDepth' \in Int
    BY <1>1
  <2>3. QED BY <1>1, <1>2, <1>4, <2>1, <2>2 DEF FInv, TypeOK, CallsTypeOK, Rows
<1>7. TransactionOwned'
  <2>1. Opened("write")' = {} /\ Opened("read")' = {}
    BY <1>1 DEF Opened
  <2>2. Cardinality(Opened("write"))' = 0 /\ Cardinality(Opened("read"))' = 0
    BY <2>1, FS_EmptySet
  <2>3. QED BY <1>1, <2>2 DEF TransactionOwned
<1>8. RowsKept'
  BY <1>1, <1>2, <1>5 DEF RowsKept
<1>9. ReturnedIsDurable'
  <2>1. \A c \in Calls' : outcome'[c] = "returned"
          => c \in Calls /\ outcome[c] = "returned" /\ asked'[c] = asked[c]
    BY <1>1, <1>4, <1>5
  <2>2. QED BY <1>1, <1>2, <2>1, ReturnedStands
<1>10. QED BY <1>6, <1>7, <1>8, <1>9 DEF FInv

LEMMA StepF ==
  ASSUME FInv, [Next]_vars
  PROVE  FInv'
<1>1. CASE UNCHANGED vars
  BY <1>1 DEF vars, FInv, TypeOK, CallsTypeOK, TransactionOwned, RowsKept, ReturnedIsDurable,
     Calls, LastCall, Rows, Opened
<1>2. CASE ReturnThrows /\ commitFailed' = TRUE
  BY <1>2, ReturnThrowsF
<1>3. CASE Step /\ UNCHANGED commitFailed
  BY <1>3, EnterF, EnterFailsF, StatementF, BlockThrowsF, ReturnF, CatchF, ReopenF
     DEF Step, Kinds
<1>4. QED BY <1>1, <1>2, <1>3 DEF Next

\* A transaction is owned by the blocks open on it and the rows of a call are
\* kept until an error is raised, also when a COMMIT has failed.
THEOREM FailureInvariance == Spec => []FInv
<1>1. Init => FInv
  BY InitF
<1>2. FInv /\ [Next]_vars => FInv'
  BY StepF
<1>3. QED BY <1>1, <1>2, PTL DEF Spec

\* The state of the handle, of the engine and of the calls keeps its types.
THEOREM TypeCorrect == Spec => []TypeOK
<1>1. FInv => TypeOK
  BY DEF FInv
<1>2. QED BY <1>1, FailureInvariance, PTL

\* A call that returned has every row it wrote on disk, whatever commits,
\* statements and processes have failed before and since.
THEOREM Durability == Spec => []ReturnedIsDurable
<1>1. FInv => ReturnedIsDurable
  BY DEF FInv
<1>2. QED BY <1>1, FailureInvariance, PTL

\* Between calls no transaction is open and nothing is pending; the depths are
\* zero while no COMMIT has failed.
THEOREM Rest == Spec => []AtRest
<1>1. FInv /\ (commitFailed \/ IInv) => AtRest
  <2>1. SUFFICES ASSUME FInv, commitFailed \/ IInv, blocks = <<>>
                 PROVE  /\ ~inTx /\ pending = {}
                        /\ ~commitFailed => depth = 0 /\ readDepth = 0
    BY DEF AtRest
  <2>2. Cardinality(Opened("write")) = 0 /\ Cardinality(Opened("read")) = 0
    BY <2>1, NoneOpen
  <2>3. depth \in Int /\ readDepth \in Int
    BY <2>1 DEF FInv, TypeOK, CallsTypeOK
  <2>4. ~inTx
    BY <2>1, <2>2, <2>3 DEF FInv, TransactionOwned
  <2>5. pending = {}
    BY <2>1, <2>4 DEF FInv, RowsKept
  <2>6. ~commitFailed => depth = 0 /\ readDepth = 0
    BY <2>1 DEF IInv, BlocksCounted
  <2>7. QED BY <2>4, <2>5, <2>6
<1>2. QED BY <1>1, FailureInvariance, Invariance, PTL

-----------------------------------------------------------------------------
(* Until a COMMIT fails, the calls are atomic ones.                        *)

LEMMA RunningIsOpen ==
  ASSUME IInv
  PROVE  AtomicCallsOf!Running <=> blocks # <<>>
<1>1. outcome \in Seq(Outcomes) /\ Calls = 1..Len(outcome) /\ LastCall = Len(outcome)
  BY DEF IInv, CallsTypeOK, Calls, LastCall
<1>2. CASE blocks = <<>>
  <2>1. \A c \in Calls : outcome[c] # "running"
    BY <1>2 DEF IInv, CallsCounted
  <2>2. outcome # <<>> => Len(outcome) \in Calls
    BY <1>1
  <2>3. QED BY <1>2, <2>1, <2>2 DEF AtomicCallsOf!Running, AtomicCallsOf!Last
<1>3. CASE blocks # <<>>
  <2>1. LastCall # 0 /\ LastCall \in Calls /\ outcome[LastCall] = "running"
    BY <1>1, <1>3, OpenBlocks
  <2>2. outcome # <<>>
    BY <1>1, <2>1
  <2>3. QED BY <1>1, <1>3, <2>1, <2>2 DEF AtomicCallsOf!Running, AtomicCallsOf!Last
<1>4. QED BY <1>2, <1>3

LEMMA EnterRefines ==
  ASSUME IInv, NEW kind \in Kinds, Enter(kind) \/ EnterFails(kind)
  PROVE  AtomicCallsOf!Begin \/ UNCHANGED <<outcome, durable>>
<1>1. durable' = durable
  BY DEF Enter, EnterFails, Begin, engineVars
<1>2. CASE blocks = <<>>
  <2>1. outcome' = Append(outcome, "running") \/ outcome' = Append(outcome, "threw")
    BY <1>2 DEF Enter, EnterFails, StartCall
  <2>2. ~AtomicCallsOf!Running
    BY <1>2, RunningIsOpen
  <2>3. QED BY <1>1, <2>1, <2>2 DEF AtomicCallsOf!Begin
<1>3. CASE blocks # <<>>
  BY <1>1, <1>3 DEF Enter, EnterFails, StartCall, callVars
<1>4. QED BY <1>2, <1>3

LEMMA ReturnRefines ==
  ASSUME IInv, Return
  PROVE  AtomicCallsOf!Return \/ UNCHANGED <<outcome, durable>>
<1>1. /\ blocks # <<>> /\ ~raising /\ Report("returned")
      /\ IF DepthOf(Innermost) = 1 THEN Commit ELSE UNCHANGED engineVars
  BY DEF Return
<1>2. DepthOf(Innermost) = Len(blocks) /\ asked[LastCall] \in 0..MaxRows
  BY <1>1, OpenBlocks
<1>3. CASE Len(blocks) = 1
  <2>1. inTx /\ pending = {LastCall} \X (1..asked[LastCall])
    BY <1>1 DEF IInv, BlocksCounted, CallsCounted
  <2>2. durable' = durable \cup ({LastCall} \X (1..asked[LastCall]))
    BY <1>1, <1>2, <1>3, <2>1 DEF Commit
  <2>3. outcome' = [outcome EXCEPT ![LastCall] = "returned"]
    BY <1>1, <1>3 DEF Report
  <2>4. AtomicCallsOf!Running
    BY <1>1, RunningIsOpen
  <2>5. LastCall = AtomicCallsOf!Last
    BY DEF LastCall, AtomicCallsOf!Last
  <2>6. QED BY <1>2, <2>2, <2>3, <2>4, <2>5 DEF AtomicCallsOf!Return
<1>4. CASE Len(blocks) # 1
  BY <1>1, <1>2, <1>4 DEF Report, engineVars
<1>5. QED BY <1>3, <1>4

LEMMA GiveUpRefines ==
  ASSUME IInv, Catch \/ Reopen
  PROVE  AtomicCallsOf!GiveUp \/ UNCHANGED <<outcome, durable>>
<1>1. durable' = durable
  BY DEF Catch, Reopen, Discard, engineVars
<1>2. \/ outcome' = outcome
      \/ /\ blocks # <<>>
         /\ \E result \in {"threw", "lost"} : outcome' = [outcome EXCEPT ![LastCall] = result]
  BY DEF Catch, Reopen, Report
<1>3. CASE outcome' = outcome
  BY <1>1, <1>3
<1>4. CASE outcome' # outcome
  <2>1. AtomicCallsOf!Running
    BY <1>2, <1>4, RunningIsOpen
  <2>2. LastCall = AtomicCallsOf!Last
    BY DEF LastCall, AtomicCallsOf!Last
  <2>3. QED BY <1>1, <1>2, <1>4, <2>1, <2>2 DEF AtomicCallsOf!GiveUp
<1>5. QED BY <1>3, <1>4

LEMMA StepRefines ==
  ASSUME TypeOK, commitFailed \/ IInv, [Next]_vars
  PROVE  [AtomicCallsOf!AtomicNext]_(AtomicCallsOf!atomicVars)
<1>1. CASE UNCHANGED vars
  BY <1>1 DEF vars, AtomicCallsOf!atomicVars
<1>2. CASE commitFailed' = TRUE
  BY <1>2 DEF AtomicCallsOf!AtomicNext
<1>3. CASE Step /\ commitFailed' = commitFailed /\ commitFailed' # TRUE
  <2>1. IInv
    BY <1>3, Zenon DEF TypeOK
  <2>2. CASE \E kind \in Kinds : Enter(kind) \/ EnterFails(kind)
    BY <1>3, <2>1, <2>2, EnterRefines DEF AtomicCallsOf!AtomicNext, AtomicCallsOf!atomicVars
  <2>3. CASE Statement
    <3>1. inTx
      BY <2>1, <2>3 DEF Statement, IInv, BlocksCounted
    <3>2. UNCHANGED <<outcome, durable>>
      BY <2>3, <3>1 DEF Statement, Store
    <3>3. QED BY <1>3, <3>2 DEF AtomicCallsOf!atomicVars
  <2>4. CASE BlockThrows
    <3>1. UNCHANGED <<outcome, durable>>
      BY <2>4 DEF BlockThrows, Discard, engineVars, callVars
    <3>2. QED BY <1>3, <3>1 DEF AtomicCallsOf!atomicVars
  <2>5. CASE Return
    BY <1>3, <2>1, <2>5, ReturnRefines DEF AtomicCallsOf!AtomicNext, AtomicCallsOf!atomicVars
  <2>6. CASE Catch \/ Reopen
    BY <1>3, <2>1, <2>6, GiveUpRefines DEF AtomicCallsOf!AtomicNext, AtomicCallsOf!atomicVars
  <2>7. QED BY <1>3, <2>2, <2>3, <2>4, <2>5, <2>6 DEF Step, Kinds
<1>4. QED BY <1>1, <1>2, <1>3 DEF Next

\* The read and write calls of the handle implement atomic calls, until a
\* COMMIT fails: whatever nests, throws or is cut off in between.
THEOREM Implementation == Spec => ImplementsAtomicCalls
<1>1. Init => AtomicCallsOf!AtomicInit
  BY DEF Init, AtomicCallsOf!AtomicInit
<1>2. TypeOK /\ (commitFailed \/ IInv) /\ [Next]_vars
        => [AtomicCallsOf!AtomicNext]_(AtomicCallsOf!atomicVars)
  BY StepRefines
<1>3. QED BY <1>1, <1>2, TypeCorrect, Invariance, PTL
          DEF Spec, ImplementsAtomicCalls, AtomicCallsOf!AtomicSpec
=============================================================================
