--------------------------- MODULE ChBidirProofs ---------------------------
(***************************************************************************)
(* Proofs about the mailbox link, for every session, block length, cell    *)
(* size and set of data values: HandshakeInv is inductive (one lemma per   *)
(* action), so the blocks arrive intact, and the link implements the       *)
(* abstract sequence of transfers.                                         *)
(***************************************************************************)
EXTENDS ChBidir, TLAPS

USE LinkAssumption
USE DEF Cells, Block, ToC64, ToPC, Starting, vars, session, wbox, rbox, pc, c64

-----------------------------------------------------------------------------
\* A session is a non-empty sequence that begins with a start of the server.
SessionShape ==
    /\ Len(plan) \in Nat /\ 1 <= Len(plan)
    /\ DOMAIN plan = 1 .. Len(plan)
    /\ plan[1] \in {"init", "race"}

\* A session has a first step, and it starts the server.
LEMMA SessionFacts ==
    ASSUME plan \in Plans
    PROVE  SessionShape
  <1>1. plan \in Seq(Link!Kinds) /\ Len(plan) > 0 /\ plan[1] \in {"init", "race"}
    BY PlansAssumption
  <1>2. QED
    BY <1>1 DEF SessionShape

-----------------------------------------------------------------------------
\* Every step of the PC and of the C64 keeps the invariant.

\* The PC announces a block: HandshakeInv is kept.
LEMMA PCAnnounceInv ==
    ASSUME HandshakeInv, NEW b \in Block, PCAnnounce(b)
    PROVE  HandshakeInv'
  <1> USE DEF HandshakeInv, PCAnnounce, TypeOK
  <1>0. SessionShape
    BY SessionFacts
  <1>1. TypeOK'
    BY <1>0 DEF Succ, LengthByte, SessionShape
  <1>2. Activity'
    BY DEF Activity
  <1>3. Together'
    BY DEF Together, Got, Replied
  <1>4. Flags'
    BY DEF Flags
  <1>5. Writing'
    BY DEF Writing, Got
  <1>6. Reading'
    BY DEF Reading, Replied, Activity
  <1>7. History'
    BY NoneAssumption DEF History
  <1>8. BlocksIntact'
    BY NoneAssumption DEF BlocksIntact, History
  <1>9. QED
    BY <1>1, <1>2, <1>3, <1>4, <1>5, <1>6, <1>7, <1>8

\* The poll that finds START up is answered by a C64 that waits for this very block.
LEMMA PCSeeReadyInv ==
    ASSUME HandshakeInv, PCSeeReady
    PROVE  HandshakeInv'
  <1> USE DEF HandshakeInv, PCSeeReady, TypeOK
  <1>0. SessionShape
    BY SessionFacts
  <1>1. TypeOK'
    BY <1>0 DEF Succ, LengthByte, SessionShape
  <1>2. Activity'
    BY DEF Activity
  <1>3. Together'
    BY DEF Together, Got, Replied
  <1>4. Flags'
    BY DEF Flags
  <1>5. Writing'
    <2>1. pk = ck /\ cpc = "spin" /\ wseq = cx
      <3>1. cpc = "spin" /\ wseq = cx
        <4>1. ASSUME ck = 1, plan[1] = "init", cpc = "idle"
              PROVE  FALSE
          <5>1. pk \in DOMAIN plan /\ pk # 1 /\ ck < pk /\ 1 \in DOMAIN plan
            BY <1>0, <4>1 DEF SessionShape, Activity
          <5>2. QED
            BY <4>1, <5>1 DEF Together, Got, Replied
        <4>2. QED
          BY <4>1 DEF Flags
      <3>2. ~(ck < pk)
        BY <3>1 DEF Together, Activity, Got, Replied
      <3>3. ~(pk < ck)
        <4>1. pk \in DOMAIN plan /\ pk <= pk /\ ~Starting(pk) /\ ppc # "bytes"
          BY DEF Activity
        <4>2. QED
          BY <4>1 DEF Together
      <3>4. QED
        BY <1>0, <3>1, <3>2, <3>3 DEF SessionShape
    <2>2. QED
      BY <2>1 DEF Writing, Got
  <1>6. Reading'
    BY DEF Reading, Replied
  <1>7. History'
    BY DEF History
  <1>8. BlocksIntact'
    BY DEF BlocksIntact
  <1>9. QED
    BY <1>1, <1>2, <1>3, <1>4, <1>5, <1>6, <1>7, <1>8

\* Taking START down does not let the C64 go: it waits for SEQ.
LEMMA PCClearStartInv ==
    ASSUME HandshakeInv, PCClearStart
    PROVE  HandshakeInv'
  <1> USE DEF HandshakeInv, PCClearStart, TypeOK
  <1>1. TypeOK'
    OBVIOUS
  <1>2. Activity'
    BY DEF Activity
  <1>3. Together'
    BY DEF Together, Got, Replied
  <1>4. Flags'
    BY DEF Flags
  <1>5. Writing'
    BY DEF Writing, Got, Activity
  <1>6. Reading'
    BY DEF Reading, Replied
  <1>7. History'
    BY DEF History
  <1>8. BlocksIntact'
    BY DEF BlocksIntact
  <1>9. QED
    BY <1>1, <1>2, <1>3, <1>4, <1>5, <1>6, <1>7, <1>8

\* A piece of the block arrives while the C64 still waits.
LEMMA PCStoreDataInv ==
    ASSUME HandshakeInv, PCStoreData
    PROVE  HandshakeInv'
  <1> USE DEF HandshakeInv, PCStoreData, TypeOK
  <1>1. TypeOK'
    OBVIOUS
  <1>2. Activity'
    BY DEF Activity
  <1>3. Together'
    BY DEF Together, Got, Replied
  <1>4. Flags'
    BY DEF Flags
  <1>5. Writing'
    BY DEF Writing, Got
  <1>6. Reading'
    BY DEF Reading, Replied
  <1>7. History'
    BY DEF History
  <1>8. BlocksIntact'
    BY DEF BlocksIntact
  <1>9. QED
    BY <1>1, <1>2, <1>3, <1>4, <1>5, <1>6, <1>7, <1>8

\* Storing SEQ hands over the complete block.
LEMMA PCStoreSeqInv ==
    ASSUME HandshakeInv, PCStoreSeq
    PROVE  HandshakeInv'
  <1> USE DEF HandshakeInv, PCStoreSeq, TypeOK
  <1>1. TypeOK'
    OBVIOUS
  <1>2. Activity'
    BY DEF Activity
  <1>3. Together'
    BY DEF Together, Activity, Got, Replied, Writing
  <1>4. Flags'
    BY DEF Flags, Activity, Got, Writing, Reading
  <1>5. Writing'
    <2>1. pk = ck /\ cpc = "spin" /\ wseq = cx /\ pseq = Succ(cx) /\ wdata = pbuf
      BY DEF Writing
    <2>2. Succ(cx) # cx
      BY DEF Succ
    <2>3. Got'
      BY <2>1, <2>2 DEF Got
    <2>4. QED
      BY <2>1, <2>3 DEF Writing, Got
  <1>6. Reading'
    BY DEF Reading, Replied
  <1>7. History'
    BY DEF History
  <1>8. BlocksIntact'
    BY DEF BlocksIntact
  <1>9. QED
    BY <1>1, <1>2, <1>3, <1>4, <1>5, <1>6, <1>7, <1>8

\* The last store of a write may come after the C64 has gone on.
LEMMA PCClearBytesInv ==
    ASSUME HandshakeInv, PCClearBytes
    PROVE  HandshakeInv'
  <1> USE DEF HandshakeInv, PCClearBytes, TypeOK
  <1>0. SessionShape
    BY SessionFacts
  <1>1. TypeOK'
    BY <1>0 DEF Succ, LengthByte, Activity, SessionShape
  <1>2. Activity'
    BY DEF Activity
  <1>3. Together'
    <2>1. pk \in DOMAIN plan /\ pk <= ck /\ (pk = ck => Got)
      BY <1>0 DEF SessionShape, Activity, Writing
    <2>2. \A j \in DOMAIN plan : pk + 1 <= j /\ j < ck => Starting(j)
      BY <1>0, <2>1 DEF SessionShape, Together
    <2>3. \A j \in DOMAIN plan : ck <= j /\ j < pk + 1 => j = ck /\ Got
      BY <1>0, <2>1 DEF SessionShape
    <2>4. Got' = Got /\ ck' = ck /\ pk' = pk + 1 /\ plan' = plan
      BY DEF Got
    <2>5. QED
      BY <2>2, <2>3, <2>4 DEF Together
  <1>4. Flags'
    BY DEF Flags
  <1>5. Writing'
    BY DEF Writing, Got
  <1>6. Reading'
    BY DEF Reading, Replied
  <1>7. History'
    BY NoneAssumption, <1>0 DEF History, Activity, SessionShape
  <1>8. BlocksIntact'
    BY DEF BlocksIntact
  <1>9. QED
    BY <1>1, <1>2, <1>3, <1>4, <1>5, <1>6, <1>7, <1>8

\* A reply the PC finds is the one of its transfer.
LEMMA PCSeeReplyInv ==
    ASSUME HandshakeInv, PCSeeReply
    PROVE  HandshakeInv'
  <1> USE DEF HandshakeInv, PCSeeReply, TypeOK
  <1>0. SessionShape
    BY SessionFacts
  <1>1. TypeOK'
    OBVIOUS
  <1>2. Activity'
    BY DEF Activity
  <1>3. Together'
    BY DEF Together, Got, Replied
  <1>4. Flags'
    BY DEF Flags
  <1>5. Writing'
    BY DEF Writing, Got
  <1>6. Reading'
    <2>1. cpc = "wait"
      <3>1. ASSUME ck = 1, plan[1] = "init", cpc = "idle"
            PROVE  FALSE
        <4>1. pk \in DOMAIN plan /\ pk # 1 /\ ck < pk /\ 1 \in DOMAIN plan
          BY <1>0, <3>1 DEF SessionShape
        <4>2. QED
          BY <3>1, <4>1 DEF Together, Got, Replied
      <3>2. QED
        BY <3>1 DEF Flags
    <2>2. ~(ck < pk)
      BY <2>1 DEF Together, Activity, Got, Replied
    <2>3. ~(pk < ck)
      BY <1>0, SMTT(60) DEF Together, Activity, SessionShape
    <2>4. pk = ck
      BY <1>0, <2>2, <2>3 DEF SessionShape
    <2>5. QED
      BY <2>1, <2>4 DEF Reading, Replied, Activity
  <1>7. History'
    BY DEF History
  <1>8. BlocksIntact'
    BY DEF BlocksIntact
  <1>9. QED
    BY <1>1, <1>2, <1>3, <1>4, <1>5, <1>6, <1>7, <1>8

\* The PC fetches a reply the C64 does not touch.
LEMMA PCFetchInv ==
    ASSUME HandshakeInv, PCFetch
    PROVE  HandshakeInv'
  <1> USE DEF HandshakeInv, PCFetch, TypeOK
  <1>1. TypeOK'
    OBVIOUS
  <1>2. Activity'
    BY DEF Activity
  <1>3. Together'
    BY DEF Together, Got, Replied
  <1>4. Flags'
    BY DEF Flags
  <1>5. Writing'
    BY DEF Writing, Got
  <1>6. Reading'
    BY DEF Reading, Replied
  <1>7. History'
    BY DEF History
  <1>8. BlocksIntact'
    BY DEF BlocksIntact
  <1>9. QED
    BY <1>1, <1>2, <1>3, <1>4, <1>5, <1>6, <1>7, <1>8

\* Taking START down returns the reply and lets the C64 go.
LEMMA PCAcknowledgeInv ==
    ASSUME HandshakeInv, PCAcknowledge
    PROVE  HandshakeInv'
  <1> USE DEF HandshakeInv, PCAcknowledge, TypeOK
  <1>0. SessionShape
    BY SessionFacts
  <1>1. TypeOK'
    <2>1. taken' \in [DOMAIN plan' -> Block \cup {None}]
      BY DEF Activity
    <2>2. pk' \in 1 .. Len(plan') + 1
      BY <1>0 DEF SessionShape, Activity
    <2>3. QED
      BY <2>1, <2>2
  <1>2. Activity'
    BY DEF Activity
  <1>3. Together'
    BY <1>0 DEF Together, Activity, Flags, Got, Replied, Reading, SessionShape
  <1>4. Flags'
    BY DEF Flags
  <1>5. Writing'
    BY DEF Writing, Got
  <1>6. Reading'
    BY DEF Reading, Replied
  <1>7. History'
    BY NoneAssumption, <1>0 DEF History, Activity, SessionShape
  <1>8. BlocksIntact'
    BY NoneAssumption, <1>0 DEF BlocksIntact, History, Writing, Reading, Activity, Got,
       SessionShape
  <1>9. QED
    BY <1>1, <1>2, <1>3, <1>4, <1>5, <1>6, <1>7, <1>8

\* The PC goes on after the server was started.
LEMMA PCPassInitInv ==
    ASSUME HandshakeInv, PCPassInit
    PROVE  HandshakeInv'
  <1> USE DEF HandshakeInv, PCPassInit, TypeOK
  <1>0. SessionShape
    BY SessionFacts
  <1>1. TypeOK'
    BY <1>0 DEF SessionShape
  <1>2. Activity'
    BY DEF Activity
  <1>3. Together'
    BY <1>0 DEF Together, Activity, Got, Replied, SessionShape
  <1>4. Flags'
    BY DEF Flags
  <1>5. Writing'
    BY DEF Writing, Got
  <1>6. Reading'
    BY DEF Reading, Replied
  <1>7. History'
    BY NoneAssumption, <1>0 DEF History, Activity, SessionShape
  <1>8. BlocksIntact'
    BY DEF BlocksIntact
  <1>9. QED
    BY <1>1, <1>2, <1>3, <1>4, <1>5, <1>6, <1>7, <1>8

\* Clearing the mailboxes keeps HandshakeInv, with a PC that waits or does not.
LEMMA C64InitUsbInv ==
    ASSUME HandshakeInv, C64InitUsb
    PROVE  HandshakeInv'
  <1> USE DEF HandshakeInv, C64InitUsb, TypeOK
  <1>0. SessionShape
    BY SessionFacts
  <1>1. TypeOK'
    BY <1>0 DEF SessionShape
  <1>2. Activity'
    BY <1>0 DEF Activity, Flags, Together, Reading, Got, Replied, InitStores,
       SessionShape
  <1>3. Together'
    BY <1>0 DEF Together, Activity, Got, Replied, SessionShape
  <1>4. Flags'
    <2>1. wstart' = FALSE
      BY DEF Flags
    <2>2. rstart' => /\ cpc = "idle" /\ ck = 1 /\ ci <= 4 /\ plan[1] = "init"
      BY DEF Flags
    <2>3. rstart' => /\ cpc' = "idle" /\ ck' = 1 /\ ci' <= 5 /\ plan'[1] = "init"
      BY <2>2 DEF InitStores
    <2>4. QED
      BY <2>1, <2>3 DEF Flags
  <1>5. Writing'
    BY DEF Writing, Got
  <1>6. Reading'
    BY DEF Reading, Replied
  <1>7. History'
    BY NoneAssumption, <1>0 DEF History, Activity, SessionShape
  <1>8. BlocksIntact'
    BY DEF BlocksIntact
  <1>9. QED
    BY <1>1, <1>2, <1>3, <1>4, <1>5, <1>6, <1>7, <1>8

\* The main loop finds BYTES set.
LEMMA C64DataAvailableInv ==
    ASSUME HandshakeInv, C64DataAvailable
    PROVE  HandshakeInv'
  <1> USE DEF HandshakeInv, C64DataAvailable, TypeOK
  <1>1. TypeOK'
    OBVIOUS
  <1>2. Activity'
    BY DEF Activity
  <1>3. Together'
    BY DEF Together, Got, Replied
  <1>4. Flags'
    BY DEF Flags
  <1>5. Writing'
    BY DEF Writing, Got
  <1>6. Reading'
    BY DEF Reading, Replied
  <1>7. History'
    BY DEF History
  <1>8. BlocksIntact'
    BY DEF BlocksIntact
  <1>9. QED
    BY <1>1, <1>2, <1>3, <1>4, <1>5, <1>6, <1>7, <1>8

\* X gets the SEQ of the block before.
LEMMA C64LoadSeqInv ==
    ASSUME HandshakeInv, C64LoadSeq
    PROVE  HandshakeInv'
  <1> USE DEF HandshakeInv, C64LoadSeq, TypeOK
  <1>1. TypeOK'
    OBVIOUS
  <1>2. Activity'
    BY DEF Activity
  <1>3. Together'
    BY DEF Together, Got, Replied
  <1>4. Flags'
    BY DEF Flags
  <1>5. Writing'
    BY DEF Writing, Got
  <1>6. Reading'
    BY DEF Reading, Replied
  <1>7. History'
    BY DEF History
  <1>8. BlocksIntact'
    BY DEF BlocksIntact
  <1>9. QED
    BY <1>1, <1>2, <1>3, <1>4, <1>5, <1>6, <1>7, <1>8

\* The C64 asks for the block.
LEMMA C64RaiseStartInv ==
    ASSUME HandshakeInv, C64RaiseStart
    PROVE  HandshakeInv'
  <1> USE DEF HandshakeInv, C64RaiseStart, TypeOK
  <1>1. TypeOK'
    OBVIOUS
  <1>2. Activity'
    BY DEF Activity
  <1>3. Together'
    BY DEF Together, Got, Replied
  <1>4. Flags'
    BY DEF Flags, Activity, Got, Writing, Reading
  <1>5. Writing'
    BY DEF Writing, Got
  <1>6. Reading'
    BY DEF Reading, Replied
  <1>7. History'
    BY DEF History
  <1>8. BlocksIntact'
    BY DEF BlocksIntact
  <1>9. QED
    BY <1>1, <1>2, <1>3, <1>4, <1>5, <1>6, <1>7, <1>8

\* The C64 sees SEQ change, and the block is complete.
LEMMA C64SeeSeqInv ==
    ASSUME HandshakeInv, C64SeeSeq
    PROVE  HandshakeInv'
  <1> USE DEF HandshakeInv, C64SeeSeq, TypeOK
  <1>1. TypeOK'
    OBVIOUS
  <1>2. Activity'
    BY DEF Activity
  <1>3. Together'
    BY DEF Together, Got, Replied
  <1>4. Flags'
    BY DEF Flags
  <1>5. Writing'
    BY DEF Writing, Got, Activity
  <1>6. Reading'
    BY DEF Reading, Replied
  <1>7. History'
    BY DEF History
  <1>8. BlocksIntact'
    BY DEF BlocksIntact
  <1>9. QED
    BY <1>1, <1>2, <1>3, <1>4, <1>5, <1>6, <1>7, <1>8

\* The C64 works through the block in place.
LEMMA C64CopyInv ==
    ASSUME HandshakeInv, C64Copy
    PROVE  HandshakeInv'
  <1> USE DEF HandshakeInv, C64Copy, TypeOK
  <1>0. SessionShape
    BY SessionFacts
  <1>1. TypeOK'
    <2>1. cbuf' \in Block
      BY DEF Activity
    <2>2. taken' \in [DOMAIN plan' -> Block \cup {None}]
      BY <2>1 DEF Activity
    <2>3. ck' \in 1 .. Len(plan') + 1 /\ ci' \in Nat /\ 1 <= ci'
      BY <1>0 DEF SessionShape, Activity
    <2>4. QED
      BY <2>1, <2>2, <2>3
  <1>2. Activity'
    BY <1>0 DEF Activity, Flags, Together, Reading, Got, Replied, InitStores,
       SessionShape
  <1>3. Together'
    <2>1. CASE ci < BlockLen
      BY <2>1 DEF Together, Got, Replied
    <2>2. CASE ~(ci < BlockLen)
      <3>1. cpc' = "idle" /\ ck' = ck + 1 /\ pk' = pk /\ ppc' = ppc /\ plan' = plan
        BY <2>2
      <3>2. pk > ck \/ (pk = ck /\ ppc = "bytes")
        BY DEF Writing, Got
      <3>3. \A j \in DOMAIN plan : pk <= j /\ j < ck + 1 =>
                Starting(j) \/ (j = pk /\ ppc = "bytes")
        BY <1>0, <3>2 DEF SessionShape
      <3>4. \A j \in DOMAIN plan : ck + 1 <= j /\ j < pk => plan[j] = "race"
        BY <1>0 DEF SessionShape, Together
      <3>5. QED
        BY <3>1, <3>3, <3>4 DEF Together
    <2>3. QED
      BY <2>1, <2>2
  <1>4. Flags'
    BY DEF Flags
  <1>5. Writing'
    BY DEF Writing, Got
  <1>6. Reading'
    BY DEF Reading, Replied
  <1>7. History'
    BY NoneAssumption, <1>0 DEF History, Activity, Together, Reading, Writing, Flags,
       Got, Replied, SessionShape
  <1>8. BlocksIntact'
    <2>1. ASSUME ~(ci < BlockLen)
          PROVE  cbuf' = offered[ck]
      <3>1. cbuf' \in Block /\ wdata \in Block /\ wdata = offered[ck]
        BY DEF Activity, Writing, Got
      <3>2. \A i \in Cells : cbuf'[i] = wdata[i]
        BY <2>1 DEF Activity, Writing
      <3>3. QED
        BY <3>1, <3>2
    <2>2. QED
      BY <2>1 DEF BlocksIntact, Activity
  <1>9. QED
    BY <1>1, <1>2, <1>3, <1>4, <1>5, <1>6, <1>7, <1>8

\* The C64 begins a reply.
LEMMA C64BeginInv ==
    ASSUME HandshakeInv, NEW b \in Block, C64Begin(b)
    PROVE  HandshakeInv'
  <1> USE DEF HandshakeInv, C64Begin, TypeOK
  <1>1. TypeOK'
    OBVIOUS
  <1>2. Activity'
    BY DEF Activity
  <1>3. Together'
    BY DEF Together, Got, Replied
  <1>4. Flags'
    BY DEF Flags
  <1>5. Writing'
    BY DEF Writing, Got, Activity
  <1>6. Reading'
    BY DEF Reading, Replied, Activity
  <1>7. History'
    BY NoneAssumption DEF History
  <1>8. BlocksIntact'
    BY NoneAssumption DEF BlocksIntact, History
  <1>9. QED
    BY <1>1, <1>2, <1>3, <1>4, <1>5, <1>6, <1>7, <1>8

\* The C64 fills the mailbox while the PC still waits.
LEMMA C64FillInv ==
    ASSUME HandshakeInv, C64Fill
    PROVE  HandshakeInv'
  <1> USE DEF HandshakeInv, C64Fill, TypeOK
  <1>0. SessionShape
    BY SessionFacts
  <1>1. TypeOK'
    BY <1>0 DEF Succ, LengthByte, Activity, SessionShape
  <1>2. Activity'
    BY DEF Activity
  <1>3. Together'
    BY DEF Together, Got, Replied
  <1>4. Flags'
    BY DEF Flags
  <1>5. Writing'
    BY DEF Writing, Got
  <1>6. Reading'
    BY DEF Reading, Replied
  <1>7. History'
    BY DEF History
  <1>8. BlocksIntact'
    BY DEF BlocksIntact
  <1>9. QED
    BY <1>1, <1>2, <1>3, <1>4, <1>5, <1>6, <1>7, <1>8

\* The C64 offers its complete reply.
LEMMA C64RaiseReplyInv ==
    ASSUME HandshakeInv, C64RaiseReply
    PROVE  HandshakeInv'
  <1> USE DEF HandshakeInv, C64RaiseReply, TypeOK
  <1>1. TypeOK'
    OBVIOUS
  <1>2. Activity'
    BY DEF Activity
  <1>3. Together'
    BY DEF Together, Got, Replied
  <1>4. Flags'
    BY DEF Flags
  <1>5. Writing'
    BY DEF Writing, Got
  <1>6. Reading'
    BY DEF Reading, Replied
  <1>7. History'
    BY DEF History
  <1>8. BlocksIntact'
    BY DEF BlocksIntact
  <1>9. QED
    BY <1>1, <1>2, <1>3, <1>4, <1>5, <1>6, <1>7, <1>8

\* The C64 sees START taken down, and the PC has the reply.
LEMMA C64ReplyTakenInv ==
    ASSUME HandshakeInv, C64ReplyTaken
    PROVE  HandshakeInv'
  <1> USE DEF HandshakeInv, C64ReplyTaken, TypeOK
  <1>0. SessionShape
    BY SessionFacts
  <1>1. TypeOK'
    BY <1>0 DEF Succ, LengthByte, Activity, SessionShape
  <1>2. Activity'
    BY <1>0 DEF Activity, Flags, Together, Reading, Got, Replied, InitStores,
       SessionShape
  <1>3. Together'
    BY <1>0 DEF Together, Activity, Flags, Got, Replied, Reading, Writing, SessionShape
  <1>4. Flags'
    BY DEF Flags
  <1>5. Writing'
    BY DEF Writing, Got
  <1>6. Reading'
    BY DEF Reading, Replied
  <1>7. History'
    BY NoneAssumption, <1>0 DEF History, Activity, SessionShape
  <1>8. BlocksIntact'
    BY DEF BlocksIntact
  <1>9. QED
    BY <1>1, <1>2, <1>3, <1>4, <1>5, <1>6, <1>7, <1>8

-----------------------------------------------------------------------------
\* The invariant holds over whatever memory the session finds.
LEMMA InitInv == Init => HandshakeInv
  <1> SUFFICES ASSUME Init PROVE HandshakeInv
    OBVIOUS
  <1>0. SessionShape
    BY SessionFacts DEF Init
  <1>1. TypeOK
    BY <1>0 DEF Init, TypeOK, SessionShape
  <1>2. Activity /\ Together /\ Flags /\ Writing /\ Reading
    BY <1>0 DEF Init, SessionShape, InitStores, Got, Replied,
                Activity, Together, Flags, Writing, Reading
  <1>3. History /\ BlocksIntact
    BY <1>0 DEF Init, SessionShape, History, BlocksIntact
  <1>4. QED
    BY <1>1, <1>2, <1>3 DEF HandshakeInv

\* No step of either side breaks the invariant: BlocksIntact is inductive with its company.
LEMMA StepInv == HandshakeInv /\ [Next]_vars => HandshakeInv'
  <1> SUFFICES ASSUME HandshakeInv, [Next]_vars
               PROVE  HandshakeInv'
    OBVIOUS
  <1>1. CASE PCStep
    BY <1>1, PCAnnounceInv, PCSeeReadyInv, PCClearStartInv, PCStoreDataInv,
       PCStoreSeqInv, PCClearBytesInv, PCSeeReplyInv, PCFetchInv,
       PCAcknowledgeInv, PCPassInitInv DEF PCStep, PCWrites, PCReads
  <1>2. CASE C64Step
    BY <1>2, C64InitUsbInv, C64DataAvailableInv, C64LoadSeqInv, C64RaiseStartInv,
       C64SeeSeqInv, C64CopyInv, C64BeginInv, C64FillInv, C64RaiseReplyInv,
       C64ReplyTakenInv DEF C64Step, C64Reads, C64Writes
  <1>3. CASE UNCHANGED vars
    BY <1>3 DEF HandshakeInv, TypeOK, Activity, Together, Flags, Writing, Reading,
                History, BlocksIntact, Got, Replied
  <1>4. QED
    BY <1>1, <1>2, <1>3 DEF Next

(***************************************************************************)
(* The invariant of the handshake (chbidir.c against chbidir.s).           *)
(***************************************************************************)
THEOREM Handshake == Spec => []HandshakeInv
  <1>1. QED
    BY InitInv, StepInv, PTL DEF Spec

(***************************************************************************)
(* Every call returns the block the matching call was given, for every     *)
(* session, also when the server restarts while the PC is already writing. *)
(***************************************************************************)
THEOREM Intact == Spec => []BlocksIntact
  <1>1. HandshakeInv => BlocksIntact
    BY DEF HandshakeInv
  <1>2. QED
    BY <1>1, Handshake, PTL

(***************************************************************************)
(* Nothing overwrites the block the caller of get_block is working on.     *)
(***************************************************************************)
THEOREM InPlace == Spec => InPlaceBlockStable
  <1>1. HandshakeInv /\ [Next]_vars => [cpc = "copy" => wdata' = wdata]_vars
    <2> SUFFICES ASSUME HandshakeInv, [Next]_vars, cpc = "copy"
                 PROVE  wdata' = wdata
      OBVIOUS
    <2>1. ~PCStoreData /\ ~C64InitUsb
      BY DEF PCStoreData, C64InitUsb, HandshakeInv, Writing
    <2>2. CASE PCStep
      BY <2>1, <2>2 DEF PCStep, PCWrites, PCReads, PCAnnounce, PCSeeReady, PCClearStart, PCStoreSeq,
         PCClearBytes, PCSeeReply, PCFetch, PCAcknowledge, PCPassInit
    <2>3. CASE C64Step
      BY <2>1, <2>3 DEF C64Step, C64Reads, C64Writes, C64DataAvailable, C64LoadSeq, C64RaiseStart,
         C64SeeSeq, C64Copy, C64Begin, C64Fill, C64RaiseReply, C64ReplyTaken
    <2>4. QED
      BY <2>2, <2>3 DEF Next
  <1>2. QED
    BY <1>1, Handshake, PTL DEF Spec, InPlaceBlockStable

-----------------------------------------------------------------------------
(***************************************************************************)
(* Refinement: a call that begins is an Offer, a call that returns a block *)
(* is a Take, every other step is invisible.                               *)
(***************************************************************************)
LEMMA MoveKinds ==
    ASSUME plan \in Plans, NEW j \in Link!Moves
    PROVE  /\ j \in DOMAIN plan /\ ~Starting(j) /\ plan[j] # "race"
           /\ ToC64(j) \/ ToPC(j)
  <1>1. plan \in Seq(Link!Kinds) /\ j \in DOMAIN plan
    BY PlansAssumption DEF Link!Moves
  <1>2. plan[j] \in Link!Kinds
    BY <1>1
  <1>3. QED
    BY <1>1, <1>2 DEF Link!Moves, Link!Kinds

\* Announcing a write is offering a block.
LEMMA AnnounceOffers ==
    ASSUME HandshakeInv, NEW b \in Block, PCAnnounce(b)
    PROVE  Link!Offer(pk, b) /\ pk \in Link!Moves
  <1> USE DEF HandshakeInv, TypeOK, PCAnnounce
  <1>0. SessionShape
    BY SessionFacts
  <1>1. pk \in Link!Moves /\ offered[pk] = None
    BY DEF Link!Moves, History
  <1>2. ASSUME NEW j \in Link!Moves, j < pk, ~Link!SameWay(j, pk)
        PROVE  taken[j] # None
    BY <1>2 DEF Link!Moves, Link!SameWay, History
  <1>3. ASSUME NEW i \in Link!Moves, NEW j \in Link!Moves, i < j, j < pk,
               Link!SameWay(i, pk), Link!SameWay(j, pk)
        PROVE  taken[i] # None
    <2>1. i \in DOMAIN plan /\ j \in DOMAIN plan /\ plan[j] # "race" /\ ToC64(i)
      BY <1>3, MoveKinds DEF Link!SameWay
    <2>2. ~(ck <= i)
      <3>1. SUFFICES ASSUME ck <= i PROVE FALSE
        OBVIOUS
      <3>2. ck <= j /\ j # ck
        BY <1>0, <1>3, <2>1, <3>1 DEF SessionShape
      <3>3. QED
        BY <1>3, <2>1, <3>2 DEF Together
    <2>3. QED
      BY <1>0, <2>1, <2>2 DEF SessionShape, History
  <1>4. QED
    BY <1>1, <1>2, <1>3 DEF Link!Offer

\* Beginning a reply is offering a block.
LEMMA BeginOffers ==
    ASSUME HandshakeInv, NEW b \in Block, C64Begin(b)
    PROVE  Link!Offer(ck, b) /\ ck \in Link!Moves
  <1> USE DEF HandshakeInv, TypeOK, C64Begin
  <1>0. SessionShape
    BY SessionFacts
  <1>1. ck \in Link!Moves /\ offered[ck] = None
    BY DEF Link!Moves, History
  <1>2. ASSUME NEW j \in Link!Moves, j < ck, ~Link!SameWay(j, ck)
        PROVE  taken[j] # None
    <2>1. ToC64(j)
      BY <1>2, MoveKinds DEF Link!SameWay
    <2>2. QED
      BY <1>2, <2>1 DEF History
  <1>3. ASSUME NEW i \in Link!Moves, NEW j \in Link!Moves, i < j, j < ck,
               Link!SameWay(i, ck), Link!SameWay(j, ck)
        PROVE  taken[i] # None
    <2>1. ToPC(i)
      BY <1>3 DEF Link!Moves, Link!SameWay
    <2>2. i \in DOMAIN plan /\ i < ck /\ ~Starting(i) /\ ~ToC64(i)
      BY <1>0, <1>3, <2>1 DEF SessionShape, Link!Moves
    <2>3. ~(pk <= i)
      BY <2>2 DEF Together, Activity
    <2>4. i < pk
      BY <1>0, <2>2, <2>3 DEF SessionShape
    <2>5. QED
      BY <2>1, <2>4 DEF History
  <1>4. QED
    BY <1>1, <1>2, <1>3 DEF Link!Offer

\* Taking START down is taking the offered reply.
LEMMA AcknowledgeTakes ==
    ASSUME HandshakeInv, PCAcknowledge
    PROVE  Link!Take(pk) /\ pk \in Link!Moves
  <1> USE DEF HandshakeInv, TypeOK, PCAcknowledge
  <1>1. pk = ck /\ cpc = "wait" /\ ToPC(pk) /\ pbuf = offered[pk]
    BY DEF Reading, Activity
  <1>2. pk \in Link!Moves /\ offered[pk] # None /\ taken[pk] = None
    BY <1>1 DEF Link!Moves, History
  <1>3. ASSUME NEW j \in Link!Moves, j < pk, Link!SameWay(j, pk)
        PROVE  taken[j] # None
    BY <1>1, <1>3 DEF Link!Moves, Link!SameWay, History
  <1>4. QED
    BY <1>1, <1>2, <1>3 DEF Link!Take

\* The last cell worked through is taking the offered block.
LEMMA CopyTakes ==
    ASSUME HandshakeInv, C64Copy
    PROVE  UNCHANGED Link!avars \/ (Link!Take(ck) /\ ck \in Link!Moves)
  <1> USE DEF HandshakeInv, TypeOK, C64Copy
  <1>1. CASE ci < BlockLen
    BY <1>1 DEF Link!avars
  <1>2. CASE ~(ci < BlockLen)
    <2>1. ToC64(ck) /\ cbuf' = offered[ck]
      <3>1. cbuf' \in Block /\ wdata \in Block /\ wdata = offered[ck] /\ ToC64(ck)
        BY DEF Activity, Writing, Got
      <3>2. \A i \in Cells : cbuf'[i] = wdata[i]
        BY <1>2 DEF Activity, Writing
      <3>3. QED
        BY <3>1, <3>2
    <2>2. ck \in Link!Moves /\ taken[ck] = None
      BY <2>1 DEF Link!Moves, History
    <2>3. offered[ck] # None
      BY <2>1 DEF History, Writing, Got
    <2>4. ASSUME NEW j \in Link!Moves, j < ck, Link!SameWay(j, ck)
          PROVE  taken[j] # None
      <3>1. ToC64(j)
        BY <2>1, <2>4, MoveKinds DEF Link!SameWay
      <3>2. QED
        BY <2>4, <3>1 DEF History
    <2>5. QED
      BY <1>2, <2>1, <2>2, <2>3, <2>4 DEF Link!Take
  <1>3. QED
    BY <1>1, <1>2

\* Every step is a step of Transfers or changes nothing of it.
LEMMA StepRefines == HandshakeInv /\ [Next]_vars => [Link!Next]_(Link!avars)
  <1> SUFFICES ASSUME HandshakeInv, [Next]_vars
               PROVE  [Link!Next]_(Link!avars)
    OBVIOUS
  <1>1. ASSUME NEW b \in Block, PCAnnounce(b) PROVE Link!Next
    BY <1>1, AnnounceOffers DEF Link!Next
  <1>2. ASSUME NEW b \in Block, C64Begin(b) PROVE Link!Next
    BY <1>2, BeginOffers DEF Link!Next
  <1>3. CASE PCAcknowledge
    BY <1>3, AcknowledgeTakes DEF Link!Next
  <1>4. CASE C64Copy
    BY <1>4, CopyTakes DEF Link!Next
  <1>5. CASE UNCHANGED session
    BY <1>5 DEF Link!avars
  <1>6. PCStep => \/ \E b \in Block : PCAnnounce(b)
                  \/ PCAcknowledge
                  \/ UNCHANGED session
    BY DEF PCStep, PCWrites, PCReads, PCSeeReady, PCClearStart, PCStoreData, PCStoreSeq,
           PCClearBytes, PCSeeReply, PCFetch, PCPassInit
  <1>7. C64Step => \/ \E b \in Block : C64Begin(b)
                   \/ C64Copy
                   \/ UNCHANGED session
    BY DEF C64Step, C64Reads, C64Writes, C64InitUsb, C64DataAvailable, C64LoadSeq, C64RaiseStart,
           C64SeeSeq, C64Fill, C64RaiseReply, C64ReplyTaken
  <1>8. QED
    BY <1>1, <1>2, <1>3, <1>4, <1>5, <1>6, <1>7 DEF Next

(***************************************************************************)
(* The mailboxes implement the abstract sequence of transfers: blocks are  *)
(* handed over in the order of the session, each once and unchanged, and   *)
(* the sender is never more than one block ahead.                          *)
(***************************************************************************)
THEOREM LinkRefinement == Spec => LinkSpec
  <1>1. Init => Link!Init
    BY PlansAssumption DEF Init, Link!Init
  <1>2. QED
    BY <1>1, StepRefines, Handshake, PTL DEF Spec, LinkSpec, Link!Spec
=============================================================================
