--------------------------- MODULE LogFifoProofs ---------------------------
(***************************************************************************)
(* Proofs about the log of Chaco, for rings of every size and any number   *)
(* of lines.  With both threads at the ring whenever they like: the types  *)
(* of its cells are kept (the count never goes below zero, the indexes     *)
(* stay in the ring), and no line is shown twice.  As long as they never   *)
(* meet there: the ring is a queue of the lines accepted and not shown.    *)
(***************************************************************************)
EXTENDS LogFifo, SequenceTheorems, TLAPS

\* A thread that has a line to put into the ring.
Carries(t) == pc[t] \in {"check", "wait", "again", "put"}

\* What the callback has seen of the count is still so: only it counts down.
Counted ==
    /\ pc["gui"] \in {"show", "free", "uncount"} => textlines >= 1
    /\ pc["gui"] = "less" => tmp["gui"] >= 1

\* Lines are numbered as they are printed, so what comes next is nowhere yet.
Numbered ==
    /\ \A k \in DOMAIN shown : shown[k] < next
    /\ \A i \in Slots : textbuffer[i] < next
    /\ \A t \in Threads : Carries(t) => msg[t] \in 1 .. next - 1

\* A line is carried by a thread, in the ring or in the window, but for the one slot
\* that the callback has shown and not yet emptied.
Lines == \A t, u \in Threads : Carries(t) /\ Carries(u) /\ msg[t] = msg[u] => t = u

Held ==
    \A t \in Threads : Carries(t) =>
        /\ \A i \in Slots : textbuffer[i] # msg[t]
        /\ \A k \in DOMAIN shown : shown[k] # msg[t]

Ring == \A i, j \in Slots : textbuffer[i] # Empty /\ textbuffer[i] = textbuffer[j] => i = j

Window ==
    \A i \in Slots, k \in DOMAIN shown :
        textbuffer[i] = shown[k] => i = textreadptr /\ pc["gui"] = "free"

Apart == Lines /\ Held /\ Ring /\ Window

Once == Counted /\ Numbered /\ Apart /\ ShownOnce

-----------------------------------------------------------------------------
\* Indexes stay in the ring.
LEMMA NextSlot ==
    ASSUME NEW i \in Nat
    PROVE  (i + 1) % MaxMsg \in Slots
  BY LogAssumption DEF Slots

\* What a sequence holds.
LEMMA Elements ==
    ASSUME NEW S, NEW s \in Seq(S)
    PROVE  \A k \in DOMAIN s : s[k] \in S
  OBVIOUS

\* Lines in the window are lines.
LEMMA ShownLines ==
    ASSUME TypeOK
    PROVE  \A k \in DOMAIN shown : shown[k] \in 1 .. Prints
  <1>1. shown \in Seq(1 .. Prints)
    BY DEF TypeOK
  <1>2. QED
    BY <1>1, Elements

\* The cells keep their types.
LEMMA Types ==
    ASSUME TypeOK, Counted, Numbered, [Next]_vars
    PROVE  TypeOK'
  <1> USE LogAssumption DEF TypeOK, ring, threads, Step, From, Goto, Threads, Empty
  <1>1. ASSUME NEW t \in Threads, OutPrint(t), Raced
        PROVE  TypeOK'
    <2>1. raced' \in BOOLEAN
      BY <1>1 DEF Raced
    <2>2. CASE PrintDirectly(t)
      BY <2>1, <2>2 DEF PrintDirectly
    <2>3. CASE PrintLater(t)
      BY <2>1, <2>3 DEF PrintLater
    <2>4. CASE Check(t) \/ Wait(t) \/ CheckAgain(t) \/ Drop(t)
      BY <2>1, <2>4 DEF Check, Wait, CheckAgain, Drop
    <2>5. CASE Put(t)
      BY <2>1, <2>5 DEF Put, Numbered, Carries
    <2>6. CASE LoadWritePtr(t)
      BY <2>1, <2>6 DEF LoadWritePtr, Slots
    <2>7. CASE StoreWritePtr(t)
      BY <2>1, <2>7, NextSlot DEF StoreWritePtr
    <2>8. CASE LoadLines(t) \/ StoreLines(t)
      BY <2>1, <2>8 DEF LoadLines, StoreLines
    <2>9. QED
      BY <1>1, <2>2, <2>3, <2>4, <2>5, <2>6, <2>7, <2>8 DEF OutPrint
  <1>2. ASSUME Tick \/ GUIUpdate, Raced
        PROVE  TypeOK'
    <2>1. raced' \in BOOLEAN
      BY <1>2 DEF Raced
    <2>2. CASE Tick \/ While \/ NotInSync
      BY <2>1, <2>2 DEF Tick, While, NotInSync
    <2>3. CASE Show
      BY <2>1, <2>3 DEF Show
    <2>4. CASE Free
      <3>1. textreadptr' \in Slots
        BY <2>4, NextSlot DEF Free, Slots
      <3>2. QED
        BY <2>1, <2>4, <3>1 DEF Free
    <2>5. CASE LoadCount \/ StoreCount
      BY <2>1, <2>5 DEF LoadCount, StoreCount, Counted
    <2>6. CASE ResetLines \/ ResetOverflow
      BY <2>1, <2>6 DEF ResetLines, ResetOverflow
    <2>7. QED
      BY <1>2, <2>2, <2>3, <2>4, <2>5, <2>6 DEF GUIUpdate
  <1>3. CASE UNCHANGED vars
    BY <1>3 DEF vars
  <1>4. QED
    BY <1>1, <1>2, <1>3 DEF Next

-----------------------------------------------------------------------------
\* Steps of outPrint.
LEMMA PrintKeepsOnce ==
    ASSUME TypeOK, Once, NEW t \in Threads, OutPrint(t)
    PROVE  Once'
  <1> USE DEF TypeOK, Once, Counted, Numbered, Apart, Lines, Held, Ring, Window,
              ShownOnce, Carries, ring, threads,
              Step, From, Goto, Threads, Empty
  <1>1. CASE PrintDirectly(t)
    <2>1. shown' = Append(shown, next) /\ next' = next + 1 /\ UNCHANGED <<ring, threads>>
      BY <1>1 DEF PrintDirectly
    <2>2. /\ DOMAIN shown' = 1 .. Len(shown) + 1
          /\ \A k \in DOMAIN shown' : shown'[k] = IF k \in DOMAIN shown THEN shown[k] ELSE next
          /\ DOMAIN shown = 1 .. Len(shown)
      BY <2>1
    <2>3. Counted' /\ Numbered'
      <3>1. Counted'
        BY <2>1, <2>2
      <3>2. \A k \in DOMAIN shown' : shown'[k] < next'
        BY <2>1, <2>2, ShownLines
      <3>3. \A i \in Slots : textbuffer'[i] < next'
        BY <2>1
      <3>4. \A u \in Threads : Carries(u)' => msg'[u] \in 1 .. next' - 1
        BY <2>1, <2>2
      <3>5. QED
        BY <3>1, <3>2, <3>3, <3>4
    <2>4. Apart'
      <3>1. Lines'
        BY <2>1, <2>2
      <3>2. Held'
        BY <2>1, <2>2
      <3>3. Ring'
        BY <2>1, <2>2
      <3>4. Window'
        BY <2>1, <2>2
      <3>5. QED
        BY <3>1, <3>2, <3>3, <3>4
    <2>5. ShownOnce'
      BY <2>1, <2>2
    <2>6. QED
      BY <2>3, <2>4, <2>5
  <1>2. CASE PrintLater(t)
    <2>1. msg' = [msg EXCEPT ![t] = next] /\ next' = next + 1 /\ UNCHANGED <<ring, tmp, shown>>
      BY <1>2 DEF PrintLater
    <2>2. pc' = [pc EXCEPT ![t] = "check"] /\ pc[t] = "idle"
      BY <1>2 DEF PrintLater
    <2>3. Counted' /\ Numbered'
      <3>1. Counted'
        BY <2>1, <2>2
      <3>2. \A k \in DOMAIN shown' : shown'[k] < next'
        BY <2>1, <2>2, ShownLines
      <3>3. \A i \in Slots : textbuffer'[i] < next'
        BY <2>1
      <3>4. \A u \in Threads : Carries(u)' => msg'[u] \in 1 .. next' - 1
        BY <2>1, <2>2
      <3>5. QED
        BY <3>1, <3>2, <3>3, <3>4
    <2>4. Apart'
      <3>1. Lines'
        BY <2>1, <2>2
      <3>2. Held'
        BY <2>1, <2>2
      <3>3. Ring'
        BY <2>1, <2>2
      <3>4. Window'
        BY <2>1, <2>2
      <3>5. QED
        BY <3>1, <3>2, <3>3, <3>4
    <2>5. ShownOnce'
      BY <2>1
    <2>6. QED
      BY <2>3, <2>4, <2>5
  <1>3. CASE Check(t)
    BY <1>3 DEF Check
  <1>4. CASE Wait(t) \/ CheckAgain(t) \/ Drop(t)
    BY <1>4 DEF Wait, CheckAgain, Drop
  <1>5. CASE Put(t)
    BY <1>5 DEF Put
  <1>6. CASE LoadWritePtr(t) \/ StoreWritePtr(t) \/ LoadLines(t) \/ StoreLines(t)
    BY <1>6, SMTT(60) DEF LoadWritePtr, StoreWritePtr, LoadLines, StoreLines
  <1>7. QED
    BY <1>1, <1>2, <1>3, <1>4, <1>5, <1>6 DEF OutPrint

\* Steps of the callback.
LEMMA UpdateKeepsOnce ==
    ASSUME TypeOK, Once, Tick \/ GUIUpdate
    PROVE  Once'
  <1> USE DEF TypeOK, Once, Counted, Numbered, Apart, Lines, Held, Ring, Window,
              ShownOnce, Carries, ring, threads,
              Step, From, Goto, Threads, Empty
  <1>1. CASE Tick \/ While \/ NotInSync
    BY <1>1 DEF Tick, While, NotInSync
  <1>2. CASE Show
    BY <1>2 DEF Show
  <1>3. CASE Free
    <2>1. /\ textbuffer' = [textbuffer EXCEPT ![textreadptr] = Empty]
          /\ UNCHANGED <<shown, next, msg, tmp, textlines>>
      BY <1>3 DEF Free
    <2>2. pc' = [pc EXCEPT !["gui"] = "uncount"] /\ pc["gui"] = "free"
      BY <1>3 DEF Free
    <2>3. Counted' /\ Numbered' /\ ShownOnce'
      BY <2>1, <2>2
    <2>4. Apart'
      <3>1. Lines'
        BY <2>1, <2>2
      <3>2. Held'
        BY <2>1, <2>2
      <3>3. Ring'
        BY <2>1, <2>2
      <3>4. Window'
        <4>1. \A k \in DOMAIN shown : shown[k] \in 1 .. Prints
          BY ShownLines
        <4>2. \A i \in Slots, k \in DOMAIN shown : textbuffer'[i] # shown[k]
          BY <2>1, <4>1
        <4>3. QED
          BY <2>1, <4>2
      <3>5. QED
        BY <3>1, <3>2, <3>3, <3>4
    <2>5. QED
      BY <2>3, <2>4
  <1>4. CASE LoadCount \/ StoreCount
    BY <1>4 DEF LoadCount, StoreCount
  <1>5. CASE ResetLines \/ ResetOverflow
    BY <1>5 DEF ResetLines, ResetOverflow
  <1>6. QED
    BY <1>1, <1>2, <1>3, <1>4, <1>5 DEF GUIUpdate

\* The invariant of the two theorems below.
LEMMA OnceInvariant == Spec => [](TypeOK /\ Once)
  <1>1. Init => TypeOK /\ Once
    BY LogAssumption DEF Init, TypeOK, Once, Counted, Numbered, Apart, Lines, Held, Ring,
                         Window, ShownOnce, Carries,
                         Slots, Threads, Empty
  <1>2. TypeOK /\ Once /\ [Next]_vars => (TypeOK /\ Once)'
    <2> SUFFICES ASSUME TypeOK, Once, [Next]_vars
                 PROVE  TypeOK' /\ Once'
      OBVIOUS
    <2>1. TypeOK'
      BY Types DEF Once
    <2>2. CASE UNCHANGED vars
      BY <2>1, <2>2 DEF vars, ring, threads, Once, Counted, Numbered, Apart, Lines, Held,
                        Ring, Window, ShownOnce, Carries
    <2>3. CASE \E t \in Threads : OutPrint(t)
      BY <2>1, <2>3, PrintKeepsOnce
    <2>4. CASE Tick \/ GUIUpdate
      BY <2>1, <2>4, UpdateKeepsOnce
    <2>5. QED
      BY <2>1, <2>2, <2>3, <2>4 DEF Next
  <1>3. QED
    BY <1>1, <1>2, PTL DEF Spec

(***************************************************************************)
(* The types of the cells that outPrint and GUIUpdate share are kept,      *)
(* whatever the threads do at the same time: the count textlines never     *)
(* goes below zero, though both load and store it.                         *)
(***************************************************************************)
THEOREM LogTypes == Spec => []TypeOK
  BY OnceInvariant, PTL

(***************************************************************************)
(* No line is shown twice, whatever the threads do at the same time.       *)
(***************************************************************************)
THEOREM LogShownOnce == Spec => []ShownOnce
  <1>1. Once => ShownOnce
    BY DEF Once
  <1>2. QED
    BY <1>1, OnceInvariant, PTL

-----------------------------------------------------------------------------
\* How many lines the ring holds, and where the first of them lies: once the callback has
\* shown a line, behind the slot it has not emptied yet.
Backlog == Len(accepted) - Len(shown)
Shift == IF From("gui", "free") THEN 1 ELSE 0
Place(k) == (textreadptr + Shift + k - 1) % MaxMsg

\* What is still to be added to the count, to be taken from it, and to the write pointer.
Uncounted ==
    IF \E t \in Threads : pc[t] \in {"load", "store", "lines", "count"} THEN 1 ELSE 0
Overcounted == IF pc["gui"] \in {"free", "uncount", "less"} THEN 1 ELSE 0
Behind == IF \E t \in Threads : pc[t] \in {"load", "store"} THEN 1 ELSE 0

Alone == \E t \in Threads : ~AtRing(t, pc)
Prefix == Len(shown) <= Len(accepted) /\ \A k \in 1 .. Len(shown) : shown[k] = accepted[k]
Fits == Backlog + Shift <= MaxMsg
Content == \A k \in 1 .. Backlog : textbuffer[Place(k)] = accepted[Len(shown) + k]
Tally == textlines + Uncounted = Backlog + Overcounted
WritePlace == textwriteptr = (textreadptr + Shift + Backlog - Behind) % MaxMsg

\* What a thread has loaded, or seen of the count, is still so.
Loaded ==
    /\ \A t \in Threads :
        /\ pc[t] = "put" => textlines # MaxMsg
        /\ pc[t] = "store" => tmp[t] = textwriteptr
        /\ pc[t] = "count" => tmp[t] = textlines
    /\ pc["gui"] = "less" => tmp["gui"] = textlines
    /\ pc["gui"] = "show" => textlines # 0
    /\ pc["gui"] = "reset" => textlines = 0

\* Before the first tick the ring is not used.
Quiet == ~timerrunning => textlines = 0 /\ \A t \in Threads : From(t, "idle")

Kept == Alone /\ Prefix /\ Fits /\ Content /\ Tally /\ WritePlace /\ Loaded
Fifo == Quiet /\ (~raced => Kept)

-----------------------------------------------------------------------------
\* Going round the ring at most once.
LEMMA Around ==
    ASSUME NEW x \in 0 .. 2 * MaxMsg - 1
    PROVE  x % MaxMsg = IF x < MaxMsg THEN x ELSE x - MaxMsg
  <1>1. CASE x < MaxMsg
    BY <1>1, LogAssumption
  <1>2. CASE x >= MaxMsg
    <2>1. x - MaxMsg \in 0 .. MaxMsg - 1 /\ x = (x - MaxMsg) + 1 * MaxMsg
      BY <1>2, LogAssumption
    <2>2. QED
      BY <1>2, <2>1, LogAssumption
  <1>3. QED
    BY <1>1, <1>2, LogAssumption

\* Where the lines of the ring are.
LEMMA Places ==
    ASSUME TypeOK, Prefix, Fits
    PROVE  /\ Backlog \in Nat /\ Shift \in {0, 1}
           /\ Len(shown) \in Nat /\ Len(accepted) \in Nat
           /\ \A k \in 1 .. Backlog + 1 :
                  Backlog + Shift < MaxMsg \/ k <= Backlog =>
                      Place(k) = IF textreadptr + Shift + k - 1 < MaxMsg
                                 THEN textreadptr + Shift + k - 1
                                 ELSE textreadptr + Shift + k - 1 - MaxMsg
  <1>1. Len(shown) \in Nat /\ Len(accepted) \in Nat
    BY DEF TypeOK
  <1>2. Backlog \in Nat /\ Shift \in {0, 1}
    BY <1>1 DEF Prefix, Backlog, Shift
  <1>3. ASSUME NEW k \in 1 .. Backlog + 1, Backlog + Shift < MaxMsg \/ k <= Backlog
        PROVE  textreadptr + Shift + k - 1 \in 0 .. 2 * MaxMsg - 1
    BY <1>2, <1>3, LogAssumption DEF TypeOK, Slots, Fits
  <1>4. ASSUME NEW k \in 1 .. Backlog + 1, Backlog + Shift < MaxMsg \/ k <= Backlog
        PROVE  Place(k) = IF textreadptr + Shift + k - 1 < MaxMsg
                          THEN textreadptr + Shift + k - 1
                          ELSE textreadptr + Shift + k - 1 - MaxMsg
    <2>1. PICK x \in 0 .. 2 * MaxMsg - 1 : x = textreadptr + Shift + k - 1
      BY <1>3, <1>4
    <2>2. Place(k) = x % MaxMsg
      BY <2>1 DEF Place
    <2>3. x % MaxMsg = IF x < MaxMsg THEN x ELSE x - MaxMsg
      BY Around
    <2>4. textreadptr \in Nat /\ k \in Nat
      BY <1>2 DEF TypeOK, Slots
    <2>5. QED
      BY <1>2, <2>1, <2>2, <2>3, <2>4, LogAssumption
  <1>5. QED
    BY <1>1, <1>2, <1>4

\* A step that leaves the ring and its places alone, and settles its own accounts.
LEMMA Undisturbed ==
    ASSUME TypeOK, Prefix, Fits, Content,
           UNCHANGED <<textreadptr, textbuffer, shown, accepted>>, Shift' = Shift
    PROVE  Prefix' /\ Fits' /\ Content' /\ Backlog' = Backlog
  BY DEF Prefix, Fits, Content, Backlog, Place

\* Printing.
LEMMA PrintKeepsFifo ==
    ASSUME TypeOK, Numbered, Quiet, Kept, NEW t \in Threads, OutPrint(t), Alone'
    PROVE  Kept'
  <1> USE DEF Step, From, Goto, Threads, Slots, ring, threads
  <1>0. /\ Prefix /\ Fits /\ Content /\ Tally /\ WritePlace /\ Loaded /\ Alone
        /\ Backlog \in Nat /\ Shift \in {0, 1} /\ textlines \in Nat
        /\ pc = [u \in Threads |-> pc[u]] /\ MaxMsg \in Nat \ {0}
    <2>1. Prefix /\ Fits /\ Content /\ Tally /\ WritePlace /\ Loaded /\ Alone
      BY DEF Kept
    <2>2. Backlog \in Nat /\ Shift \in {0, 1}
      BY <2>1, Places
    <2>3. pc = [u \in Threads |-> pc[u]] /\ textlines \in Nat
      BY DEF TypeOK
    <2>4. QED
      BY <2>1, <2>2, <2>3, LogAssumption
  <1>1. CASE PrintDirectly(t)
    <2>1. /\ shown' = Append(shown, next) /\ accepted' = Append(accepted, next)
          /\ UNCHANGED <<ring, threads>> /\ textlines = 0
          /\ \A u \in Threads : pc[u] = "idle"
      BY <1>1 DEF PrintDirectly, Quiet
    <2>2. Backlog = 0 /\ Len(shown) = Len(accepted)
      BY <1>0, <2>1, Places DEF Tally, Uncounted, Overcounted, Backlog
    <2>3. /\ Len(shown') = Len(shown) + 1 /\ Len(accepted') = Len(accepted) + 1
          /\ \A k \in 1 .. Len(shown) : shown'[k] = shown[k] /\ accepted'[k] = accepted[k]
          /\ shown'[Len(shown) + 1] = next /\ accepted'[Len(accepted) + 1] = next
          /\ Len(shown) \in Nat
      BY <1>0, <2>1, <2>2 DEF TypeOK, Prefix
    <2>4. Backlog' = 0 /\ Prefix'
      BY <1>0, <2>2, <2>3 DEF Backlog, Prefix
    <2>5. Content' /\ Fits' /\ Shift' = Shift
      BY <1>0, <2>1, <2>2, <2>4 DEF Content, Fits, Shift
    <2>6. Tally' /\ WritePlace' /\ Loaded'
      BY <1>0, <2>1, <2>2, <2>4, <2>5
         DEF Tally, Uncounted, Overcounted, WritePlace, Behind, Loaded
    <2>7. QED
      BY <2>4, <2>5, <2>6 DEF Kept
  <1>2. CASE PrintLater(t) \/ Check(t) \/ Wait(t) \/ CheckAgain(t) \/ Drop(t)
    <2>1. /\ UNCHANGED <<textlines, textreadptr, textwriteptr, textbuffer, tmp, shown, accepted>>
          /\ pc[t] \in {"idle", "check", "wait", "again"}
          /\ \E p \in {"idle", "check", "wait", "again", "put"} :
                pc' = [pc EXCEPT ![t] = p] /\ (p = "put" => textlines # MaxMsg)
      BY <1>2 DEF PrintLater, Check, Wait, CheckAgain, Drop
    <2>2. Shift' = Shift /\ Uncounted' = Uncounted /\ Overcounted' = Overcounted /\ Behind' = Behind
      BY <1>0, <2>1 DEF Shift, Uncounted, Overcounted, Behind
    <2>3. Prefix' /\ Fits' /\ Content' /\ Backlog' = Backlog
      BY <1>0, <2>1, <2>2, Undisturbed
    <2>4. Tally' /\ WritePlace' /\ Loaded'
      BY <1>0, <2>1, <2>2, <2>3 DEF Tally, WritePlace, Loaded
    <2>5. QED
      BY <2>3, <2>4 DEF Kept
  <1>3. CASE Put(t)
    <2>1. /\ textbuffer' = [textbuffer EXCEPT ![textwriteptr] = msg[t]]
          /\ accepted' = Append(accepted, msg[t])
          /\ UNCHANGED <<textlines, textreadptr, textwriteptr, tmp, shown>>
          /\ pc[t] = "put" /\ pc' = [pc EXCEPT ![t] = "load"] /\ textlines # MaxMsg
      BY <1>0, <1>3 DEF Put, Loaded
    <2>2. \A u \in Threads \ {t} : pc[u] \in {"idle", "wait"}
      BY <1>0, <2>1 DEF Alone, AtRing
    <2>3. /\ Shift = 0 /\ Shift' = 0 /\ Uncounted = 0 /\ Uncounted' = 1
          /\ Overcounted = 0 /\ Overcounted' = 0 /\ Behind = 0 /\ Behind' = 1
      BY <1>0, <2>1, <2>2 DEF Shift, Uncounted, Overcounted, Behind
    <2>4. textlines = Backlog /\ Backlog < MaxMsg
      BY <1>0, <2>1, <2>3 DEF Tally, Fits
    <2>5. textwriteptr = Place(Backlog + 1)
      BY <1>0, <2>3 DEF WritePlace, Place
    <2>6. /\ Len(accepted') = Len(accepted) + 1
          /\ \A k \in 1 .. Len(accepted) : accepted'[k] = accepted[k]
          /\ accepted'[Len(accepted) + 1] = msg[t]
          /\ Len(accepted) \in Nat /\ Len(shown) \in Nat
      <3>1. accepted \in Seq(1 .. Prints) /\ shown \in Seq(1 .. Prints)
        BY DEF TypeOK
      <3>2. QED
        BY <2>1, <3>1
    <2>7. Backlog' = Backlog + 1
      BY <2>1, <2>6 DEF Backlog
    <2>8. Prefix' /\ Fits'
      BY <1>0, <2>1, <2>3, <2>4, <2>6, <2>7 DEF Prefix, Fits
    <2>9. ASSUME NEW k \in 1 .. Backlog'
          PROVE  textbuffer'[Place(k)'] = accepted'[Len(shown') + k]
      <3>1. Place(k)' = Place(k)
        BY <2>1, <2>3 DEF Place
      <3>2. CASE k <= Backlog
        <4>1. Place(k) # textwriteptr /\ Place(k) \in Slots
          <5>1. textreadptr \in 0 .. MaxMsg - 1
            BY DEF TypeOK
          <5>2. \A j \in {k, Backlog + 1} :
                    Place(j) = IF textreadptr + j - 1 < MaxMsg THEN textreadptr + j - 1
                               ELSE textreadptr + j - 1 - MaxMsg
            BY <1>0, <2>3, <2>4, <3>2, <5>1, Places
          <5>3. QED
            BY <1>0, <2>4, <2>5, <3>2, <5>1, <5>2
        <4>2. textbuffer'[Place(k)] = textbuffer[Place(k)]
          BY <2>1, <4>1 DEF TypeOK
        <4>3. Len(shown) + k \in 1 .. Len(accepted)
          BY <2>6, <3>2 DEF Backlog
        <4>4. QED
          BY <1>0, <2>1, <2>6, <3>1, <3>2, <4>2, <4>3 DEF Content
      <3>3. CASE k = Backlog + 1
        <4>1. Len(shown) + k = Len(accepted) + 1
          BY <2>6, <3>3 DEF Backlog
        <4>2. QED
          BY <2>1, <2>5, <2>6, <3>1, <3>3, <4>1 DEF TypeOK
      <3>4. QED
        BY <1>0, <2>7, <3>2, <3>3
    <2>10. Tally' /\ WritePlace' /\ Loaded'
      <3>1. Tally'
        BY <1>0, <2>1, <2>3, <2>4, <2>7 DEF Tally
      <3>2. WritePlace'
        <4>1. textwriteptr = (textreadptr + Shift + Backlog - Behind) % MaxMsg
          BY <1>0 DEF WritePlace
        <4>2. textreadptr' + Shift' + Backlog' - Behind' = textreadptr + Shift + Backlog - Behind
          BY <1>0, <2>1, <2>3, <2>7 DEF TypeOK
        <4>3. QED
          BY <2>1, <4>1, <4>2 DEF WritePlace
      <3>3. Loaded'
        BY <1>0, <2>1, <2>2 DEF Loaded
      <3>4. QED
        BY <3>1, <3>2, <3>3
    <2>11. QED
      BY <2>8, <2>9, <2>10 DEF Kept, Content
  <1>4. CASE LoadWritePtr(t) \/ LoadLines(t)
    <2>1. /\ UNCHANGED <<textlines, textreadptr, textwriteptr, textbuffer, shown, accepted>>
          /\ tmp \in [Threads -> Nat]
          /\ \/ /\ pc[t] = "load" /\ pc' = [pc EXCEPT ![t] = "store"]
                /\ tmp' = [tmp EXCEPT ![t] = textwriteptr]
             \/ /\ pc[t] = "lines" /\ pc' = [pc EXCEPT ![t] = "count"]
                /\ tmp' = [tmp EXCEPT ![t] = textlines]
      BY <1>4 DEF LoadWritePtr, LoadLines, TypeOK
    <2>2. Shift' = Shift /\ Uncounted' = Uncounted /\ Overcounted' = Overcounted /\ Behind' = Behind
      BY <1>0, <2>1 DEF Shift, Uncounted, Overcounted, Behind
    <2>3. Prefix' /\ Fits' /\ Content' /\ Backlog' = Backlog
      BY <1>0, <2>1, <2>2, Undisturbed
    <2>4. Tally' /\ WritePlace' /\ Loaded'
      BY <1>0, <2>1, <2>2, <2>3 DEF Tally, WritePlace, Loaded
    <2>5. QED
      BY <2>3, <2>4 DEF Kept
  <1>5. CASE StoreWritePtr(t)
    <2>1. /\ UNCHANGED <<textlines, textreadptr, textbuffer, tmp, shown, accepted>>
          /\ pc[t] = "store" /\ pc' = [pc EXCEPT ![t] = "lines"]
          /\ textwriteptr' = (textwriteptr + 1) % MaxMsg
      BY <1>0, <1>5 DEF StoreWritePtr, Loaded
    <2>2. \A u \in Threads \ {t} : pc[u] \in {"idle", "wait"}
      BY <1>0, <2>1 DEF Alone, AtRing
    <2>3. /\ Shift = 0 /\ Shift' = 0 /\ Uncounted = 1 /\ Uncounted' = 1
          /\ Overcounted = 0 /\ Overcounted' = 0 /\ Behind = 1 /\ Behind' = 0
      BY <1>0, <2>1, <2>2 DEF Shift, Uncounted, Overcounted, Behind
    <2>4. Prefix' /\ Fits' /\ Content' /\ Backlog' = Backlog
      BY <1>0, <2>1, <2>3, Undisturbed
    <2>5. textwriteptr' = (textreadptr + Backlog) % MaxMsg
      <3>1. textwriteptr = (textreadptr + Backlog - 1) % MaxMsg /\ Backlog \in 1 .. MaxMsg
        <4>1. textwriteptr = (textreadptr + 0 + Backlog - 1) % MaxMsg
          BY <1>0, <2>3 DEF WritePlace
        <4>2. textreadptr + 0 + Backlog - 1 = textreadptr + Backlog - 1
          BY <1>0 DEF TypeOK
        <4>3. Backlog \in 1 .. MaxMsg
          BY <1>0, <2>3 DEF Tally, Fits
        <4>4. QED
          BY <4>1, <4>2, <4>3
      <3>2. textreadptr + Backlog - 1 \in 0 .. 2 * MaxMsg - 1 /\ textreadptr + Backlog \in 0 .. 2 * MaxMsg - 1
        BY <1>0, <3>1 DEF TypeOK
      <3>3. textwriteptr \in 0 .. MaxMsg - 1 /\ textreadptr \in 0 .. MaxMsg - 1
        BY DEF TypeOK
      <3>4. textwriteptr + 1 \in 0 .. 2 * MaxMsg - 1
        BY <1>0, <3>3
      <3>5. QED
        BY <1>0, <2>1, <3>1, <3>2, <3>3, <3>4, Around
    <2>6. Tally' /\ WritePlace' /\ Loaded'
      <3>1. Tally'
        BY <1>0, <2>1, <2>3, <2>4 DEF Tally
      <3>2. WritePlace'
        <4>1. textreadptr' + Shift' + Backlog' - Behind' = textreadptr + Backlog
          BY <1>0, <2>1, <2>3, <2>4 DEF TypeOK
        <4>2. QED
          BY <2>5, <4>1 DEF WritePlace
      <3>3. Loaded'
        BY <1>0, <2>1, <2>2 DEF Loaded
      <3>4. QED
        BY <3>1, <3>2, <3>3
    <2>7. QED
      BY <2>4, <2>6 DEF Kept
  <1>6. CASE StoreLines(t)
    <2>1. /\ UNCHANGED <<textwriteptr, textreadptr, textbuffer, tmp, shown, accepted>>
          /\ pc[t] = "count" /\ pc' = [pc EXCEPT ![t] = "idle"]
          /\ textlines' = textlines + 1
      BY <1>0, <1>6 DEF StoreLines, Loaded
    <2>2. \A u \in Threads \ {t} : pc[u] \in {"idle", "wait"}
      BY <1>0, <2>1 DEF Alone, AtRing
    <2>3. /\ Shift = 0 /\ Shift' = 0 /\ Uncounted = 1 /\ Uncounted' = 0
          /\ Overcounted = 0 /\ Overcounted' = 0 /\ Behind = 0 /\ Behind' = 0
      BY <1>0, <2>1, <2>2 DEF Shift, Uncounted, Overcounted, Behind
    <2>4. Prefix' /\ Fits' /\ Content' /\ Backlog' = Backlog
      BY <1>0, <2>1, <2>3, Undisturbed
    <2>5. Tally' /\ WritePlace' /\ Loaded'
      BY <1>0, <2>1, <2>2, <2>3, <2>4 DEF Tally, WritePlace, Loaded
    <2>6. QED
      BY <2>4, <2>5 DEF Kept
  <1>7. QED
    BY <1>1, <1>2, <1>3, <1>4, <1>5, <1>6 DEF OutPrint

\* The callback.
LEMMA UpdateKeepsFifo ==
    ASSUME TypeOK, Quiet, Kept, Tick \/ GUIUpdate, Alone'
    PROVE  Kept'
  <1> USE DEF Step, From, Goto, Threads, Slots
  <1>0. /\ Prefix /\ Fits /\ Content /\ Tally /\ WritePlace /\ Loaded /\ Alone
        /\ Backlog \in Nat /\ textlines \in Nat /\ textreadptr \in 0 .. MaxMsg - 1
        /\ pc = [u \in Threads |-> pc[u]] /\ MaxMsg \in Nat \ {0}
    <2>1. Prefix /\ Fits /\ Content /\ Tally /\ WritePlace /\ Loaded /\ Alone
      BY DEF Kept
    <2>2. Backlog \in Nat
      BY <2>1, Places
    <2>3. /\ pc = [u \in Threads |-> pc[u]] /\ textlines \in Nat
          /\ textreadptr \in 0 .. MaxMsg - 1
      BY DEF TypeOK
    <2>4. QED
      BY <2>1, <2>2, <2>3, LogAssumption
  <1>1. CASE Tick \/ While \/ LoadCount \/ ResetLines \/ ResetOverflow
    <2>1. /\ UNCHANGED <<textlines, textreadptr, textwriteptr, textbuffer, shown, accepted>>
          /\ tmp \in [Threads -> Nat]
          /\ \/ /\ \/ pc["gui"] = "idle" /\ pc'["gui"] \in {"idle", "while"}
                   \/ pc["gui"] = "while" /\ pc'["gui"] = "reset" /\ textlines = 0
                   \/ pc["gui"] = "while" /\ pc'["gui"] = "show" /\ textlines # 0
                   \/ pc["gui"] = "reset" /\ pc'["gui"] = "fine"
                   \/ pc["gui"] = "fine" /\ pc'["gui"] = "idle"
                /\ UNCHANGED tmp
             \/ /\ pc["gui"] = "uncount" /\ pc'["gui"] = "less"
                /\ tmp' = [tmp EXCEPT !["gui"] = textlines]
          /\ pc' = [pc EXCEPT !["gui"] = pc'["gui"]]
      <3>1. tmp \in [Threads -> Nat] /\ (pc["gui"] = "reset" => textlines = 0)
        BY <1>0 DEF TypeOK, Loaded
      <3>2. CASE Tick
        BY <1>0, <3>1, <3>2 DEF Tick
      <3>3. CASE While
        BY <1>0, <3>1, <3>3 DEF While, ring
      <3>4. CASE LoadCount
        BY <1>0, <3>1, <3>4 DEF LoadCount, ring
      <3>5. CASE ResetLines \/ ResetOverflow
        BY <1>0, <3>1, <3>5 DEF ResetLines, ResetOverflow
      <3>6. QED
        BY <1>1, <3>2, <3>3, <3>4, <3>5
    <2>2. Shift' = Shift /\ Uncounted' = Uncounted /\ Overcounted' = Overcounted /\ Behind' = Behind
      BY <1>0, <2>1 DEF Shift, Uncounted, Overcounted, Behind
    <2>3. Prefix' /\ Fits' /\ Content' /\ Backlog' = Backlog
      BY <1>0, <2>1, <2>2, Undisturbed
    <2>4. Tally' /\ WritePlace'
      BY <1>0, <2>1, <2>2, <2>3 DEF Tally, WritePlace
    <2>5. Loaded'
      BY <1>0, <2>1 DEF Loaded
    <2>6. QED
      BY <2>3, <2>4, <2>5 DEF Kept
  <1>2. CASE StoreCount
    <2>1. /\ UNCHANGED <<textreadptr, textwriteptr, textbuffer, tmp, shown, accepted>>
          /\ pc["gui"] = "less" /\ pc' = [pc EXCEPT !["gui"] = "while"]
          /\ textlines' = textlines - 1
      BY <1>0, <1>2 DEF StoreCount, Loaded
    <2>2. pc["task"] \in {"idle", "wait"}
      BY <1>0, <2>1 DEF Alone, AtRing
    <2>3. /\ Shift = 0 /\ Shift' = 0 /\ Uncounted = 0 /\ Uncounted' = 0
          /\ Overcounted = 1 /\ Overcounted' = 0 /\ Behind = 0 /\ Behind' = 0
      BY <1>0, <2>1, <2>2 DEF Shift, Uncounted, Overcounted, Behind
    <2>4. Prefix' /\ Fits' /\ Content' /\ Backlog' = Backlog
      BY <1>0, <2>1, <2>3, Undisturbed
    <2>5. Tally' /\ WritePlace' /\ Loaded'
      BY <1>0, <2>1, <2>2, <2>3, <2>4 DEF Tally, WritePlace, Loaded
    <2>6. QED
      BY <2>4, <2>5 DEF Kept
  <1>3. CASE Show \/ NotInSync
    <2>1. pc["gui"] = "show" /\ textlines # 0
      BY <1>0, <1>3 DEF Show, NotInSync, Loaded
    <2>2. pc["task"] \in {"idle", "wait"}
      BY <1>0, <2>1 DEF Alone, AtRing
    <2>3. Shift = 0 /\ Uncounted = 0 /\ Overcounted = 0 /\ Behind = 0
      BY <1>0, <2>1, <2>2 DEF Shift, Uncounted, Overcounted, Behind
    <2>4. Backlog = textlines /\ Backlog \in 1 .. MaxMsg
      BY <1>0, <2>1, <2>3 DEF Tally, Fits
    <2>5. Place(1) = textreadptr
      BY <1>0, <2>3, <2>4, Places
    <2>6. /\ Len(shown) \in Nat /\ Len(accepted) \in Nat
          /\ Len(shown) + 1 \in 1 .. Len(accepted)
      BY <1>0, <2>4, Places DEF Backlog
    <2>7. textbuffer[textreadptr] = accepted[Len(shown) + 1]
      BY <1>0, <2>4, <2>5 DEF Content
    <2>8. accepted[Len(shown) + 1] \in 1 .. Prints
      <3>1. accepted \in Seq(1 .. Prints)
        BY DEF TypeOK
      <3>2. QED
        BY <2>6, <3>1, ElementOfSeq
    <2>9. /\ shown' = Append(shown, accepted[Len(shown) + 1])
          /\ pc' = [pc EXCEPT !["gui"] = "free"]
          /\ UNCHANGED <<ring, tmp, accepted>>
      BY <1>3, <2>7, <2>8 DEF Show, NotInSync, Empty
    <2>10. /\ Len(shown') = Len(shown) + 1
           /\ \A k \in 1 .. Len(shown) : shown'[k] = shown[k]
           /\ shown'[Len(shown) + 1] = accepted[Len(shown) + 1]
      <3>1. shown \in Seq(1 .. Prints)
        BY DEF TypeOK
      <3>2. QED
        BY <2>9, <3>1
    <2>11. Prefix'
      BY <1>0, <2>6, <2>9, <2>10 DEF Prefix
    <2>12. Backlog' = Backlog - 1
      BY <2>6, <2>9, <2>10 DEF Backlog
    <2>13. /\ Shift' = 1 /\ Uncounted' = 0 /\ Overcounted' = 1 /\ Behind' = 0
      BY <1>0, <2>2, <2>9 DEF Shift, Uncounted, Overcounted, Behind
    <2>14. Fits' /\ Tally'
      BY <1>0, <2>3, <2>4, <2>9, <2>12, <2>13 DEF Fits, Tally, ring
    <2>15. WritePlace'
      <3>1. textreadptr' + Shift' + Backlog' - Behind' = textreadptr + Shift + Backlog - Behind
        BY <1>0, <2>3, <2>9, <2>12, <2>13 DEF ring
      <3>2. QED
        BY <1>0, <2>9, <3>1 DEF WritePlace, ring
    <2>16. ASSUME NEW k \in 1 .. Backlog'
           PROVE  textbuffer'[Place(k)'] = accepted'[Len(shown') + k]
      <3>1. k + 1 \in 1 .. Backlog /\ k \in Nat
        BY <2>4, <2>12
      <3>2. textreadptr' + Shift' + k - 1 = textreadptr + Shift + (k + 1) - 1
        BY <1>0, <2>3, <2>9, <2>13, <3>1 DEF ring
      <3>3. Place(k)' = Place(k + 1)
        BY <2>9, <3>2 DEF Place
      <3>4. textbuffer[Place(k + 1)] = accepted[Len(shown) + (k + 1)]
        BY <1>0, <3>1 DEF Content
      <3>5. Len(shown') + k = Len(shown) + (k + 1)
        BY <2>6, <2>10, <3>1
      <3>6. QED
        BY <2>9, <3>3, <3>4, <3>5 DEF ring
    <2>17. Loaded'
      BY <1>0, <2>2, <2>9 DEF Loaded, ring
    <2>18. QED
      BY <1>0, <2>9, <2>11, <2>14, <2>15, <2>16, <2>17 DEF Kept, Content
  <1>4. CASE Free
    <2>1. /\ textbuffer' = [textbuffer EXCEPT ![textreadptr] = Empty]
          /\ textreadptr' = (textreadptr + 1) % MaxMsg
          /\ UNCHANGED <<textlines, textwriteptr, tmp, shown, accepted>>
          /\ pc["gui"] = "free" /\ pc' = [pc EXCEPT !["gui"] = "uncount"]
      BY <1>4 DEF Free
    <2>2. pc["task"] \in {"idle", "wait"}
      BY <1>0, <2>1 DEF Alone, AtRing
    <2>3. /\ Shift = 1 /\ Shift' = 0 /\ Uncounted = 0 /\ Uncounted' = 0
          /\ Overcounted = 1 /\ Overcounted' = 1 /\ Behind = 0 /\ Behind' = 0
      BY <1>0, <2>1, <2>2 DEF Shift, Uncounted, Overcounted, Behind
    <2>4. Backlog' = Backlog /\ Backlog + 1 <= MaxMsg
      BY <1>0, <2>1, <2>3 DEF Backlog, Fits
    <2>5. Prefix' /\ Fits' /\ Tally' /\ Loaded'
      BY <1>0, <2>1, <2>2, <2>3, <2>4 DEF Prefix, Fits, Tally, Loaded
    <2>6. ASSUME NEW d \in 0 .. Backlog
          PROVE  (textreadptr' + d) % MaxMsg = (textreadptr + 1 + d) % MaxMsg
      <3>1. textreadptr + 1 \in 0 .. 2 * MaxMsg - 1 /\ textreadptr + 1 + d \in 0 .. 2 * MaxMsg - 1
        BY <1>0, <2>4
      <3>2. textreadptr' = IF textreadptr + 1 < MaxMsg THEN textreadptr + 1 ELSE 0
        BY <1>0, <2>1, <3>1, Around
      <3>3. textreadptr' + d \in 0 .. 2 * MaxMsg - 1
        BY <1>0, <2>4, <3>2
      <3>4. CASE textreadptr + 1 < MaxMsg
        BY <3>2, <3>4
      <3>5. CASE textreadptr + 1 = MaxMsg
        <4>1. textreadptr' + d = d /\ d < MaxMsg
          BY <1>0, <2>4, <3>2, <3>5
        <4>2. (textreadptr' + d) % MaxMsg = d
          BY <1>0, <3>3, <4>1, Around
        <4>3. (textreadptr + 1 + d) % MaxMsg = textreadptr + 1 + d - MaxMsg
          BY <1>0, <3>1, <3>5, Around
        <4>4. QED
          BY <1>0, <3>5, <4>2, <4>3
      <3>6. QED
        BY <1>0, <3>4, <3>5
    <2>7. WritePlace'
      <3>1. /\ textreadptr' + Shift' + Backlog' - Behind' = textreadptr' + Backlog
            /\ textreadptr + Shift + Backlog - Behind = textreadptr + 1 + Backlog
        <4>1. textreadptr' \in Nat
          BY <1>0, <2>1, NextSlot
        <4>2. QED
          BY <1>0, <2>3, <2>4, <4>1
      <3>2. (textreadptr' + Backlog) % MaxMsg = (textreadptr + 1 + Backlog) % MaxMsg
        BY <1>0, <2>6
      <3>3. QED
        BY <1>0, <2>1, <3>1, <3>2 DEF WritePlace
    <2>8. ASSUME NEW k \in 1 .. Backlog'
          PROVE  textbuffer'[Place(k)'] = accepted'[Len(shown') + k]
      <3>1. k \in 1 .. Backlog /\ k - 1 \in 0 .. Backlog
        BY <1>0, <2>4
      <3>2. Place(k)' = Place(k)
        <4>1. /\ textreadptr' + Shift' + k - 1 = textreadptr' + (k - 1)
              /\ textreadptr + Shift + k - 1 = textreadptr + 1 + (k - 1)
          <5>1. textreadptr' \in Nat
            BY <1>0, <2>1, NextSlot
          <5>2. QED
            BY <1>0, <2>3, <3>1, <5>1
        <4>2. Place(k)' = (textreadptr' + (k - 1)) % MaxMsg
          BY <4>1 DEF Place
        <4>3. Place(k) = (textreadptr + 1 + (k - 1)) % MaxMsg
          BY <4>1 DEF Place
        <4>4. QED
          BY <2>6, <3>1, <4>2, <4>3
      <3>3. Place(k) \in Slots \ {textreadptr}
        <4>1. Place(k) = IF textreadptr + k < MaxMsg THEN textreadptr + k
                         ELSE textreadptr + k - MaxMsg
          BY <1>0, <2>3, <3>1, Places, SMTT(60)
        <4>2. QED
          BY <1>0, <2>4, <3>1, <4>1
      <3>4. textbuffer'[Place(k)] = textbuffer[Place(k)]
        BY <2>1, <3>3 DEF TypeOK
      <3>5. QED
        BY <1>0, <2>1, <3>1, <3>2, <3>4 DEF Content
    <2>9. QED
      BY <1>0, <2>1, <2>5, <2>7, <2>8 DEF Kept, Content, Alone
  <1>5. QED
    BY <1>1, <1>2, <1>3, <1>4 DEF GUIUpdate

\* With nobody at the ring, it holds what was accepted and not shown.
LEMMA FifoAtRest ==
    ASSUME TypeOK, Fifo
    PROVE  IsFifo
  <1> SUFFICES ASSUME ~raced, \A t \in Threads : ~AtRing(t, pc)
               PROVE  accepted = shown \o Pending
    BY DEF IsFifo
  <1>1. Prefix /\ Fits /\ Content /\ Tally
    BY DEF Fifo, Kept
  <1>2. \A t \in Threads : pc[t] \in {"idle", "wait"}
    BY DEF AtRing
  <1>3. Shift = 0 /\ Uncounted = 0 /\ Overcounted = 0
    BY <1>2 DEF Shift, Uncounted, Overcounted, From, Threads
  <1>4. Len(shown) \in Nat /\ Len(accepted) \in Nat /\ textlines \in Nat
    BY DEF TypeOK
  <1>5. textlines = Backlog /\ Len(accepted) = Len(shown) + textlines
    BY <1>1, <1>3, <1>4 DEF Tally, Backlog, Prefix
  <1>6. \A k \in 1 .. textlines : Pending[k] = accepted[Len(shown) + k]
    <2>1. ASSUME NEW k \in 1 .. textlines
          PROVE  Pending[k] = accepted[Len(shown) + k]
      <3>1. textreadptr + Shift + k - 1 = textreadptr + k - 1
        BY <1>3, <1>4 DEF TypeOK, Slots
      <3>2. Pending[k] = textbuffer[Place(k)]
        BY <3>1 DEF Pending, Place
      <3>3. QED
        BY <1>1, <1>5, <3>2 DEF Content
    <2>2. QED
      BY <2>1
  <1>7. /\ accepted \in Seq(1 .. Prints) /\ shown \in Seq(1 .. Prints)
    BY DEF TypeOK
  <1>8. Pending \in Seq(1 .. Prints) /\ Len(Pending) = textlines
    <2>1. ASSUME NEW k \in 1 .. textlines
          PROVE  Pending[k] \in 1 .. Prints
      <3>1. Len(shown) + k \in 1 .. Len(accepted)
        BY <1>4, <1>5
      <3>2. QED
        BY <1>6, <1>7, <3>1, ElementOfSeq
    <2>2. Pending = [k \in 1 .. textlines |-> Pending[k]]
      BY DEF Pending
    <2>3. Pending \in [1 .. textlines -> 1 .. Prints]
      BY <2>1, <2>2
    <2>4. Pending \in Seq(1 .. Prints) /\ DOMAIN Pending = 1 .. textlines
      BY <1>4, <2>3, SeqDef
    <2>5. QED
      BY <1>4, <2>4, LenProperties
  <1>9. /\ Len(shown \o Pending) = Len(accepted) /\ shown \o Pending \in Seq(1 .. Prints)
        /\ \A k \in 1 .. Len(accepted) : (shown \o Pending)[k] =
              IF k <= Len(shown) THEN shown[k] ELSE Pending[k - Len(shown)]
    <2>1. /\ shown \o Pending \in Seq(1 .. Prints)
          /\ Len(shown \o Pending) = Len(shown) + Len(Pending)
          /\ \A k \in 1 .. Len(shown) + Len(Pending) : (shown \o Pending)[k] =
                IF k <= Len(shown) THEN shown[k] ELSE Pending[k - Len(shown)]
      BY <1>7, <1>8, ConcatProperties
    <2>2. QED
      BY <1>5, <1>8, <2>1
  <1>10. ASSUME NEW k \in 1 .. Len(accepted)
         PROVE  (shown \o Pending)[k] = accepted[k]
    <2>1. CASE k <= Len(shown)
      BY <1>1, <1>4, <1>9, <2>1 DEF Prefix
    <2>2. CASE k > Len(shown)
      <3>1. k - Len(shown) \in 1 .. textlines /\ Len(shown) + (k - Len(shown)) = k
        BY <1>4, <1>5, <2>2
      <3>2. (shown \o Pending)[k] = Pending[k - Len(shown)]
        BY <1>4, <1>9, <2>2
      <3>3. PICK j \in 1 .. textlines : j = k - Len(shown) /\ Len(shown) + j = k
        BY <3>1
      <3>4. Pending[j] = accepted[Len(shown) + j]
        BY <1>6
      <3>5. Pending[k - Len(shown)] = Pending[j] /\ accepted[Len(shown) + j] = accepted[k]
        BY <3>3, Zenon
      <3>6. QED
        BY <3>2, <3>4, <3>5, Zenon
    <2>3. k <= Len(shown) \/ k > Len(shown)
      BY <1>4
    <2>4. QED
      BY <2>1, <2>2, <2>3, Zenon
  <1>11. QED
    BY <1>7, <1>9, <1>10, SeqEqual

(***************************************************************************)
(* For rings of every size: as long as the threads never met at the ring,  *)
(* it holds, whenever nobody is at it, just the lines outPrint accepted    *)
(* and GUIUpdate has not shown, in their order, and textlines counts them. *)
(***************************************************************************)
THEOREM LogInOrder == Spec => []LogInv
  <1>1. Init => Fifo
    <2> SUFFICES ASSUME Init PROVE Fifo
      OBVIOUS
    <2> USE LogAssumption DEF Init, From, Threads
    <2>1. Backlog = 0 /\ Shift = 0 /\ Uncounted = 0 /\ Overcounted = 0 /\ Behind = 0
      BY DEF Backlog, Shift, Uncounted, Overcounted, Behind
    <2>2. Alone /\ Loaded /\ Quiet
      BY DEF Alone, AtRing, Loaded, Quiet
    <2>3. Prefix /\ Fits /\ Content /\ Tally
      BY <2>1 DEF Prefix, Fits, Content, Tally
    <2>4. WritePlace
      <3>1. textreadptr + Shift + Backlog - Behind = 0
        BY <2>1
      <3>2. 0 % MaxMsg = 0
        OBVIOUS
      <3>3. QED
        BY <3>1, <3>2 DEF WritePlace
    <2>5. QED
      BY <2>2, <2>3, <2>4 DEF Fifo, Kept
  <1>2. TypeOK /\ Once /\ Fifo /\ [Next]_vars => Fifo'
    <2> SUFFICES ASSUME TypeOK, Once, Fifo, [Next]_vars
                 PROVE  Fifo'
      OBVIOUS
    <2>1. CASE UNCHANGED vars
      BY <2>1 DEF vars, ring, threads, Fifo, Quiet, Kept, Alone, AtRing, Prefix, Fits, Content,
                  Tally, WritePlace, Loaded, Backlog, Shift, Place, Uncounted, Overcounted,
                  Behind, From
    <2>2. CASE Next
      <3>1. Raced /\ ((\E t \in Threads : OutPrint(t)) \/ Tick \/ GUIUpdate)
        BY <2>2 DEF Next
      <3>2. Quiet'
        <4>1. ASSUME NEW t \in Threads, OutPrint(t)
              PROVE  Quiet'
          BY <4>1 DEF Fifo, Quiet, OutPrint, PrintDirectly, PrintLater, Check, Wait, CheckAgain,
                      Drop, Put, LoadWritePtr, StoreWritePtr, LoadLines, StoreLines, Step, From,
                      Goto, ring, threads
        <4>2. CASE Tick
          BY <4>2 DEF Tick, Quiet
        <4>3. CASE GUIUpdate
          BY <4>3 DEF Fifo, Quiet, GUIUpdate, While, Show, NotInSync, Free, LoadCount, StoreCount,
                      ResetLines, ResetOverflow, Step, From, Threads, ring
        <4>4. QED
          BY <3>1, <4>1, <4>2, <4>3
      <3>3. ASSUME ~raced'
            PROVE  Kept'
        <4>1. ~raced /\ Alone'
          BY <3>1, <3>3 DEF Raced, Alone
        <4>2. Quiet /\ Kept /\ Numbered
          BY <4>1 DEF Fifo, Once
        <4>3. QED
          BY <3>1, <4>1, <4>2, PrintKeepsFifo, UpdateKeepsFifo
      <3>4. QED
        BY <3>2, <3>3 DEF Fifo
    <2>3. QED
      BY <2>1, <2>2
  <1>3. TypeOK /\ Fifo => LogInv
    BY FifoAtRest DEF LogInv
  <1>4. QED
    BY <1>1, <1>2, <1>3, OnceInvariant, PTL DEF Spec
=============================================================================
