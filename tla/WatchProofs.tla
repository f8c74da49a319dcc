---------------------------- MODULE WatchProofs ----------------------------
(***************************************************************************)
(* What the heartbeat watch keeps for any number of sessions, any          *)
(* allowance and any number of beats, faults and restarts.                 *)
(*                                                                         *)
(* The receipts follow one another because the row of a session and the    *)
(* receipts written with it say the same at every moment, and because the  *)
(* writes a handler has still to make were decided from rows that nothing  *)
(* but those writes changes: the invariant says of each of them what it    *)
(* will find when its turn comes.                                          *)
(***************************************************************************)
EXTENDS ConnectionWatch, Prefixes, FiniteSetTheorems, TLAPS

-----------------------------------------------------------------------------
(* The inductive invariant. *)

\* The state a write finds: the one the write before it leaves, if that is of the
\* same session, else the row's.
Found(i) ==
    IF i > 1 /\ todo[i - 1].session = todo[i].session
    THEN todo[i - 1].row.state
    ELSE conn[todo[i].session].state

\* A write changes the state in a way that may be, or leaves it.
Fits(before, w) ==
    IF w.name \in StateNames
    THEN May(before, w.name) /\ w.row.state = StateOf(w.name)
    ELSE w.row.state = before

WritesFit == \A i \in 1..Len(todo) : Fits(Found(i), todo[i])

\* The writes of one session come one right after the other.
InGroups ==
    \A i, j \in 1..Len(todo) :
        i < j /\ todo[i].session = todo[j].session => todo[j - 1].session = todo[j].session

RowsTell == \A s \in Sessions : conn[s].state = StateAfter(ChangesOf(s))

\* A loss is decided with other losses only, and its reasons stay.
LossesStand ==
    \A i \in 1..Len(todo) :
        todo[i].name = "lost" =>
            /\ age[todo[i].session] > LOST_AFTER /\ upFor > LOST_AFTER
            /\ \A k \in 1..Len(todo) : todo[k].name = "lost" /\ ~todo[k].beat

AheadIsBare == ahead # Nothing => ~ahead.kept

\* A process that is not up has nothing left to write.
DownIsIdle == ~up => todo = <<>>

IInv ==
    TypeOK /\ WritesFit /\ InGroups /\ RowsTell /\ LossesStand /\ AheadIsBare /\ OneReceiptPerChange

-----------------------------------------------------------------------------
(* What a handler decides. *)

\* A handler's writes for session s, found in state `first` and left in `last`:
\* none of them a loss, each fitting the one before it.
Good(ws, s, first, last) ==
    /\ ws \in Seq(Changes)
    /\ last = IF ws = <<>> THEN first ELSE ws[Len(ws)].row.state
    /\ \A i \in 1..Len(ws) :
        /\ ws[i].session = s /\ ws[i].name # "lost"
        /\ Fits(IF i = 1 THEN first ELSE ws[i - 1].row.state, ws[i])

LEMMA GoodNone ==
    ASSUME NEW s, NEW first
    PROVE  Good(<<>>, s, first, first)
<1>1. <<>> \in Seq(Changes) /\ Len(<<>>) = 0
    BY EmptySeq
<1>2. QED
    BY <1>1 DEF Good

(* One more write that fits what those before it leave. *)
LEMMA GoodMore ==
    ASSUME NEW ws, NEW s, NEW first, NEW last, Good(ws, s, first, last),
           NEW w \in Changes, w.session = s, w.name # "lost", Fits(last, w)
    PROVE  Good(Append(ws, w), s, first, w.row.state)
<1> DEFINE n == Len(ws)
           more == Append(ws, w)
<1>1. /\ ws \in Seq(Changes) /\ n \in Nat
      /\ more \in Seq(Changes) /\ Len(more) = n + 1 /\ more # <<>>
      /\ \A i \in 1..n : more[i] = ws[i]
      /\ more[n + 1] = w
    BY AppendProperties DEF Good
<1>2. last = IF n = 0 THEN first ELSE ws[n].row.state
    BY <1>1, EmptySeq DEF Good
<1> HIDE DEF more
<1>3. ASSUME NEW i \in 1..Len(more)
      PROVE  /\ more[i].session = s /\ more[i].name # "lost"
             /\ Fits(IF i = 1 THEN first ELSE more[i - 1].row.state, more[i])
    <2>1. CASE i \in 1..n
        <3>1. i # 1 => i - 1 \in 1..n
            BY <1>1, <2>1
        <3>2. QED
            BY <1>1, <2>1, <3>1 DEF Good
    <2>2. CASE i = n + 1
        <3>1. (IF i = 1 THEN first ELSE more[i - 1].row.state) = last
            <4>1. CASE n = 0
                BY <1>2, <2>2, <4>1
            <4>2. CASE n # 0
                <5>1. n \in 1..n /\ i # 1 /\ i - 1 = n
                    BY <1>1, <2>2, <4>2
                <5>2. QED
                    BY <1>1, <1>2, <4>2, <5>1
            <4>3. QED
                BY <4>1, <4>2
        <3>2. QED
            BY <1>1, <2>2, <3>1
    <2>3. QED
        BY <1>1, <2>1, <2>2
<1> HIDE DEF n
<1>4. more[Len(more)].row.state = w.row.state
    BY <1>1
<1>5. Good(more, s, first, w.row.state)
    BY <1>1, <1>3, <1>4 DEF Good
<1>6. QED
    BY <1>5 DEF more

(* The row a request makes of the one known. *)
LEMMA RowTyped ==
    ASSUME NEW m, m.session \in Sessions, m.hash \in Hashes,
           NEW known \in Row, NEW state \in {"open", "closed"}, NEW changed \in BOOLEAN
    PROVE  RowOf(m, known, state, changed) \in Row /\ RowOf(m, known, state, changed).state = state
    BY DEF RowOf, Row

LEMMA NeverSeenTyped == NeverSeen \in Row /\ NeverSeen.state = "unknown"
    BY DEF NeverSeen, Row

(* Names that tell no state leave it; what the others leave. *)
LEMMA FitsFacts ==
    ASSUME NEW w \in Changes
    PROVE  /\ w.name \in {"none", "gap", "power_off", "script_changed"} =>
                \A st : Fits(st, w) <=> w.row.state = st
           /\ w.name = "start" => (Fits("unknown", w) <=> w.row.state = "open")
           /\ w.name = "restored" => \A st \in {"lost", "closed"} : Fits(st, w) <=> w.row.state = "open"
           /\ w.name = "stop" => \A st \in {"unknown", "open", "lost"} : Fits(st, w) <=> w.row.state = "closed"
           /\ w.name \in {"ended", "lost"} => (Fits("open", w) <=> w.row.state = "lost")
    BY DEF Fits, May, StateOf, StateNames

LEMMA OpeningGood ==
    ASSUME NEW m, m.session \in Sessions, m.hash \in Hashes
    PROVE  Good(Opening(m), m.session, "unknown", "open")
<1> DEFINE s == m.session
           open(name) == Change(s, name, RowOf(m, NeverSeen, "open", FALSE), TRUE)
           off == IF RestartedComputer(m) THEN <<open("power_off")>> ELSE <<>>
           edit == IF ScriptDiffers(m) THEN <<open("script_changed")>> ELSE <<>>
<1>1. RowOf(m, NeverSeen, "open", FALSE) \in Row /\ RowOf(m, NeverSeen, "open", FALSE).state = "open"
    BY RowTyped, NeverSeenTyped
<1>2. \A name \in {"start", "power_off", "script_changed"} :
        /\ open(name) \in Changes /\ open(name).session = s /\ open(name).name = name
        /\ open(name).row.state = "open"
    <2>1. \A name \in {"start", "power_off", "script_changed"} : name \in Names \cup {"none"}
        BY DEF Names
    <2> DEFINE row == RowOf(m, NeverSeen, "open", FALSE)
    <2>2. row \in Row /\ row.state = "open"
        BY <1>1
    <2> HIDE DEF row
    <2>3. \A name \in {"start", "power_off", "script_changed"} :
            /\ Change(s, name, row, TRUE) \in Changes /\ Change(s, name, row, TRUE).session = s
            /\ Change(s, name, row, TRUE).name = name /\ Change(s, name, row, TRUE).row = row
        BY <2>1, <2>2 DEF Change, Changes
    <2>4. QED
        BY <2>2, <2>3 DEF row
<1>3. Opening(m) = (<<open("start")>> \o off) \o edit
    BY DEF Opening
<1> HIDE DEF open
<1>4. Good(Append(<<>>, open("start")), s, "unknown", "open")
    <2>1. open("start") \in Changes /\ open("start").name = "start" /\ open("start").row.state = "open"
          /\ open("start").session = s
        BY <1>2
    <2>2. Fits("unknown", open("start"))
        BY <2>1, FitsFacts
    <2>3. QED
        BY <2>1, <2>2, GoodNone, GoodMore
<1>5. ASSUME NEW ws, Good(ws, s, "unknown", "open"), NEW name \in {"power_off", "script_changed"}
      PROVE  Good(ws \o <<open(name)>>, s, "unknown", "open")
    <2>1. open(name) \in Changes /\ open(name).name = name /\ open(name).row.state = "open"
          /\ open(name).session = s
        BY <1>2
    <2>2. Fits("open", open(name))
        BY <2>1, FitsFacts
    <2>3. Good(Append(ws, open(name)), s, "unknown", "open")
        BY <1>5, <2>1, <2>2, GoodMore
    <2>4. Append(ws, open(name)) = ws \o <<open(name)>>
        BY <1>5, <2>1, AppendIsConcat DEF Good
    <2>5. QED
        BY <2>3, <2>4
<1>6. ASSUME NEW ws, Good(ws, s, "unknown", "open")
      PROVE  Good(ws \o <<>>, s, "unknown", "open")
    BY <1>6, ConcatEmptySeq DEF Good
<1>7. Append(<<>>, open("start")) = <<open("start")>>
    OBVIOUS
<1>8. Good(<<open("start")>>, s, "unknown", "open")
    BY <1>4, <1>7
<1>9. Good(<<open("start")>> \o off, s, "unknown", "open")
    BY <1>5, <1>6, <1>8
<1>10. Good((<<open("start")>> \o off) \o edit, s, "unknown", "open")
    <2> HIDE DEF off
    <2>1. QED
        BY <1>5, <1>6, <1>9
<1>11. QED
    BY <1>3, <1>10 DEF open

LEMMA GoingGood ==
    ASSUME NEW m, m.session \in Sessions, m.hash \in Hashes,
           NEW known \in Row, known.state # "unknown"
    PROVE  Good(Going(m, known), m.session, known.state, "open")
<1> DEFINE s == m.session
           change(name, changed) == Change(s, name, RowOf(m, known, "open", changed), TRUE)
           back == IF known.state # "open" THEN <<change("restored", known.changed)>> ELSE <<>>
<1>0. known.changed \in BOOLEAN /\ known.state \in {"open", "lost", "closed"}
    BY DEF Row
<1>1. ASSUME NEW name \in {"restored", "script_changed", "none"}, NEW changed \in BOOLEAN
      PROVE  /\ change(name, changed) \in Changes /\ change(name, changed).session = s
             /\ change(name, changed).name = name /\ change(name, changed).row.state = "open"
    <2> DEFINE row == RowOf(m, known, "open", changed)
    <2>1. row \in Row /\ row.state = "open"
        BY RowTyped
    <2>2. name \in Names \cup {"none"}
        BY DEF Names
    <2> HIDE DEF row
    <2>3. /\ Change(s, name, row, TRUE) \in Changes /\ Change(s, name, row, TRUE).session = s
          /\ Change(s, name, row, TRUE).name = name /\ Change(s, name, row, TRUE).row = row
        BY <2>1, <2>2 DEF Change, Changes
    <2>4. QED
        BY <2>1, <2>3 DEF row
<1>2. Going(m, known) =
        IF ScriptEdited(m, known) THEN Append(back, change("script_changed", TRUE))
        ELSE IF back # <<>> THEN back ELSE <<change("none", known.changed)>>
    BY DEF Going
<1> HIDE DEF change
<1>3. Good(back, s, known.state, "open")
    <2>1. CASE known.state = "open"
        BY <2>1, GoodNone
    <2>2. CASE known.state # "open"
        <3> DEFINE w == change("restored", known.changed)
        <3>1. w \in Changes /\ w.session = s /\ w.name = "restored" /\ w.row.state = "open"
            BY <1>0, <1>1
        <3> HIDE DEF w
        <3>2. Fits(known.state, w)
            BY <1>0, <2>2, <3>1, FitsFacts
        <3>3. Good(Append(<<>>, w), s, known.state, "open")
            BY <3>1, <3>2, GoodNone, GoodMore
        <3>4. Append(<<>>, w) = <<w>>
            OBVIOUS
        <3>5. QED
            BY <2>2, <3>3, <3>4 DEF w
    <2>3. QED
        BY <2>1, <2>2
<1>4. CASE ScriptEdited(m, known)
    <2> DEFINE w == change("script_changed", TRUE)
    <2>1. w \in Changes /\ w.session = s /\ w.name = "script_changed" /\ w.row.state = "open"
        BY <1>1
    <2> HIDE DEF w, back
    <2>2. Fits("open", w)
        BY <2>1, FitsFacts
    <2>3. Good(Append(back, w), s, known.state, "open")
        BY <1>3, <2>1, <2>2, GoodMore
    <2>4. QED
        BY <1>2, <1>4, <2>3 DEF w
<1>5. CASE ~ScriptEdited(m, known) /\ back # <<>>
    <2> HIDE DEF back
    <2>1. QED
        BY <1>2, <1>3, <1>5
<1>6. CASE ~ScriptEdited(m, known) /\ back = <<>>
    <2> DEFINE w == change("none", known.changed)
    <2>1. w \in Changes /\ w.session = s /\ w.name = "none" /\ w.row.state = "open"
        BY <1>0, <1>1
    <2>2. known.state = "open"
        <3>1. <<change("restored", known.changed)>> # <<>>
            OBVIOUS
        <3>2. QED
            BY <1>6, <3>1
    <2> HIDE DEF w
    <2>3. Fits("open", w)
        BY <2>1, FitsFacts
    <2>4. Good(Append(<<>>, w), s, "open", "open")
        BY <2>1, <2>3, GoodNone, GoodMore
    <2>5. Append(<<>>, w) = <<w>>
        OBVIOUS
    <2> HIDE DEF back
    <2>6. QED
        BY <1>2, <1>6, <2>2, <2>4, <2>5 DEF w
<1>7. QED
    BY <1>4, <1>5, <1>6

(* A handler that writes at most once: a stop, an end, a gap. *)
LEMMA OneGood ==
    ASSUME NEW s \in Sessions, NEW first, NEW row \in Row, NEW beat \in BOOLEAN,
           NEW name \in Names, name # "lost",
           Fits(first, Change(s, name, row, beat))
    PROVE  Good(<<Change(s, name, row, beat)>>, s, first, row.state)
<1> DEFINE w == Change(s, name, row, beat)
<1>1. w \in Changes /\ w.session = s /\ w.name = name /\ w.row = row
    BY DEF Change, Changes
<1> HIDE DEF w
<1>2. Good(Append(<<>>, w), s, first, row.state)
    BY <1>1, GoodNone, GoodMore DEF w
<1>3. Append(<<>>, w) = <<w>>
    OBVIOUS
<1>4. QED
    BY <1>2, <1>3 DEF w

(* Whatever a request writes follows from the row it finds (heartbeat, gap). *)
LEMMA WritesGood ==
    ASSUME TypeOK, NEW m \in net
    PROVE  \E last : Good(Writes(m, conn[m.session]), m.session, conn[m.session].state, last)
<1> DEFINE s == m.session
           known == conn[s]
<1>1. s \in Sessions /\ m.hash \in Hashes /\ known \in Row
    BY DEF TypeOK
<1>2. known.state \in {"unknown", "open", "lost", "closed"} /\ known.changed \in BOOLEAN
    BY <1>1 DEF Row
<1>3. CASE m.event = "gap" /\ MayGap(m, known)
    <2> DEFINE w == Change(s, "gap", known, FALSE)
    <2>1. w \in Changes /\ w.name = "gap" /\ w.row = known
        BY <1>1 DEF Change, Changes, Names
    <2>2. Fits(known.state, w)
        <3> HIDE DEF w, known
        <3>1. QED
            BY <2>1, FitsFacts
    <2>3. "gap" \in Names
        BY DEF Names
    <2>4. Good(<<w>>, s, known.state, known.state)
        <3> HIDE DEF known
        <3>1. QED
            BY <1>1, <2>2, <2>3, OneGood
    <2>5. QED
        BY <1>3, <2>4 DEF Writes
<1>4. CASE m.event = "ended" /\ known.state = "open"
    <2> DEFINE row == [known EXCEPT !.state = "lost"]
               w == Change(s, "ended", row, FALSE)
    <2>1. row \in Row /\ row.state = "lost"
        BY <1>1 DEF Row
    <2>2. Ending(m, known) = <<w>>
        BY <1>4 DEF Ending
    <2> HIDE DEF row
    <2>3. w \in Changes /\ w.name = "ended" /\ w.row = row
        BY <1>1, <2>1 DEF Change, Changes, Names
    <2>4. Fits("open", w)
        <3> HIDE DEF w
        <3>1. QED
            BY <2>1, <2>3, FitsFacts
    <2>5. "ended" \in Names
        BY DEF Names
    <2>6. Good(<<w>>, s, "open", row.state)
        BY <1>1, <2>1, <2>4, <2>5, OneGood
    <2>7. QED
        BY <1>4, <2>2, <2>6 DEF Writes
<1>5. CASE m.event = "stop" /\ known.state # "closed"
    <2> DEFINE row == RowOf(m, known, "closed", known.changed)
               w == Change(s, "stop", row, TRUE)
    <2>1. row \in Row /\ row.state = "closed"
        BY <1>1, <1>2, RowTyped
    <2>2. Closing(m, known) = <<w>>
        BY <1>5 DEF Closing
    <2> HIDE DEF row
    <2>3. w \in Changes /\ w.name = "stop" /\ w.row = row
        BY <1>1, <2>1 DEF Change, Changes, Names
    <2>4. Fits(known.state, w)
        <3>1. known.state \in {"unknown", "open", "lost"}
            BY <1>2, <1>5
        <3> HIDE DEF w, known
        <3>2. QED
            BY <2>1, <2>3, <3>1, FitsFacts
    <2>5. "stop" \in Names
        BY DEF Names
    <2>6. Good(<<w>>, s, known.state, row.state)
        <3> HIDE DEF known
        <3>1. QED
            BY <1>1, <2>1, <2>4, <2>5, OneGood
    <2>7. QED
        BY <1>5, <2>2, <2>6 DEF Writes
<1>6. CASE \/ m.event = "gap" /\ ~MayGap(m, known)
           \/ m.event = "ended" /\ known.state # "open"
           \/ m.event = "stop" /\ known.state = "closed"
    <2>1. Writes(m, known) = <<>>
        BY <1>6 DEF Writes, Ending, Closing
    <2>2. QED
        BY <2>1, GoodNone
<1>7. CASE m.event \notin {"gap", "ended", "stop"} /\ known.state = "unknown"
    <2>1. Writes(m, known) = Opening(m)
        BY <1>7 DEF Writes
    <2>2. QED
        BY <1>1, <1>7, <2>1, OpeningGood
<1>8. CASE m.event \notin {"gap", "ended", "stop"} /\ known.state # "unknown"
    <2>1. Writes(m, known) = Going(m, known)
        BY <1>8 DEF Writes
    <2> HIDE DEF known
    <2>2. QED
        BY <1>1, <1>8, <2>1, GoingGood DEF known
<1>9. QED
    BY <1>3, <1>4, <1>5, <1>6, <1>7, <1>8

-----------------------------------------------------------------------------
(* The writes still to make. *)

ToWrite == WritesFit /\ InGroups /\ LossesStand

LEMMA NothingToWrite ==
    ASSUME todo' = <<>>
    PROVE  ToWrite'
<1>1. Len(todo') = 0
    BY EmptySeq
<1>2. QED
    BY <1>1 DEF ToWrite, WritesFit, InGroups, LossesStand

LEMMA SameToWrite ==
    ASSUME ToWrite, todo' = todo, conn' = conn, age' = age, upFor' = upFor
    PROVE  ToWrite'
    BY DEF ToWrite, WritesFit, InGroups, LossesStand, Found, Fits, May, StateOf

(* A handler starts when nothing is left to write, and all it decides is of *)
(* one session (ConnectionWatch.serially).                                  *)
LEMMA HandleToWrite ==
    ASSUME TypeOK, ToWrite, NEW m \in net, Handle(m)
    PROVE  todo' \in Seq(Changes) /\ ToWrite'
<1> DEFINE s == m.session
<1>1. todo = <<>> /\ conn' = conn /\ age' = age
    BY DEF Handle, InTurn, dbVars
<1>2. CASE Refused(m, conn[s])
    <2>1. todo' = <<>>
        BY <1>1, <1>2 DEF Handle, serverVars
    <2>2. QED
        BY <2>1, NothingToWrite, EmptySeq
<1>3. CASE ~Refused(m, conn[s])
    <2>1. PICK last : Good(Writes(m, conn[s]), s, conn[s].state, last)
        BY WritesGood
    <2>2. todo' = <<>> \o Writes(m, conn[s])
        BY <1>1, <1>3 DEF Handle
    <2>3. todo' = Writes(m, conn[s])
        BY <2>1, <2>2, ConcatEmptySeq DEF Good
    <2>4. /\ todo' \in Seq(Changes)
          /\ \A i \in 1..Len(todo') :
                /\ todo'[i].session = s /\ todo'[i].name # "lost"
                /\ Fits(IF i = 1 THEN conn[s].state ELSE todo'[i - 1].row.state, todo'[i])
        BY <2>1, <2>3 DEF Good
    <2>5. WritesFit'
        <3>1. ASSUME NEW i \in 1..Len(todo')
              PROVE  Fits(Found(i), todo[i])'
            <4>1. Found(i)' = IF i = 1 THEN conn[s].state ELSE todo'[i - 1].row.state
                <5>1. Len(todo') \in Nat
                    BY <2>4
                <5>2. i # 1 => i > 1 /\ i - 1 \in 1..Len(todo')
                    BY <5>1
                <5>3. QED
                    BY <1>1, <2>4, <5>2 DEF Found
            <4>2. Fits(Found(i)', todo'[i])
                BY <2>4, <4>1
            <4>3. QED
                BY <4>2 DEF Fits, May, StateOf
        <3>2. QED
            BY <3>1 DEF WritesFit
    <2>6. InGroups'
        <3>1. Len(todo') \in Nat
            BY <2>4
        <3>2. \A i, j \in 1..Len(todo') : i < j => j - 1 \in 1..Len(todo')
            BY <3>1
        <3>3. QED
            BY <2>4, <3>2 DEF InGroups
    <2>7. LossesStand'
        BY <2>4 DEF LossesStand
    <2>8. QED
        BY <2>4, <2>5, <2>6, <2>7 DEF ToWrite
<1>4. QED
    BY <1>2, <1>3

(* The sweep decides the loss of every silent session, each once. *)
LEMMA SweepToWrite ==
    ASSUME TypeOK, ToWrite, Sweep
    PROVE  todo' \in Seq(Changes) /\ ToWrite'
<1> DEFINE n == Cardinality(Silent)
<1>1. PICK list \in SetToSeqs(Silent) :
        todo' = [i \in 1..Len(list) |->
                    Change(list[i], "lost", [conn[list[i]] EXCEPT !.state = "lost"], FALSE)]
    BY DEF Sweep
<1>2. Silent \subseteq Sessions /\ n \in Nat
    <2>1. Silent \subseteq Sessions
        BY DEF Silent
    <2>2. QED
        BY <2>1, WatchAssumption, FS_Subset, FS_CardinalityType
<1>3. list \in [1..n -> Silent] /\ \A i, j \in 1..n : i # j => list[i] # list[j]
    BY <1>1 DEF SetToSeqs
<1> HIDE DEF n
<1>4. Len(list) = n /\ list \in Seq(Silent)
    BY <1>2, <1>3
<1>5. \A i \in 1..n :
        /\ list[i] \in Silent
        /\ todo'[i] = Change(list[i], "lost", [conn[list[i]] EXCEPT !.state = "lost"], FALSE)
    BY <1>1, <1>3, <1>4
<1>6. \A i \in 1..n :
        /\ todo'[i] \in Changes /\ todo'[i].session = list[i] /\ todo'[i].name = "lost"
        /\ todo'[i].row.state = "lost" /\ ~todo'[i].beat
    <2>1. ASSUME NEW i \in 1..n
          PROVE  /\ todo'[i] \in Changes /\ todo'[i].session = list[i] /\ todo'[i].name = "lost"
                 /\ todo'[i].row.state = "lost" /\ ~todo'[i].beat
        <3> DEFINE row == [conn[list[i]] EXCEPT !.state = "lost"]
        <3>1. list[i] \in Sessions /\ conn[list[i]] \in Row
            BY <1>2, <1>5 DEF TypeOK
        <3>2. row \in Row /\ row.state = "lost"
            BY <3>1 DEF Row
        <3>3. todo'[i] = Change(list[i], "lost", row, FALSE)
            BY <1>5
        <3> HIDE DEF row
        <3>4. QED
            BY <3>1, <3>2, <3>3 DEF Change, Changes, Names
    <2>2. QED
        BY <2>1
<1>7. Len(todo') = n /\ todo' \in Seq(Changes)
    <2>1. DOMAIN todo' = 1..n
        BY <1>1, <1>4
    <2>2. todo' = [i \in 1..n |-> todo'[i]]
        BY <1>1, <1>4
    <2>3. todo' \in [1..n -> Changes]
        BY <1>6, <2>2
    <2>4. QED
        BY <1>2, <2>3
<1>8. conn' = conn /\ age' = age /\ upFor' = upFor
    BY DEF Sweep, dbVars
<1>9. \A i, j \in 1..n : i # j => todo'[i].session # todo'[j].session
    BY <1>3, <1>6
<1>10. WritesFit'
    <2>1. ASSUME NEW i \in 1..n
          PROVE  Fits(Found(i), todo[i])'
        <3>1. i > 1 => i - 1 \in 1..n /\ i - 1 # i
            BY <1>2
        <3>2. Found(i)' = conn[list[i]].state
            BY <1>6, <1>8, <1>9, <3>1 DEF Found
        <3>3. conn[list[i]].state = "open"
            BY <1>5 DEF Silent
        <3>4. Fits("open", todo'[i])
            BY <1>6, FitsFacts
        <3>5. QED
            BY <3>2, <3>3, <3>4 DEF Fits, May, StateOf
    <2>2. QED
        BY <1>7, <2>1 DEF WritesFit
<1>11. InGroups'
    <2>1. \A i, j \in 1..n : i < j => i # j
        BY <1>2
    <2>2. QED
        BY <1>7, <1>9, <2>1 DEF InGroups
<1>12. LossesStand'
    <2>1. \A i \in 1..n : age[list[i]] > LOST_AFTER /\ upFor > LOST_AFTER
        BY <1>5 DEF Silent
    <2>2. QED
        BY <1>6, <1>7, <1>8, <2>1 DEF LossesStand
<1>13. QED
    BY <1>7, <1>10, <1>11, <1>12 DEF ToWrite

(* A write made: those after it find what it leaves. *)
LEMMA SavedToWrite ==
    ASSUME TypeOK, ToWrite, todo # <<>>, Save(Head(todo)), todo' = Tail(todo), upFor' = upFor
    PROVE  /\ todo' \in Seq(Changes) /\ ToWrite'
           /\ conn' \in [Sessions -> Row] /\ age' \in [Sessions -> 0..(LOST_AFTER + 1)]
<1> DEFINE n == Len(todo)
           w == Head(todo)
<1>1. todo \in Seq(Changes) /\ conn \in [Sessions -> Row] /\ age \in [Sessions -> 0..(LOST_AFTER + 1)]
    BY DEF TypeOK
<1>2. /\ n \in Nat /\ n >= 1 /\ w = todo[1]
      /\ todo' \in Seq(Changes) /\ Len(todo') = n - 1
      /\ \A i \in 1..(n - 1) : todo'[i] = todo[i + 1]
    BY <1>1, EmptySeq, HeadTailProperties
<1>3. \A i \in 1..n : todo[i] \in Changes
    BY <1>1, ElementOfSeq
<1>4. w \in Changes /\ w.session \in Sessions /\ w.row \in Row
    BY <1>2, <1>3 DEF Changes
<1>5. /\ conn' = [conn EXCEPT ![w.session] = w.row]
      /\ age' = IF w.beat THEN [age EXCEPT ![w.session] = 0] ELSE age
    BY DEF Save
<1> HIDE DEF n, w
<1>6. conn' \in [Sessions -> Row] /\ age' \in [Sessions -> 0..(LOST_AFTER + 1)]
    BY <1>1, <1>4, <1>5, WatchAssumption
<1>7. WritesFit'
    <2>1. ASSUME NEW i \in 1..(n - 1)
          PROVE  Fits(Found(i), todo[i])'
        <3>1. i + 1 \in 1..n /\ i \in 1..n /\ i + 1 > 1 /\ (i + 1) - 1 = i
            BY <1>2
        <3>2. Fits(Found(i + 1), todo[i + 1])
            BY <3>1 DEF ToWrite, WritesFit, n
        <3>3. todo'[i] = todo[i + 1] /\ todo[i + 1].session \in Sessions
            BY <1>2, <1>3, <3>1 DEF Changes
        <3>4. Found(i + 1) = IF todo[i].session = todo[i + 1].session
                             THEN todo[i].row.state ELSE conn[todo[i + 1].session].state
            BY <3>1 DEF Found
        <3>5. Found(i)' = Found(i + 1)
            <4>1. CASE i = 1
                <5>0. ~(i > 1)
                    BY <4>1
                <5>1. Found(i)' = conn'[todo[i + 1].session].state
                    BY <3>3, <5>0 DEF Found
                <5>2. todo[i] = w
                    BY <1>2, <4>1
                <5>3. QED
                    BY <1>1, <1>4, <1>5, <3>3, <3>4, <5>1, <5>2
            <4>2. CASE i # 1
                <5>1. i > 1 /\ i - 1 \in 1..(n - 1) /\ (i - 1) + 1 = i
                    BY <1>2, <4>2
                <5>2. todo'[i - 1] = todo[i]
                    BY <1>2, <5>1
                <5>3. CASE todo[i].session = todo[i + 1].session
                    BY <3>3, <3>4, <5>1, <5>2, <5>3 DEF Found
                <5>4. CASE todo[i].session # todo[i + 1].session
                    <6>1. Found(i)' = conn'[todo[i + 1].session].state
                        BY <3>3, <5>1, <5>2, <5>4 DEF Found
                    <6>2. todo[1].session # todo[i + 1].session
                        <7>1. 1 \in 1..n /\ 1 < i + 1
                            BY <1>2, <3>1
                        <7>2. QED
                            BY <3>1, <5>4, <7>1 DEF ToWrite, InGroups, n
                    <6>3. conn'[todo[i + 1].session] = conn[todo[i + 1].session]
                        BY <1>1, <1>2, <1>4, <1>5, <3>3, <6>2
                    <6>4. QED
                        BY <3>4, <5>4, <6>1, <6>3
                <5>5. QED
                    BY <5>3, <5>4
            <4>3. QED
                BY <4>1, <4>2
        <3>6. QED
            BY <3>2, <3>3, <3>5 DEF Fits, May, StateOf
    <2>2. QED
        BY <1>2, <2>1 DEF WritesFit
<1>8. InGroups'
    <2>1. ASSUME NEW i \in 1..(n - 1), NEW j \in 1..(n - 1), i < j, todo'[i].session = todo'[j].session
          PROVE  todo'[j - 1].session = todo'[j].session
        <3>1. i + 1 \in 1..n /\ j + 1 \in 1..n /\ i + 1 < j + 1 /\ (j + 1) - 1 = j
              /\ j - 1 \in 1..(n - 1) /\ (j - 1) + 1 = j
            BY <1>2, <2>1
        <3>2. todo[j].session = todo[j + 1].session
            <4>1. todo[i + 1].session = todo[j + 1].session
                BY <1>2, <2>1
            <4>2. QED
                BY <3>1, <4>1 DEF ToWrite, InGroups, n
        <3>3. QED
            BY <1>2, <3>1, <3>2
    <2>2. QED
        BY <1>2, <2>1 DEF InGroups
<1>9. LossesStand'
    <2>1. ASSUME NEW i \in 1..(n - 1), todo'[i].name = "lost"
          PROVE  /\ age'[todo'[i].session] > LOST_AFTER /\ upFor' > LOST_AFTER
                 /\ \A k \in 1..(n - 1) : todo'[k].name = "lost" /\ ~todo'[k].beat
        <3>1. i + 1 \in 1..n /\ todo[i + 1].name = "lost" /\ 1 \in 1..n
            BY <1>2, <2>1
        <3>2. /\ age[todo[i + 1].session] > LOST_AFTER /\ upFor > LOST_AFTER
              /\ \A k \in 1..n : todo[k].name = "lost" /\ ~todo[k].beat
            BY <3>1 DEF ToWrite, LossesStand, n
        <3>3. age' = age
            BY <1>2, <1>5, <3>1, <3>2
        <3>4. \A k \in 1..(n - 1) : k + 1 \in 1..n
            BY <1>2
        <3>5. QED
            BY <1>2, <3>2, <3>3, <3>4
    <2>2. QED
        BY <1>2, <2>1 DEF LossesStand
<1>10. QED
    BY <1>2, <1>6, <1>7, <1>8, <1>9 DEF ToWrite

-----------------------------------------------------------------------------
(* What the receipts tell. *)

\* The receipts that tell the state of s follow one another.
Orderly(s) ==
    \A i \in ChangesOf(s) : May(StateAfter({k \in ChangesOf(s) : k < i}), chain[i].name)

Tells(s, receipt) == receipt.kept /\ receipt.session = s /\ receipt.name \in StateNames

\* The chain only grows.
Grows ==
    /\ chain \in Seq(Receipts) /\ chain' \in Seq(Receipts)
    /\ Len(chain) <= Len(chain')
    /\ \A i \in 1..Len(chain) : chain'[i] = chain[i]

(* What some places tell, a longer chain lets them tell. *)
LEMMA SameTold ==
    ASSUME Grows, NEW places \in SUBSET (1..Len(chain))
    PROVE  StateAfter(places)' = StateAfter(places)
<1>1. CASE places = {}
    BY <1>1 DEF StateAfter
<1>2. CASE places # {}
    <2>1. Len(chain) \in Nat
        BY DEF Grows
    <2>2. PICK i \in places : (CHOOSE j \in places : \A k \in places : k <= j) = i
        BY <1>2, <2>1, LastPlace
    <2>3. chain'[i] = chain[i]
        BY DEF Grows
    <2>4. StateAfter(places) = StateOf(chain[i].name) /\ StateAfter(places)' = StateOf(chain'[i].name)
        BY <1>2, <2>2 DEF StateAfter, StateOf
    <2>5. QED
        BY <2>3, <2>4
<1>3. QED
    BY <1>1, <1>2

(* Receipts that tell nothing of a session leave what is told of it. *)
LEMMA QuietGrowth ==
    ASSUME Grows, NEW s \in Sessions, Orderly(s),
           \A i \in 1..Len(chain') : i > Len(chain) => ~Tells(s, chain'[i])
    PROVE  /\ Orderly(s)'
           /\ StateAfter(ChangesOf(s))' = StateAfter(ChangesOf(s))
<1>1. Len(chain) \in Nat /\ Len(chain') \in Nat
    BY DEF Grows
<1>2. ChangesOf(s)' = ChangesOf(s)
    <2>1. ChangesOf(s)' = {i \in 1..Len(chain') : Tells(s, chain'[i])}
        BY DEF ChangesOf, Tells
    <2>2. ChangesOf(s) = {i \in 1..Len(chain) : Tells(s, chain[i])}
        BY DEF ChangesOf, Tells
    <2>3. \A i \in 1..Len(chain') : i <= Len(chain) => i \in 1..Len(chain)
        BY <1>1
    <2>4. \A i \in 1..Len(chain) : i \in 1..Len(chain') /\ i <= Len(chain)
        BY <1>1 DEF Grows
    <2>5. \A i \in 1..Len(chain') : i <= Len(chain) \/ i > Len(chain)
        BY <1>1
    <2>6. QED
        BY <2>1, <2>2, <2>3, <2>4, <2>5 DEF Grows
<1>3. PICK P : P = ChangesOf(s)
    OBVIOUS
<1>4. P \in SUBSET (1..Len(chain)) /\ ChangesOf(s)' = P
    BY <1>2, <1>3 DEF ChangesOf
<1>5. StateAfter(P)' = StateAfter(P)
    BY <1>4, SameTold
<1>6. ASSUME NEW i \in P
      PROVE  May(StateAfter({k \in P : k < i}), chain[i].name)'
    <2>1. PICK Q : Q = {k \in P : k < i}
        OBVIOUS
    <2>2. StateAfter(Q)' = StateAfter(Q)
        BY <1>4, <2>1, SameTold
    <2>3. May(StateAfter(Q), chain[i].name)
        BY <1>3, <2>1 DEF Orderly
    <2>4. chain'[i] = chain[i]
        BY <1>4 DEF Grows
    <2>5. QED
        BY <2>1, <2>2, <2>3, <2>4 DEF May
<1>7. QED
    BY <1>3, <1>4, <1>5, <1>6 DEF Orderly

(* A receipt that may follow what is told, at the end, is told from then on.*)
LEMMA ToldGrowth ==
    ASSUME Grows, NEW s \in Sessions, Orderly(s), Len(chain') > Len(chain),
           \A i \in 1..Len(chain') : i > Len(chain) => (Tells(s, chain'[i]) <=> i = Len(chain')),
           May(StateAfter(ChangesOf(s)), chain'[Len(chain')].name)
    PROVE  /\ Orderly(s)'
           /\ StateAfter(ChangesOf(s))' = StateOf(chain'[Len(chain')].name)
<1>1. Len(chain) \in Nat /\ Len(chain') \in Nat
    BY DEF Grows
<1>2. PICK P : P = ChangesOf(s)
    OBVIOUS
<1>3. PICK n : n = Len(chain')
    OBVIOUS
<1>4. P \in SUBSET (1..Len(chain)) /\ n \in Nat /\ n > Len(chain)
    BY <1>1, <1>2, <1>3 DEF ChangesOf
<1>5. ChangesOf(s)' = P \cup {n}
    <2>1. ChangesOf(s)' = {i \in 1..Len(chain') : Tells(s, chain'[i])}
        BY DEF ChangesOf, Tells
    <2>2. P = {i \in 1..Len(chain) : Tells(s, chain[i])}
        BY <1>2 DEF ChangesOf, Tells
    <2>3. \A i \in 1..Len(chain') : i <= Len(chain) => i \in 1..Len(chain)
        BY <1>1
    <2>4. \A i \in 1..Len(chain) : i \in 1..Len(chain') /\ i <= Len(chain)
        BY <1>1 DEF Grows
    <2>5. \A i \in 1..Len(chain') : i <= Len(chain) \/ i > Len(chain)
        BY <1>1
    <2>6. n \in 1..Len(chain')
        BY <1>1, <1>3, <1>4
    <2>7. ASSUME NEW i \in ChangesOf(s)' PROVE i \in P \cup {n}
        BY <1>3, <2>1, <2>2, <2>3, <2>5 DEF Grows
    <2>8. ASSUME NEW i \in P PROVE i \in ChangesOf(s)'
        BY <2>1, <2>2, <2>4 DEF Grows
    <2>9. n \in ChangesOf(s)'
        BY <1>3, <1>4, <2>1, <2>6
    <2>10. QED
        BY <2>7, <2>8, <2>9
<1>6. ASSUME NEW i \in P \cup {n}
      PROVE  May(StateAfter({k \in P \cup {n} : k < i}), chain[i].name)'
    <2>1. CASE i = n
        <3>0. (\A k \in P : k < n) /\ ~(n < n)
            BY <1>1, <1>4
        <3>1. {k \in P \cup {n} : k < i} = P
            BY <2>1, <3>0
        <3>2. StateAfter(P)' = StateAfter(P)
            BY <1>4, SameTold
        <3>3. QED
            BY <1>2, <1>3, <2>1, <3>1, <3>2 DEF May
    <2>2. CASE i \in P
        <3>1. PICK Q : Q = {k \in P : k < i}
            OBVIOUS
        <3>2. {k \in P \cup {n} : k < i} = Q
            BY <1>1, <1>4, <2>2, <3>1
        <3>3. StateAfter(Q)' = StateAfter(Q)
            BY <1>4, <3>1, SameTold
        <3>4. May(StateAfter(Q), chain[i].name)
            BY <1>2, <2>2, <3>1 DEF Orderly
        <3>5. chain'[i] = chain[i]
            BY <1>4, <2>2 DEF Grows
        <3>6. QED
            BY <3>2, <3>3, <3>4, <3>5 DEF May
    <2>3. QED
        BY <2>1, <2>2
<1>7. StateAfter(P \cup {n})' = StateOf(chain'[n].name)
    <2>1. P \cup {n} \in SUBSET (1..n) /\ P \cup {n} # {}
        BY <1>1, <1>4
    <2>2. PICK i \in P \cup {n} :
            /\ \A k \in P \cup {n} : k <= i
            /\ (CHOOSE j \in P \cup {n} : \A k \in P \cup {n} : k <= j) = i
        BY <1>4, <2>1, LastPlace
    <2>3. i = n
        BY <1>1, <1>4, <2>2
    <2>4. QED
        BY <2>1, <2>2, <2>3 DEF StateAfter, StateOf
<1>8. QED
    BY <1>3, <1>5, <1>6, <1>7 DEF Orderly

(* What reconciliation stores tells nothing: it has no row with it. *)
LEMMA RecoveredTells ==
    ASSUME TypeOK, AheadIsBare, RowsTell, OneReceiptPerChange, conn' = conn, chain' = Recovered
    PROVE  chain' \in Seq(Receipts) /\ RowsTell' /\ OneReceiptPerChange'
<1>1. /\ chain' \in Seq(Receipts) /\ Grows
      /\ \A i \in 1..Len(chain') : i > Len(chain) => ~chain'[i].kept
    <2>1. chain \in Seq(Receipts) /\ Len(chain) \in Nat
        BY DEF TypeOK
    <2>2. CASE ahead = Nothing
        BY <2>1, <2>2 DEF Recovered, Grows
    <2>3. CASE ahead # Nothing
        <3>1. ahead \in Receipts /\ ~ahead.kept /\ chain' = Append(chain, ahead)
            BY <2>3 DEF Recovered, TypeOK, AheadIsBare
        <3>2. /\ chain' \in Seq(Receipts) /\ Len(chain') = Len(chain) + 1
              /\ \A i \in 1..Len(chain) : chain'[i] = chain[i]
              /\ chain'[Len(chain) + 1] = ahead
            BY <2>1, <3>1, AppendProperties
        <3>3. \A i \in 1..Len(chain') : i > Len(chain) => i = Len(chain) + 1
            BY <2>1, <3>2
        <3>4. Len(chain) <= Len(chain')
            BY <2>1, <3>2
        <3>5. QED
            BY <2>1, <3>1, <3>2, <3>3, <3>4 DEF Grows
    <2>4. QED
        BY <2>2, <2>3
<1>2. ASSUME NEW s \in Sessions
      PROVE  Orderly(s)' /\ StateAfter(ChangesOf(s))' = StateAfter(ChangesOf(s))
    <2>1. Orderly(s)
        BY DEF OneReceiptPerChange, Orderly
    <2>2. \A i \in 1..Len(chain') : i > Len(chain) => ~Tells(s, chain'[i])
        BY <1>1 DEF Tells
    <2>3. QED
        BY <1>1, <2>1, <2>2, QuietGrowth
<1>3. RowsTell'
    BY <1>2 DEF RowsTell
<1>4. OneReceiptPerChange'
    BY <1>2 DEF OneReceiptPerChange, Orderly
<1>5. QED
    BY <1>1, <1>3, <1>4

(* The receipt of a write is stored with its row: the row says what the     *)
(* receipt tells (store.ts recordConnection).                               *)
LEMMA WrittenTells ==
    ASSUME IInv, Written
    PROVE  chain' \in Seq(Receipts) /\ RowsTell' /\ OneReceiptPerChange'
<1> DEFINE w == Head(todo)
           receipt == Receipt(w.session, w.name, TRUE)
           old == Recovered
<1>1. TypeOK /\ AheadIsBare /\ RowsTell /\ OneReceiptPerChange
    BY DEF IInv
<1>2. /\ w = todo[1] /\ 1 \in 1..Len(todo)
      /\ w \in Changes /\ w.session \in Sessions /\ w.row \in Row /\ w.name \in Names
    <2>1. todo \in Seq(Changes) /\ todo # <<>> /\ w.name # "none"
        BY <1>1 DEF Written, TypeOK
    <2>2. w = todo[1] /\ 1 \in 1..Len(todo)
        BY <2>1, EmptySeq
    <2>3. w \in Changes
        BY <2>1, <2>2, ElementOfSeq
    <2>4. QED
        BY <2>1, <2>2, <2>3 DEF Changes
<1>3. conn' = [conn EXCEPT ![w.session] = w.row] /\ chain' = Append(old, receipt)
    BY DEF Written, Save
<1>4. Fits(conn[w.session].state, w)
    <2>1. Fits(Found(1), todo[1])
        BY <1>2 DEF IInv, WritesFit
    <2>2. Found(1) = conn[todo[1].session].state
        BY DEF Found
    <2>3. QED
        BY <1>2, <2>1, <2>2
<1>5. receipt \in Receipts /\ receipt.kept /\ receipt.session = w.session /\ receipt.name = w.name
    BY <1>2 DEF Receipt, Receipts
<1> HIDE DEF w, receipt, old
<1>6. /\ Len(chain) \in Nat
      /\ chain \in Seq(Receipts) /\ old \in Seq(Receipts) /\ Len(old) \in Nat /\ Len(chain) <= Len(old)
      /\ \A i \in 1..Len(chain) : old[i] = chain[i]
      /\ \A i \in 1..Len(old) : i > Len(chain) => ~old[i].kept
    <2>1. chain \in Seq(Receipts) /\ Len(chain) \in Nat
        BY <1>1 DEF TypeOK
    <2>2. CASE ahead = Nothing
        BY <2>1, <2>2 DEF Recovered, old
    <2>3. CASE ahead # Nothing
        <3>1. ahead \in Receipts /\ ~ahead.kept /\ old = Append(chain, ahead)
            BY <1>1, <2>3 DEF Recovered, TypeOK, AheadIsBare, old
        <3>2. /\ old \in Seq(Receipts) /\ Len(old) = Len(chain) + 1
              /\ \A i \in 1..Len(chain) : old[i] = chain[i]
              /\ old[Len(chain) + 1] = ahead
            BY <2>1, <3>1, AppendProperties
        <3>3. /\ \A i \in 1..Len(old) : i > Len(chain) => i = Len(chain) + 1
              /\ Len(old) \in Nat /\ Len(chain) <= Len(old)
            BY <2>1, <3>2
        <3>4. QED
            BY <2>1, <3>1, <3>2, <3>3
    <2>4. QED
        BY <2>2, <2>3
<1>7. /\ chain' \in Seq(Receipts) /\ Len(chain') = Len(old) + 1
      /\ \A i \in 1..Len(old) : chain'[i] = old[i]
      /\ chain'[Len(chain')] = receipt
    BY <1>3, <1>5, <1>6, AppendProperties
<1>8. Grows /\ Len(chain') > Len(chain)
    <2>1. Len(chain) <= Len(chain') /\ Len(chain') > Len(chain) /\ \A i \in 1..Len(chain) : i \in 1..Len(old)
        BY <1>6, <1>7
    <2>2. QED
        BY <1>6, <1>7, <2>1 DEF Grows
<1>9. \A i \in 1..Len(chain') : i > Len(chain) => i = Len(chain') \/ ~chain'[i].kept
    <2>1. \A i \in 1..Len(chain') : i = Len(chain') \/ i \in 1..Len(old)
        BY <1>6, <1>7
    <2>2. QED
        BY <1>6, <1>7, <2>1
<1>10. ASSUME NEW s \in Sessions
       PROVE  Orderly(s)' /\ conn'[s].state = StateAfter(ChangesOf(s))'
    <2>1. Orderly(s) /\ conn[s].state = StateAfter(ChangesOf(s))
        BY <1>1 DEF OneReceiptPerChange, Orderly, RowsTell
    <2>2. CASE s = w.session /\ w.name \in StateNames
        <3>1. Tells(s, receipt)
            BY <1>5, <2>2 DEF Tells
        <3>2. \A i \in 1..Len(chain') : i > Len(chain) => (Tells(s, chain'[i]) <=> i = Len(chain'))
            BY <1>7, <1>9, <3>1 DEF Tells
        <3>3. May(StateAfter(ChangesOf(s)), chain'[Len(chain')].name) /\ w.row.state = StateOf(w.name)
            BY <1>4, <1>5, <1>7, <2>1, <2>2 DEF Fits
        <3>4. Orderly(s)' /\ StateAfter(ChangesOf(s))' = StateOf(chain'[Len(chain')].name)
            BY <1>8, <2>1, <3>2, <3>3, ToldGrowth
        <3>5. conn'[s] = w.row
            BY <1>1, <1>3, <2>2 DEF TypeOK
        <3>6. QED
            BY <1>5, <1>7, <3>3, <3>4, <3>5
    <2>3. CASE ~(s = w.session /\ w.name \in StateNames)
        <3>1. \A i \in 1..Len(chain') : i > Len(chain) => ~Tells(s, chain'[i])
            BY <1>5, <1>7, <1>9, <2>3 DEF Tells
        <3>2. Orderly(s)' /\ StateAfter(ChangesOf(s))' = StateAfter(ChangesOf(s))
            BY <1>8, <2>1, <3>1, QuietGrowth
        <3>3. conn'[s].state = conn[s].state
            BY <1>1, <1>3, <1>4, <2>3 DEF TypeOK, Fits
        <3>4. QED
            BY <2>1, <3>2, <3>3
    <2>4. QED
        BY <2>2, <2>3
<1>11. QED
    BY <1>7, <1>10 DEF RowsTell, OneReceiptPerChange, Orderly

-----------------------------------------------------------------------------
(* The invariant is inductive. *)

LEMMA InvInit == Init => IInv
<1> SUFFICES ASSUME Init PROVE IInv
    OBVIOUS
<1>1. <<>> \in Seq(Receipts) /\ <<>> \in Seq(Changes) /\ Len(<<>>) = 0
    BY EmptySeq
<1>2. TypeOK
    <2>1. conn \in [Sessions -> Row]
        BY NeverSeenTyped DEF Init
    <2>2. QED
        BY <1>1, <2>1, WatchAssumption DEF Init, TypeOK
<1>3. todo = <<>> /\ chain = <<>> /\ ahead = Nothing
    BY DEF Init
<1>4. WritesFit /\ InGroups /\ LossesStand
    BY <1>1, <1>3 DEF WritesFit, InGroups, LossesStand
<1>5. \A s \in Sessions : ChangesOf(s) = {} /\ conn[s].state = "unknown"
    BY <1>1, <1>3 DEF ChangesOf, Init, NeverSeen
<1>6. QED
    BY <1>2, <1>3, <1>4, <1>5 DEF IInv, RowsTell, StateAfter, AheadIsBare, OneReceiptPerChange

LEMMA SameTells ==
    ASSUME TypeOK, RowsTell, OneReceiptPerChange, chain' = chain,
           \A s \in Sessions : conn'[s].state = conn[s].state
    PROVE  RowsTell' /\ OneReceiptPerChange'
<1>1. Grows /\ \A i \in 1..Len(chain') : ~(i > Len(chain))
    <2>1. chain \in Seq(Receipts) /\ Len(chain) \in Nat
        BY DEF TypeOK
    <2>2. QED
        BY <2>1 DEF Grows
<1>2. ASSUME NEW s \in Sessions
      PROVE  Orderly(s)' /\ StateAfter(ChangesOf(s))' = StateAfter(ChangesOf(s))
    <2>1. Orderly(s)
        BY DEF OneReceiptPerChange, Orderly
    <2>2. QED
        BY <1>1, <2>1, QuietGrowth
<1>3. QED
    BY <1>2 DEF RowsTell, OneReceiptPerChange, Orderly

\* What the agents do leaves the server and its tables.
ServerSame == UNCHANGED <<dbVars, serverVars, faults>>

LEMMA ServerSameStep ==
    ASSUME IInv, ServerSame, TypeOK'
    PROVE  IInv'
<1>1. ToWrite'
    BY SameToWrite DEF IInv, ToWrite, ServerSame, dbVars, serverVars
<1>2. RowsTell' /\ OneReceiptPerChange' /\ AheadIsBare'
    <2>1. chain' = chain /\ conn' = conn /\ ahead' = ahead
        BY DEF ServerSame, dbVars
    <2>2. QED
        BY <2>1, SameTells DEF IInv, AheadIsBare
<1>3. QED
    BY <1>1, <1>2 DEF IInv, ToWrite

LEMMA AgentStep ==
    ASSUME IInv,
           \/ \E s \in Sessions :
                \/ AgentStarts(s) \/ AgentBeats(s, "beat") \/ AgentBeats(s, "gap")
                \/ AgentCloses(s) \/ AgentDies(s) \/ GuardTells(s)
           \/ \E hash \in Hashes : EditScript(hash)
    PROVE  IInv'
<1>1. ServerSame
    BY DEF AgentStarts, AgentBeats, AgentCloses, AgentDies, GuardTells, EditScript, ServerSame
<1>2. TypeOK
    BY DEF IInv
<1>3. ASSUME NEW s \in Sessions, NEW event \in {"start", "beat", "gap", "stop", "ended"}
      PROVE  Request(s, event) \in [session : Sessions, event : {"start", "beat", "gap", "stop", "ended"}, hash : Hashes]
    BY <1>2 DEF Request, TypeOK
<1>4. /\ agent' \in [Sessions -> {"new", "running", "closed", "dead", "gone"}]
      /\ budget' \in 0..MaxBeats /\ script' \in Hashes
      /\ net' \subseteq [session : Sessions, event : {"start", "beat", "gap", "stop", "ended"}, hash : Hashes]
    <2> DEFINE R == [session : Sessions, event : {"start", "beat", "gap", "stop", "ended"}, hash : Hashes]
               states == {"new", "running", "closed", "dead", "gone"}
    <2>1. agent \in [Sessions -> states] /\ budget \in 0..MaxBeats /\ script \in Hashes /\ net \subseteq R
        BY <1>2 DEF TypeOK
    <2>2. ASSUME NEW s \in Sessions, NEW event \in {"start", "beat", "gap", "stop", "ended"}, SendRequest(s, event)
          PROVE  net' \subseteq R
        <3>1. Request(s, event) \in R
            BY <1>3
        <3> HIDE DEF R
        <3>2. QED
            BY <2>1, <2>2, <3>1 DEF SendRequest
    <2>3. ASSUME NEW s \in Sessions, NEW state \in states, agent' = [agent EXCEPT ![s] = state]
          PROVE  agent' \in [Sessions -> states]
        <3> HIDE DEF states
        <3>1. QED
            BY <2>1, <2>3
    <2>4. ASSUME NEW s \in Sessions, AgentStarts(s) \/ AgentCloses(s) \/ GuardTells(s)
          PROVE  agent' \in [Sessions -> states] /\ budget' = budget /\ script' = script /\ net' \subseteq R
        <3>1. /\ \E event \in {"start", "beat", "gap", "stop", "ended"} : SendRequest(s, event)
              /\ \E state \in states : agent' = [agent EXCEPT ![s] = state]
              /\ budget' = budget /\ script' = script
            BY <2>4 DEF AgentStarts, AgentCloses, GuardTells
        <3> HIDE DEF R, states
        <3>2. QED
            BY <2>2, <2>3, <3>1
    <2>5. ASSUME NEW s \in Sessions, AgentDies(s)
          PROVE  agent' \in [Sessions -> states] /\ budget' = budget /\ script' = script /\ net' = net
        <3>1. agent' = [agent EXCEPT ![s] = "dead"] /\ "dead" \in states
            BY <2>5 DEF AgentDies
        <3>2. agent' \in [Sessions -> states]
            BY <2>3, <3>1
        <3>3. QED
            BY <2>5, <3>2 DEF AgentDies
    <2>6. ASSUME NEW s \in Sessions, NEW event \in {"beat", "gap"}, AgentBeats(s, event)
          PROVE  agent' = agent /\ budget' \in 0..MaxBeats /\ script' = script /\ net' \subseteq R
        <3>1. SendRequest(s, event) /\ agent' = agent /\ script' = script /\ budget > 0 /\ budget' = budget - 1
            BY <2>6 DEF AgentBeats
        <3>2. budget' \in 0..MaxBeats
            BY <2>1, <3>1, WatchAssumption
        <3>3. event \in {"start", "beat", "gap", "stop", "ended"}
            OBVIOUS
        <3> HIDE DEF R
        <3>4. QED
            BY <2>2, <3>1, <3>2, <3>3
    <2>7. ASSUME NEW hash \in Hashes, EditScript(hash)
          PROVE  agent' = agent /\ budget' = budget /\ script' \in Hashes /\ net' = net
        BY <2>7 DEF EditScript
    <2> HIDE DEF R, states
    <2>8. /\ agent' \in [Sessions -> states]
          /\ budget' \in 0..MaxBeats /\ script' \in Hashes /\ net' \subseteq R
        BY <2>1, <2>4, <2>5, <2>6, <2>7
    <2>9. QED
        BY <2>8 DEF R, states
<1>5. TypeOK'
    BY <1>1, <1>2, <1>4 DEF TypeOK, ServerSame, dbVars, serverVars
<1>6. QED
    BY <1>1, <1>5, ServerSameStep

LEMMA HandleStep ==
    ASSUME IInv, NEW m \in net, Handle(m)
    PROVE  IInv'
<1> DEFINE s == m.session
           known == conn[s]
<1>1. TypeOK /\ ToWrite
    BY DEF IInv, ToWrite
<1>2. todo' \in Seq(Changes) /\ ToWrite'
    BY <1>1, HandleToWrite
<1>3. /\ agent' = agent /\ budget' = budget /\ script' = script /\ faults' = faults
      /\ conn' = conn /\ chain' = chain /\ ahead' = ahead /\ age' = age /\ net' \subseteq net
      /\ up' = up /\ upFor' = upFor
    BY DEF Handle, dbVars, serverVars
<1>4. s \in Sessions
    BY <1>1 DEF TypeOK
<1>5. /\ opened' \in 0..MAX_NEW_SESSIONS /\ gaps' \in [Sessions -> 0..MAX_GAPS]
      /\ edited' \subseteq Sessions
    <2>0. opened \in 0..MAX_NEW_SESSIONS /\ gaps \in [Sessions -> 0..MAX_GAPS] /\ edited \subseteq Sessions
        BY <1>1 DEF TypeOK
    <2>1. CASE Refused(m, known)
        BY <2>0, <2>1 DEF Handle, serverVars
    <2>2. CASE ~Refused(m, known)
        <3>1. opened' \in 0..MAX_NEW_SESSIONS
            <4>1. CASE known.state = "unknown" /\ m.event \notin {"gap", "ended"}
                <5>1. opened' = opened + 1 /\ ~(opened >= MAX_NEW_SESSIONS)
                    BY <2>2, <4>1 DEF Handle, Refused
                <5>2. QED
                    BY <2>0, <5>1, WatchAssumption
            <4>2. CASE ~(known.state = "unknown" /\ m.event \notin {"gap", "ended"})
                <5>1. opened' = opened + 0
                    BY <2>2, <4>2 DEF Handle
                <5>2. QED
                    BY <2>0, <5>1, WatchAssumption
            <4>3. QED
                BY <4>1, <4>2
        <3>2. gaps' \in [Sessions -> 0..MAX_GAPS]
            <4>1. CASE m.event = "gap" /\ MayGap(m, known)
                <5>1. gaps' = [gaps EXCEPT ![s] = @ + 1] /\ gaps[s] < MAX_GAPS
                    BY <2>2, <4>1 DEF Handle, MayGap
                <5>2. gaps[s] + 1 \in 0..MAX_GAPS
                    BY <1>4, <2>0, <5>1, WatchAssumption
                <5>3. QED
                    BY <2>0, <5>1, <5>2
            <4>2. CASE ~(m.event = "gap" /\ MayGap(m, known))
                <5>1. gaps' = [gaps EXCEPT ![s] = @ + 0]
                    BY <2>2, <4>2 DEF Handle
                <5>2. gaps[s] + 0 \in 0..MAX_GAPS
                    BY <1>4, <2>0, WatchAssumption
                <5>3. QED
                    BY <2>0, <5>1, <5>2
            <4>3. QED
                BY <4>1, <4>2
        <3>3. edited' \subseteq Sessions
            BY <1>4, <2>0, <2>2 DEF Handle
        <3>4. QED
            BY <3>1, <3>2, <3>3
    <2>3. QED
        BY <2>1, <2>2
<1>6. TypeOK'
    BY <1>1, <1>2, <1>3, <1>5 DEF TypeOK
<1>7. RowsTell' /\ OneReceiptPerChange' /\ AheadIsBare'
    BY <1>3, SameTells DEF IInv, AheadIsBare
<1>8. QED
    BY <1>2, <1>6, <1>7 DEF IInv, ToWrite

LEMMA SweepStep ==
    ASSUME IInv, Sweep
    PROVE  IInv'
<1>1. TypeOK /\ ToWrite
    BY DEF IInv, ToWrite
<1>2. todo' \in Seq(Changes) /\ ToWrite'
    BY <1>1, SweepToWrite
<1>3. UNCHANGED <<agent, budget, script, net, conn, chain, ahead, age, up, upFor, opened, gaps, edited, faults>>
    BY DEF Sweep, agentVars, dbVars
<1>4. TypeOK'
    BY <1>1, <1>2, <1>3 DEF TypeOK
<1>5. RowsTell' /\ OneReceiptPerChange' /\ AheadIsBare'
    BY <1>3, SameTells DEF IInv, AheadIsBare
<1>6. QED
    BY <1>2, <1>4, <1>5 DEF IInv, ToWrite

LEMMA BeatStep ==
    ASSUME IInv, Beat
    PROVE  IInv'
<1>1. TypeOK /\ ToWrite
    BY DEF IInv, ToWrite
<1>2. /\ todo # <<>> /\ Head(todo).name = "none" /\ Save(Head(todo)) /\ todo' = Tail(todo)
      /\ UNCHANGED <<agent, budget, script, net, chain, ahead, up, upFor, opened, gaps, edited, faults>>
    BY DEF Beat, agentVars
<1>3. /\ todo' \in Seq(Changes) /\ ToWrite'
      /\ conn' \in [Sessions -> Row] /\ age' \in [Sessions -> 0..(LOST_AFTER + 1)]
    BY <1>1, <1>2, SavedToWrite
<1>4. TypeOK'
    BY <1>1, <1>2, <1>3 DEF TypeOK
<1>5. \A s \in Sessions : conn'[s].state = conn[s].state
    <2>1. 1 \in 1..Len(todo) /\ Head(todo) = todo[1]
        BY <1>1, <1>2, EmptySeq DEF TypeOK
    <2>2. Fits(Found(1), todo[1]) /\ Found(1) = conn[todo[1].session].state
        BY <2>1 DEF IInv, WritesFit, Found
    <2>3. todo[1].row.state = conn[todo[1].session].state
        BY <1>2, <2>1, <2>2 DEF Fits, StateNames
    <2>4. conn' = [conn EXCEPT ![todo[1].session] = todo[1].row]
        BY <1>2, <2>1 DEF Save
    <2>5. QED
        BY <1>1, <2>3, <2>4 DEF TypeOK
<1>6. RowsTell' /\ OneReceiptPerChange' /\ AheadIsBare'
    BY <1>2, <1>5, SameTells DEF IInv, AheadIsBare
<1>7. QED
    BY <1>3, <1>4, <1>6 DEF IInv, ToWrite

LEMMA WrittenStep ==
    ASSUME IInv, Written
    PROVE  IInv'
<1>1. TypeOK /\ ToWrite
    BY DEF IInv, ToWrite
<1>2. /\ todo # <<>> /\ Save(Head(todo)) /\ todo' = Tail(todo) /\ ahead' = Nothing
      /\ UNCHANGED <<agent, budget, script, net, up, upFor, opened, gaps, edited, faults>>
    BY DEF Written, agentVars
<1>3. /\ todo' \in Seq(Changes) /\ ToWrite'
      /\ conn' \in [Sessions -> Row] /\ age' \in [Sessions -> 0..(LOST_AFTER + 1)]
    BY <1>1, <1>2, SavedToWrite
<1>4. chain' \in Seq(Receipts) /\ RowsTell' /\ OneReceiptPerChange'
    BY WrittenTells
<1>5. TypeOK'
    BY <1>1, <1>2, <1>3, <1>4 DEF TypeOK
<1>6. QED
    BY <1>2, <1>3, <1>4, <1>5 DEF IInv, ToWrite, AheadIsBare

LEMMA SignedOnlyStep ==
    ASSUME IInv, SignedOnly
    PROVE  IInv'
<1>1. TypeOK
    BY DEF IInv
<1>2. /\ todo # <<>> /\ Head(todo).name # "none" /\ todo' = <<>>
      /\ ahead' = Receipt(Head(todo).session, Head(todo).name, FALSE)
      /\ chain' = Recovered /\ faults < MaxFaults /\ faults' = faults + 1
      /\ UNCHANGED <<agent, budget, script, net, conn, age, up, upFor, opened, gaps, edited>>
    BY DEF SignedOnly, agentVars
<1>3. ahead' \in Receipts /\ ~ahead'.kept
    <2>1. todo \in Seq(Changes)
        BY <1>1 DEF TypeOK
    <2>2. Head(todo) \in Changes
        BY <1>2, <2>1, EmptySeq
    <2>3. QED
        BY <1>2, <2>2 DEF Changes, Receipt, Receipts
<1>4. chain' \in Seq(Receipts) /\ RowsTell' /\ OneReceiptPerChange'
    BY <1>1, <1>2, RecoveredTells DEF IInv
<1>5. faults' \in 0..MaxFaults
    BY <1>1, <1>2, WatchAssumption DEF TypeOK
<1>6. TypeOK'
    BY <1>1, <1>2, <1>3, <1>4, <1>5, EmptySeq DEF TypeOK
<1>7. QED
    BY <1>2, <1>3, <1>4, <1>6, NothingToWrite DEF IInv, ToWrite, AheadIsBare

LEMMA TakeBackStep ==
    ASSUME IInv, TakeBack
    PROVE  IInv'
<1>1. TypeOK /\ ToWrite
    BY DEF IInv, ToWrite
<1>2. /\ chain' = Recovered /\ ahead' = Nothing
      /\ UNCHANGED <<agent, budget, script, net, conn, age, up, upFor, todo, opened, gaps, edited, faults>>
    BY DEF TakeBack, agentVars, serverVars
<1>3. chain' \in Seq(Receipts) /\ RowsTell' /\ OneReceiptPerChange'
    BY <1>1, <1>2, RecoveredTells DEF IInv
<1>4. TypeOK'
    BY <1>1, <1>2, <1>3 DEF TypeOK
<1>5. ToWrite'
    BY <1>1, <1>2, SameToWrite
<1>6. QED
    BY <1>2, <1>3, <1>4, <1>5 DEF IInv, ToWrite, AheadIsBare

(* A failed write and a crash drop the rest; nothing that counts is lost.   *)
LEMMA DropStep ==
    ASSUME IInv, NotSigned \/ Crash
    PROVE  IInv'
<1>1. TypeOK
    BY DEF IInv
<1>2. /\ todo' = <<>> /\ faults < MaxFaults /\ faults' = faults + 1
      /\ UNCHANGED <<agent, budget, script, net, conn, chain, ahead, age, upFor, edited>>
    BY DEF NotSigned, Crash, agentVars, dbVars
<1>3. up' \in BOOLEAN /\ opened' \in 0..MAX_NEW_SESSIONS /\ gaps' \in [Sessions -> 0..MAX_GAPS]
    <2>1. up \in BOOLEAN /\ opened \in 0..MAX_NEW_SESSIONS /\ gaps \in [Sessions -> 0..MAX_GAPS]
        BY <1>1 DEF TypeOK
    <2>2. CASE NotSigned
        BY <2>1, <2>2 DEF NotSigned
    <2>3. CASE Crash
        <3>1. up' = FALSE /\ opened' = 0 /\ gaps' = [s \in Sessions |-> 0]
            BY <2>3 DEF Crash
        <3>2. 0 \in 0..MAX_NEW_SESSIONS /\ 0 \in 0..MAX_GAPS
            BY WatchAssumption
        <3>3. QED
            BY <3>1, <3>2
    <2>4. QED
        BY <2>2, <2>3
<1>4. faults' \in 0..MaxFaults
    BY <1>1, <1>2, WatchAssumption DEF TypeOK
<1>5. TypeOK'
    BY <1>1, <1>2, <1>3, <1>4, EmptySeq DEF TypeOK
<1>6. RowsTell' /\ OneReceiptPerChange' /\ AheadIsBare'
    BY <1>2, SameTells DEF IInv, AheadIsBare
<1>7. QED
    BY <1>2, <1>5, <1>6, NothingToWrite DEF IInv, ToWrite

(* A restart and a tick find nothing left to write. *)
LEMMA RestartStep ==
    ASSUME IInv, DownIsIdle, Restart
    PROVE  IInv'
<1>1. TypeOK
    BY DEF IInv
<1>2. /\ todo' = <<>> /\ up' = TRUE /\ upFor' = 0
      /\ UNCHANGED <<agent, budget, script, net, conn, chain, ahead, age, opened, gaps, edited, faults>>
    BY DEF Restart, agentVars, dbVars, DownIsIdle
<1>3. TypeOK'
    BY <1>1, <1>2, EmptySeq, WatchAssumption DEF TypeOK
<1>4. RowsTell' /\ OneReceiptPerChange' /\ AheadIsBare'
    BY <1>2, SameTells DEF IInv, AheadIsBare
<1>5. QED
    BY <1>2, <1>3, <1>4, NothingToWrite DEF IInv, ToWrite

LEMMA TickStep ==
    ASSUME IInv, Tick
    PROVE  IInv'
<1>1. TypeOK
    BY DEF IInv
<1>2. /\ todo' = <<>>
      /\ UNCHANGED <<agent, budget, script, net, conn, chain, ahead, up, opened, gaps, edited, faults>>
    BY DEF Tick, agentVars
<1>3. \A n \in 0..(LOST_AFTER + 1) : Later(n) \in 0..(LOST_AFTER + 1)
    BY WatchAssumption DEF Later
<1>4. age' \in [Sessions -> 0..(LOST_AFTER + 1)] /\ upFor' \in 0..(LOST_AFTER + 1)
    <2>1. \A s \in Sessions : (IF conn[s].state = "unknown" THEN 0 ELSE Later(age[s])) \in 0..(LOST_AFTER + 1)
        BY <1>1, <1>3, WatchAssumption DEF TypeOK
    <2>2. QED
        BY <1>1, <1>3, <2>1 DEF Tick, TypeOK
<1>5. TypeOK'
    BY <1>1, <1>2, <1>4, EmptySeq DEF TypeOK
<1>6. RowsTell' /\ OneReceiptPerChange' /\ AheadIsBare'
    BY <1>2, SameTells DEF IInv, AheadIsBare
<1>7. QED
    BY <1>2, <1>5, <1>6, NothingToWrite DEF IInv, ToWrite

LEMMA HourStep ==
    ASSUME IInv, HourPasses
    PROVE  IInv'
<1>1. TypeOK /\ ToWrite
    BY DEF IInv, ToWrite
<1>2. UNCHANGED <<agent, budget, script, net, conn, chain, ahead, age, up, upFor, todo, edited, faults>>
    BY DEF HourPasses, agentVars, dbVars
<1>3. opened' \in 0..MAX_NEW_SESSIONS /\ gaps' \in [Sessions -> 0..MAX_GAPS]
    <2>0. opened \in 0..MAX_NEW_SESSIONS /\ gaps \in [Sessions -> 0..MAX_GAPS]
        BY <1>1 DEF TypeOK
    <2>1. CASE opened > 0 /\ opened' = opened - 1 /\ gaps' = gaps
        BY <2>0, <2>1, WatchAssumption
    <2>2. ASSUME NEW s \in Sessions, gaps[s] > 0, gaps' = [gaps EXCEPT ![s] = @ - 1], opened' = opened
          PROVE  gaps' \in [Sessions -> 0..MAX_GAPS]
        <3>1. gaps[s] - 1 \in 0..MAX_GAPS
            BY <2>0, <2>2, WatchAssumption
        <3>2. QED
            BY <2>0, <2>2, <3>1
    <2>3. QED
        BY <2>0, <2>1, <2>2 DEF HourPasses
<1>4. TypeOK'
    BY <1>1, <1>2, <1>3 DEF TypeOK
<1>5. ToWrite'
    BY <1>1, <1>2, SameToWrite
<1>6. RowsTell' /\ OneReceiptPerChange' /\ AheadIsBare'
    BY <1>2, SameTells DEF IInv, AheadIsBare
<1>7. QED
    BY <1>4, <1>5, <1>6 DEF IInv, ToWrite

LEMMA DownStep == DownIsIdle /\ [Next]_vars => DownIsIdle'
<1> SUFFICES ASSUME DownIsIdle, [Next]_vars PROVE DownIsIdle'
    OBVIOUS
<1>1. CASE todo' = todo /\ up' = up
    BY <1>1 DEF DownIsIdle
<1>2. CASE up' \/ todo' = <<>>
    BY <1>2 DEF DownIsIdle
<1>3. ASSUME NEW m \in net, Handle(m) PROVE DownIsIdle'
    BY <1>3 DEF Handle, InTurn, DownIsIdle, serverVars
<1>4. CASE Sweep \/ Beat \/ Written \/ SignedOnly \/ NotSigned
    <2>1. SignedOnly \/ NotSigned => todo' = <<>>
        BY DEF SignedOnly, NotSigned
    <2>2. Sweep => up' /\ up' = up
        BY DEF Sweep, InTurn
    <2>3. Beat \/ Written => todo # <<>> /\ up' = up
        BY DEF Beat, Written
    <2>4. QED
        BY <1>2, <1>4, <2>1, <2>2, <2>3 DEF DownIsIdle
<1>5. CASE Crash \/ Restart \/ TakeBack \/ HourPasses \/ UNCHANGED vars
    BY <1>1, <1>2, <1>5 DEF Crash, Restart, TakeBack, HourPasses, vars, serverVars
<1>6. CASE Tick
    BY <1>6, <1>1 DEF Tick
<1>7. ASSUME NEW s \in Sessions,
             \/ AgentStarts(s) \/ AgentBeats(s, "beat") \/ AgentBeats(s, "gap")
             \/ AgentCloses(s) \/ AgentDies(s) \/ GuardTells(s)
      PROVE  DownIsIdle'
    BY <1>1, <1>7 DEF AgentStarts, AgentBeats, AgentCloses, AgentDies, GuardTells, serverVars
<1>8. ASSUME NEW hash \in Hashes, EditScript(hash) PROVE DownIsIdle'
    BY <1>1, <1>8 DEF EditScript, serverVars
<1>9. QED
    BY <1>3, <1>4, <1>5, <1>6, <1>7, <1>8 DEF Next

LEMMA InvStep == IInv /\ DownIsIdle /\ [Next]_vars => IInv'
<1> SUFFICES ASSUME IInv, DownIsIdle, [Next]_vars PROVE IInv'
    OBVIOUS
<1>1. CASE \/ \E s \in Sessions :
                \/ AgentStarts(s) \/ AgentBeats(s, "beat") \/ AgentBeats(s, "gap")
                \/ AgentCloses(s) \/ AgentDies(s) \/ GuardTells(s)
           \/ \E hash \in Hashes : EditScript(hash)
    BY <1>1, AgentStep
<1>2. ASSUME NEW m \in net, Handle(m) PROVE IInv'
    BY <1>2, HandleStep
<1>3. CASE UNCHANGED vars
    <2>1. ServerSame /\ TypeOK'
        BY <1>3 DEF vars, agentVars, ServerSame, dbVars, serverVars, IInv, TypeOK
    <2>2. QED
        BY <2>1, ServerSameStep
<1>4. QED
    BY <1>1, <1>2, <1>3, SweepStep, BeatStep, WrittenStep, SignedOnlyStep, TakeBackStep, DropStep,
       RestartStep, TickStep, HourStep DEF Next

LEMMA Invariant == Spec => [](IInv /\ DownIsIdle)
<1>1. Init => IInv /\ DownIsIdle
    BY InvInit DEF Init, DownIsIdle
<1>2. IInv /\ DownIsIdle /\ [Next]_vars => (IInv /\ DownIsIdle)'
    BY InvStep, DownStep
<1>3. QED
    BY <1>1, <1>2, PTL DEF Spec

-----------------------------------------------------------------------------
(* What follows from it. *)

(* The tables, the network and the server's memory hold what they may hold. *)
THEOREM TypeCorrect == Spec => []TypeOK
    BY Invariant, PTL DEF IInv

(* Every receipt written with a session's row follows from the one before:  *)
(* no second `lost` for one silence, no `restored` of what was not lost,    *)
(* whatever order requests arrive in and whatever writes fail (watch.ts,    *)
(* serially).                                                               *)
THEOREM ReceiptsFollowOneAnother == Spec => []OneReceiptPerChange
    BY Invariant, PTL DEF IInv

LEMMA LossStep ==
    ASSUME IInv, [Next]_vars, NEW s \in Sessions,
           Len(chain') > Len(chain), Last(chain') = Receipt(s, "lost", TRUE)
    PROVE  age[s] > LOST_AFTER /\ upFor > LOST_AFTER
<1>1. chain \in Seq(Receipts) /\ Len(chain) \in Nat /\ TypeOK
    BY DEF IInv, TypeOK
<1>2. CASE Written
    <2> DEFINE w == Head(todo)
               receipt == Receipt(w.session, w.name, TRUE)
    <2>1. chain' = Append(Recovered, receipt)
        BY <1>2 DEF Written
    <2>2. w \in Changes /\ w = todo[1] /\ 1 \in 1..Len(todo) /\ w.name # "none"
        BY <1>1, <1>2, EmptySeq, ElementOfSeq DEF Written, TypeOK
    <2>3. Recovered \in Seq(Receipts)
        BY <1>1, AppendProperties DEF Recovered, TypeOK
    <2>4. receipt \in Receipts
        BY <2>2 DEF Receipt, Receipts, Changes
    <2>5. Last(chain') = receipt
        <3> HIDE DEF receipt
        <3>1. Len(chain') = Len(Recovered) + 1 /\ chain'[Len(Recovered) + 1] = receipt
            BY <2>1, <2>3, <2>4, AppendProperties
        <3>2. QED
            BY <3>1 DEF Last
    <2>6. w.name = "lost" /\ w.session = s
        BY <2>5 DEF Receipt
    <2>7. QED
        BY <2>2, <2>6 DEF IInv, LossesStand
<1>3. CASE SignedOnly \/ TakeBack
    <2>1. chain' = Recovered
        BY <1>3 DEF SignedOnly, TakeBack
    <2>2. ahead # Nothing
        BY <1>1, <2>1 DEF Recovered
    <2>3. ahead \in Receipts /\ ~ahead.kept /\ chain' = Append(chain, ahead)
        BY <1>1, <2>1, <2>2 DEF Recovered, IInv, AheadIsBare, TypeOK
    <2>4. Last(chain') = ahead
        <3>1. Len(chain') = Len(chain) + 1 /\ chain'[Len(chain) + 1] = ahead
            BY <1>1, <2>3, AppendProperties
        <3>2. QED
            BY <3>1 DEF Last
    <2>5. QED
        BY <2>3, <2>4 DEF Receipt
<1>4. CASE chain' = chain
    BY <1>1, <1>4
<1>5. Written \/ SignedOnly \/ TakeBack \/ chain' = chain
    BY DEF Next, vars, dbVars, AgentStarts, AgentBeats, AgentCloses, AgentDies, GuardTells, EditScript,
           Handle, Sweep, Beat, NotSigned, Crash, Restart, Tick, HourPasses
<1>6. QED
    BY <1>2, <1>3, <1>4, <1>5

(* A loss is written only of a session that has been silent for longer than *)
(* the allowance, by a server that has been up for as long (watch.ts        *)
(* sweep): beats, failed writes and restarts in between included.           *)
THEOREM LossesHaveTheirTime == Spec => LostAfterTheAllowance
<1>1. IInv /\ [Next]_vars =>
        \A s \in Sessions :
            Len(chain') > Len(chain) /\ Last(chain') = Receipt(s, "lost", TRUE) =>
                age[s] > LOST_AFTER /\ upFor > LOST_AFTER
    BY LossStep
<1>2. QED
    BY <1>1, Invariant, PTL DEF Spec, LostAfterTheAllowance

=============================================================================
