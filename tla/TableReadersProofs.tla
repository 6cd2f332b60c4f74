------------------------- MODULE TableReadersProofs -------------------------
(***************************************************************************)
(* Proofs about TableReaders, for every set of accounts and files, every   *)
(* size of a page and every bound.                                         *)
(*                                                                         *)
(* What is shown is right because of what the table of the bookings        *)
(* remembers of its own request: whether it is out, whether it has been    *)
(* overtaken, and where the next page starts.  The invariant says what a   *)
(* run that is out has to agree with (RunFits), what the rows say by       *)
(* themselves (Shape), that nothing overtaken is left alone (Going), and,  *)
(* as long as no refresh is owed, how the rows stand to the file (Fresh).  *)
(* The tree is right because a result finds its connections only while a   *)
(* read of the accounts is awaited (Connected), and because whatever       *)
(* changes the accounts is followed by such a read (TreeFits).             *)
(***************************************************************************)
EXTENDS TableReaders, TLAPS, SequenceTheorems

Choices == Accounts \cup {NoAccount}
Orders == {"newest", "oldest"}

ReadRuns ==
  [stage : {"started", "working", "ended"}, by : Readers, account : Choices,
   order : Orders, offset : Nat, on : Files, since : Nat,
   kind : {"failed", "notfound", "result"}, items : Seq(Bookings),
   shown : SUBSET Accounts, count : Nat, counted : BOOLEAN]

Types ==
  /\ file \in Files \cup {NoFile} /\ generation \in 0..MaxGeneration
  /\ holding \in [Accounts -> 0..MaxBookings]
  /\ written \in {"shown", "storing", "untold"}
  /\ read \in ReadRuns \cup {NoRead}
  /\ telling \in [kind : {"result", "failed", "silent"}, by : Readers, on : Files]
                 \cup {Quiet}
  /\ toHear \in SUBSET Readers /\ slot \in {"none", "restore", "opening"}
  /\ banking \in BOOLEAN /\ active \in SUBSET Accounts /\ tree \in SUBSET Accounts
  /\ account \in Choices /\ order \in Orders
  /\ tx \in TxTable /\ so \in SoTable
  /\ app \in [reading : BOOLEAN, chosen : Choices]
  /\ dialog \in BOOLEAN /\ due \in BOOLEAN
  /\ acts \in 0..MaxActs /\ setups \in 0..MaxSetups

(* Whose run is out; to whom its end is still to be told.                  *)
Out(r, c) == r # NoRead /\ r.by = c
Told(c) == c \in toHear /\ telling.by = c

(* Whoever holds a run of his own for under way is right.                  *)
Owned ==
  /\ tx.pending <=> Out(read, "tx") \/ Told("tx")
  /\ so.pending <=> Out(read, "so") \/ Told("so")
  /\ app.reading <=> Out(read, "app") \/ Told("app")
  /\ dialog <=> Out(read, "dialog") \/ Told("dialog")

(* The turn of the owner thread: the table of the bookings hears an end    *)
(* before anything new is asked for.                                       *)
Turn ==
  /\ toHear = {} <=> telling = Quiet
  /\ "tx" \in toHear => read = NoRead
  /\ read # NoRead => read.by \notin toHear
  /\ slot = "restore" => toHear \subseteq {"dialog"}
  /\ slot = "opening" =>
       toHear = {} /\ file # NoFile /\ ~banking /\ generation < MaxGeneration

(* The connection and the second page of the window.                       *)
Session ==
  /\ file # NoFile => banking \/ slot = "opening"
  /\ account # NoAccount => banking
  /\ tree # {} => banking
  /\ read # NoRead => /\ read.since <= generation
                      /\ read.since = generation => read.on = file

(* What a run of the table of the bookings may come back with.             *)
ItemsFit(r) ==
  Out(r, "tx") =>
    /\ r.account \in Accounts
    /\ r.kind # "failed" =>
         /\ r.stage = "ended"
         /\ \E n \in 0..MaxBookings :
              r.items = WindowOf(r.account, r.order, n, r.offset)
         /\ r.kind = "result" <=> r.items # <<>>

(* A run of the table that has not been overtaken is the one its header    *)
(* and its rows call for.                                                  *)
RunFits(m, a, o, r, f, g) ==
  Out(r, "tx") /\ ~m.stale =>
    /\ r.account = a /\ r.order = o /\ r.offset = m.loaded
    /\ ~m.atEnd
    /\ r.since = g \/ f = NoFile

(* The table of the bookings by itself.                                    *)
Shape(m, a, o) ==
  /\ m.queued => m.pending /\ m.stale
  /\ m.pending => ~m.deferred
  /\ m.pending /\ m.stale => m.loaded = 0 /\ ~m.atEnd
  /\ m.deferred => ~m.atEnd
  /\ m.previous => m.loaded = 0
  /\ ~m.previous => Len(m.rows) = m.loaded
  /\ a = NoAccount => m.rows = <<>> /\ ~m.previous
  /\ m.loaded > 0 /\ ~m.atEnd => m.loaded >= PageSize
  /\ ~m.previous => \A i \in 1..m.loaded :
                      m.rows[i].of = a /\ (o = "oldest" => m.rows[i].number = i)
  /\ ~m.previous /\ o = "newest" /\ m.loaded <= PageSize =>
       \A i \in 2..m.loaded : m.rows[i].number < m.rows[i - 1].number

(* Nothing that has been overtaken, and nothing that is to be replaced, is *)
(* left without a request.                                                 *)
Going(m, a) ==
  /\ m.pending /\ m.stale /\ a # NoAccount => m.queued
  /\ m.previous => m.pending \/ m.deferred

(* No refresh is owed, and the file that is open holds the chosen account. *)
Current ==
  /\ account # NoAccount /\ file = HomeOf[account]
  /\ written = "shown" /\ ~due /\ ~app.reading /\ slot # "restore"

(* The rows against the n bookings the file holds of a.                    *)
RowsAgree(m, a, o, n) ==
  /\ m.loaded <= n
  /\ ~m.previous => \A i \in 1..m.loaded :
                      m.rows[i] = Booking(a, IF o = "newest" THEN n + 1 - i ELSE i)
  /\ m.total \in {0, n}

(* They do, the end is the end, and the first page is there or asked for.  *)
Fresh(m, a, o, r, n) ==
  /\ RowsAgree(m, a, o, n)
  /\ m.atEnd => m.loaded = n
  /\ \/ m.failed \/ m.loaded > 0 \/ m.atEnd \/ m.deferred
     \/ m.pending /\ (m.stale \/ Out(r, "tx"))
  /\ Out(r, "tx") /\ ~m.stale =>
       /\ r.kind # "failed" => r.items = WindowOf(a, o, n, m.loaded)
       /\ r.counted => r.count = n

TableFits == /\ Shape(tx, account, order) /\ Going(tx, account)
             /\ RunFits(tx, account, order, read, file, generation)
             /\ ItemsFit(read)

FreshIfCurrent ==
  Current => Fresh(tx, account, order, read, holding[account])

(* The table of the standing orders: its rows, and those a run of its own  *)
(* that has not been overtaken comes with, are of the account it is set to.*)
SoFits(s, a, r) ==
  /\ s.rows \in {a, NoAccount}
  /\ Out(r, "so") /\ ~s.stale => r.account = a

OrdersFit == SoFits(so, account, read)

IInv == /\ Types /\ Owned /\ Turn /\ Session
        /\ TableFits /\ FreshIfCurrent /\ OrdersFit

(* The single shot connections: whose run is out has its own, and whoever  *)
(* has one waits for an end.                                               *)
Connected ==
  /\ takers \in SUBSET {"app", "dialog"} /\ unread \in BOOLEAN
  /\ "app" \in takers => app.reading
  /\ "dialog" \in takers => dialog
  /\ Out(read, "app") => "app" \in takers
  /\ Out(read, "dialog") => "dialog" \in takers

-----------------------------------------------------------------------------
(* The holding in one order is a sequence of bookings of the account.      *)
LEMMA HoldingInOrder ==
  ASSUME NEW a \in Accounts, NEW o \in Orders, NEW n \in 0..MaxBookings
  PROVE  /\ InOrder(a, o, n) \in Seq(Bookings)
         /\ Len(InOrder(a, o, n)) = n
         /\ \A i \in 1..n :
              InOrder(a, o, n)[i] = Booking(a, IF o = "newest" THEN n + 1 - i ELSE i)
<1> DEFINE e(i) == Booking(a, IF o = "newest" THEN n + 1 - i ELSE i)
<1>1. n \in Nat /\ MaxBookings \in Nat
  BY ReadersAssumption
<1>2. \A i \in 1..n : e(i) \in Bookings
  <2> TAKE i \in 1..n
  <2>1. (IF o = "newest" THEN n + 1 - i ELSE i) \in 1..MaxBookings
    BY <1>1
  <2>2. QED BY <2>1 DEF Booking, Bookings
<1>3. InOrder(a, o, n) = [i \in 1..n |-> e(i)]
  BY DEF InOrder
<1>4. InOrder(a, o, n) \in [1..n -> Bookings]
  <2> HIDE DEF e
  <2> QED BY <1>2, <1>3
<1>5. InOrder(a, o, n) \in Seq(Bookings)
  BY <1>1, <1>4, SeqDef
<1>6. Len(InOrder(a, o, n)) = n
  BY <1>1, <1>4, <1>5, LenProperties
<1>7. QED BY <1>3, <1>5, <1>6

(* A window of a holding: as long as a page allows and as what is left     *)
(* behind the offset, and its bookings are the ones of the holding there.  *)
LEMMA WindowOfHolding ==
  ASSUME NEW a \in Accounts, NEW o \in Orders, NEW n \in 0..MaxBookings, NEW k \in Nat
  PROVE  /\ WindowOf(a, o, n, k) \in Seq(Bookings)
         /\ Len(WindowOf(a, o, n, k)) =
              IF n <= k THEN 0 ELSE IF k + PageSize < n THEN PageSize ELSE n - k
         /\ \A i \in 1..Len(WindowOf(a, o, n, k)) :
              WindowOf(a, o, n, k)[i]
                = Booking(a, IF o = "newest" THEN n + 1 - (k + i) ELSE k + i)
<1> DEFINE h == InOrder(a, o, n)
           last == IF k + PageSize < n THEN k + PageSize ELSE n
<1>1. n \in Nat /\ PageSize \in Nat \ {0}
  BY ReadersAssumption
<1>2. /\ h \in Seq(Bookings) /\ Len(h) = n
      /\ \A i \in 1..n : h[i] = Booking(a, IF o = "newest" THEN n + 1 - i ELSE i)
  BY HoldingInOrder
<1>3. k + 1 \in Int /\ last \in Int /\ last <= n
  BY <1>1
<1>4. \A i \in (k + 1)..last : i \in 1..n /\ h[i] \in Bookings
  <2> TAKE i \in (k + 1)..last
  <2>1. i \in 1..n
    BY <1>1, <1>3
  <2> HIDE DEF h
  <2>2. QED BY <2>1, <1>2, ElementOfSeq
<1>5. WindowOf(a, o, n, k) = SubSeq(h, k + 1, last)
  BY DEF WindowOf
<1> HIDE DEF h
<1>6. /\ SubSeq(h, k + 1, last) \in Seq(Bookings)
      /\ Len(SubSeq(h, k + 1, last)) =
           IF k + 1 <= last THEN last - (k + 1) + 1 ELSE 0
      /\ \A i \in 1..(last - (k + 1) + 1) :
           SubSeq(h, k + 1, last)[i] = h[k + 1 + i - 1]
  <2> HIDE DEF last
  <2> QED BY <1>3, <1>4, SubSeqProperties
<1>7. Len(WindowOf(a, o, n, k)) =
        IF n <= k THEN 0 ELSE IF k + PageSize < n THEN PageSize ELSE n - k
  BY <1>1, <1>5, <1>6
<1>8. ASSUME NEW i \in 1..Len(WindowOf(a, o, n, k))
      PROVE  WindowOf(a, o, n, k)[i]
                = Booking(a, IF o = "newest" THEN n + 1 - (k + i) ELSE k + i)
  <2>1. i \in 1..(last - (k + 1) + 1) /\ k + 1 + i - 1 = k + i /\ k + i \in 1..n
    BY <1>1, <1>7
  <2>2. WindowOf(a, o, n, k)[i] = h[k + i]
    BY <2>1, <1>5, <1>6
  <2>3. QED BY <2>1, <2>2, <1>2
<1>9. QED BY <1>5, <1>6, <1>7, <1>8

-----------------------------------------------------------------------------
(* The fields of the table after the steps its operations are made of.     *)

LEMMA StartedOver ==
  ASSUME NEW m \in TxTable, NEW keep \in BOOLEAN
  PROVE  LET t == TxStartOver(m, keep)
         IN  /\ t \in TxTable
             /\ t.pending = m.pending /\ t.stale = m.pending
             /\ t.queued = m.queued /\ t.deferred = m.deferred
             /\ t.loaded = 0 /\ ~t.atEnd /\ ~t.failed
             /\ t.previous => keep /\ t.rows = m.rows /\ t.rows # <<>> /\ t.total = m.total
             /\ ~t.previous => t.rows = <<>> /\ t.total = 0
<1> DEFINE t == TxStartOver(m, keep)
           kept == keep /\ m.rows # <<>>
           rows == IF kept THEN m.rows ELSE <<>>
           total == IF kept THEN m.total ELSE 0
<1>1. t = [m EXCEPT !.stale = m.pending, !.previous = kept, !.rows = rows,
                    !.total = total, !.loaded = 0, !.atEnd = FALSE, !.failed = FALSE]
  BY SMT DEF TxStartOver, TxTable
<1>2. /\ m.rows \in Seq(Bookings) /\ m.total \in Nat /\ m.pending \in BOOLEAN
      /\ kept \in BOOLEAN
  BY DEF TxTable
<1>3. rows \in Seq(Bookings) /\ total \in Nat
  BY <1>2, EmptySeq
<1>4. t \in TxTable
  <2> HIDE DEF t, kept, rows, total
  <2> QED BY <1>1, <1>2, <1>3, Zenon DEF TxTable
<1>5. /\ t.pending = m.pending /\ t.stale = m.pending
      /\ t.queued = m.queued /\ t.deferred = m.deferred
      /\ t.loaded = 0 /\ ~t.atEnd /\ ~t.failed
      /\ t.rows = rows /\ t.total = total /\ t.previous = kept
  <2> HIDE DEF t, kept, rows, total
  <2> QED BY <1>1, <1>2, SMT DEF TxTable
<1>6. QED
  <2> HIDE DEF t
  <2> QED BY <1>2, <1>4, <1>5 DEF t

LEMMA PreviousDropped ==
  ASSUME NEW m \in TxTable
  PROVE  LET t == TxDropPrevious(m)
         IN  /\ t \in TxTable /\ ~t.previous
             /\ t.pending = m.pending /\ t.queued = m.queued /\ t.deferred = m.deferred
             /\ t.stale = m.stale /\ t.failed = m.failed
             /\ t.loaded = m.loaded /\ t.atEnd = m.atEnd
             /\ m.previous => t.rows = <<>> /\ t.total = 0
             /\ ~m.previous => t.rows = m.rows /\ t.total = m.total
<1>1. m.previous \in BOOLEAN
  BY DEF TxTable
<1>2. CASE ~m.previous
  BY <1>2 DEF TxDropPrevious
<1>3. CASE m.previous
  <2> DEFINE t == TxDropPrevious(m)
             none == <<>>
  <2>1. t = [m EXCEPT !.previous = FALSE, !.rows = none, !.total = 0]
    BY <1>3 DEF TxDropPrevious
  <2>2. none \in Seq(Bookings)
    BY EmptySeq
  <2> HIDE DEF t, none
  <2>3. t \in TxTable
    BY <2>1, <2>2, Zenon DEF TxTable
  <2>4. /\ ~t.previous /\ t.rows = none /\ t.total = 0
        /\ t.pending = m.pending /\ t.queued = m.queued /\ t.deferred = m.deferred
        /\ t.stale = m.stale /\ t.failed = m.failed
        /\ t.loaded = m.loaded /\ t.atEnd = m.atEnd
    BY <2>1, SMT DEF TxTable
  <2>5. QED BY <1>3, <2>3, <2>4 DEF t, none
<1>4. QED BY <1>1, <1>2, <1>3

LEMMA Requested ==
  ASSUME NEW m \in TxTable, NEW a \in Accounts, ~m.pending,
         NEW v \in {"started", "busy", "refused"}
  PROVE  LET q == TxRequest(m, a, v)
         IN  /\ q \in TxTable
             /\ ~q.queued /\ ~q.stale
             /\ q.pending <=> v = "started"
             /\ q.deferred <=> v = "busy"
             /\ v = "refused" => q.failed /\ ~q.previous
             /\ q.loaded = m.loaded /\ q.atEnd = m.atEnd
             /\ q.previous => m.previous
             /\ (q.previous <=> m.previous) => q.rows = m.rows /\ q.total = m.total
             /\ m.previous /\ ~q.previous => q.rows = <<>> /\ q.total = 0
<1> DEFINE asked == [m EXCEPT !.queued = FALSE, !.deferred = FALSE, !.stale = FALSE]
           q == TxRequest(m, a, v)
<1>1. asked \in TxTable
  BY Zenon DEF TxTable
<1>2. /\ ~asked.queued /\ ~asked.deferred /\ ~asked.stale /\ ~asked.pending
      /\ asked.loaded = m.loaded /\ asked.atEnd = m.atEnd /\ asked.previous = m.previous
      /\ asked.rows = m.rows /\ asked.total = m.total
  BY SMT DEF TxTable
<1>3. q = CASE v = "started" -> [asked EXCEPT !.pending = TRUE]
            [] v = "busy" -> [asked EXCEPT !.deferred = TRUE]
            [] v = "refused" -> TxDropPrevious([asked EXCEPT !.failed = TRUE])
  BY ReadersAssumption DEF TxRequest
<1> HIDE DEF asked, q
<1>4. CASE v = "started"
  <2>1. q = [asked EXCEPT !.pending = TRUE]
    BY <1>3, <1>4
  <2>2. q \in TxTable
    BY <1>1, <2>1, Zenon DEF TxTable
  <2>3. QED BY <1>1, <1>2, <1>4, <2>1, <2>2 DEF TxTable, q
<1>5. CASE v = "busy"
  <2>1. q = [asked EXCEPT !.deferred = TRUE]
    BY <1>3, <1>5
  <2>2. q \in TxTable
    BY <1>1, <2>1, Zenon DEF TxTable
  <2>3. QED BY <1>1, <1>2, <1>5, <2>1, <2>2 DEF TxTable, q
<1>6. CASE v = "refused"
  <2> DEFINE d == [asked EXCEPT !.failed = TRUE]
  <2>1. q = TxDropPrevious(d)
    BY <1>3, <1>6
  <2>2. d \in TxTable
    BY <1>1, Zenon DEF TxTable
  <2>3. /\ d.failed /\ ~d.queued /\ ~d.stale /\ ~d.pending /\ ~d.deferred
        /\ d.loaded = m.loaded /\ d.atEnd = m.atEnd /\ d.previous = m.previous
        /\ d.rows = m.rows /\ d.total = m.total
    BY <1>1, <1>2 DEF TxTable
  <2> HIDE DEF d
  <2>4. m.previous \in BOOLEAN
    BY DEF TxTable
  <2>5. /\ q \in TxTable /\ ~q.previous
        /\ q.failed = d.failed /\ q.queued = d.queued /\ q.stale = d.stale
        /\ q.pending = d.pending /\ q.deferred = d.deferred
        /\ q.loaded = d.loaded /\ q.atEnd = d.atEnd
        /\ d.previous => q.rows = <<>> /\ q.total = 0
        /\ ~d.previous => q.rows = d.rows /\ q.total = d.total
    BY <2>1, <2>2, PreviousDropped
  <2>6. QED BY <1>6, <2>3, <2>4, <2>5 DEF q
<1>7. QED BY <1>4, <1>5, <1>6

-----------------------------------------------------------------------------
(* Starting over puts the table in order for any account and order: what   *)
(* it keeps are the rows of before, and only until they are replaced.      *)
LEMMA StartOverFits ==
  ASSUME NEW m \in TxTable, NEW b \in Choices, NEW p \in Orders,
         NEW a \in Choices, NEW o \in Orders, NEW keep \in BOOLEAN,
         Shape(m, b, p), keep => a = b
  PROVE  LET t == TxStartOver(m, keep)
         IN  /\ t \in TxTable /\ Shape(t, a, o)
             /\ t.pending = m.pending /\ t.stale = m.pending /\ t.loaded = 0 /\ ~t.atEnd
             /\ \A n \in Nat : (keep => m.total \in {0, n}) => RowsAgree(t, a, o, n)
<1> DEFINE t == TxStartOver(m, keep)
<1>1. /\ t \in TxTable
      /\ t.pending = m.pending /\ t.stale = m.pending
      /\ t.queued = m.queued /\ t.deferred = m.deferred
      /\ t.loaded = 0 /\ ~t.atEnd /\ ~t.failed
      /\ t.previous => keep /\ t.rows = m.rows /\ t.rows # <<>> /\ t.total = m.total
      /\ ~t.previous => t.rows = <<>> /\ t.total = 0
  BY StartedOver
<1> HIDE DEF t
<1>2. Len(<<>>) = 0 /\ PageSize \in Nat \ {0}
  BY ReadersAssumption
<1>3. a = NoAccount => t.rows = <<>> /\ ~t.previous
  BY <1>1 DEF Shape
<1>4. Shape(t, a, o)
  BY <1>1, <1>2, <1>3 DEF Shape
<1>5. ASSUME NEW n \in Nat, keep => m.total \in {0, n}
      PROVE  RowsAgree(t, a, o, n)
  BY <1>1, <1>5 DEF RowsAgree
<1>6. QED BY <1>1, <1>4, <1>5 DEF t

(* A request leaves a table in order with a run that fits it, with a       *)
(* request that is queued or put off, or with the failure on display.      *)
LEMMA RequestFits ==
  ASSUME NEW m \in TxTable, NEW a \in Choices, NEW o \in Orders,
         NEW r \in ReadRuns \cup {NoRead}, NEW v \in Answers(r),
         file \in Files \cup {NoFile}, generation \in Nat,
         Shape(m, a, o), ~m.atEnd, m.pending => m.stale,
         m.pending <=> Out(r, "tx"), ItemsFit(r)
  PROVE  LET q == TxRequest(m, a, v)
             z == After(r, "tx", Calls(m, a), v, a, o, m.loaded)
         IN  /\ q \in TxTable /\ Shape(q, a, o) /\ Going(q, a)
             /\ RunFits(q, a, o, z, file, generation) /\ ItemsFit(z)
             /\ q.pending <=> Out(z, "tx")
             /\ z \in ReadRuns \cup {NoRead}
             /\ \/ z = r
                \/ r = NoRead /\ file # NoFile /\ z = Started("tx", a, o, m.loaded)
             /\ a # NoAccount =>
                  \A n \in Nat : RowsAgree(m, a, o, n) => Fresh(q, a, o, z, n)
<1> DEFINE q == TxRequest(m, a, v)
           z == After(r, "tx", Calls(m, a), v, a, o, m.loaded)
<1>1. /\ v \in {"started", "busy", "refused"}
      /\ v = "started" => r = NoRead /\ file # NoFile
  BY DEF Answers
<1>2. CASE a = NoAccount
  <2>1. q = m /\ z = r
    BY <1>2 DEF TxRequest, After, Calls
  <2>2. ~m.previous
    BY <1>2 DEF Shape
  <2>3. Going(m, a) /\ RunFits(m, a, o, r, file, generation)
    BY <1>2, <2>2 DEF Going, RunFits
  <2>4. QED BY <1>2, <2>1, <2>3
<1>3. CASE a # NoAccount /\ m.pending
  <2>1. z = r
    BY <1>3 DEF After, Calls
  <2>2. q = [m EXCEPT !.queued = TRUE]
    BY <1>3 DEF TxRequest
  <2>3. q \in TxTable
    BY <2>2, Zenon DEF TxTable
  <2>4. /\ q.queued /\ q.pending = m.pending /\ q.deferred = m.deferred
        /\ q.stale = m.stale /\ q.failed = m.failed /\ q.previous = m.previous
        /\ q.rows = m.rows /\ q.loaded = m.loaded /\ q.total = m.total
        /\ q.atEnd = m.atEnd
    BY <2>2, SMT DEF TxTable
  <2> HIDE DEF q, z
  <2>5. Shape(q, a, o) /\ Going(q, a) /\ RunFits(q, a, o, r, file, generation)
    BY <1>3, <2>4 DEF Shape, Going, RunFits
  <2>6. ASSUME NEW n \in Nat, RowsAgree(m, a, o, n)
        PROVE  Fresh(q, a, o, r, n)
    BY <1>3, <2>4, <2>6 DEF RowsAgree, Fresh
  <2>7. QED BY <1>3, <2>1, <2>3, <2>4, <2>5, <2>6 DEF q, z
<1>4. CASE a # NoAccount /\ ~m.pending
  <2>1. a \in Accounts /\ Calls(m, a)
    BY <1>4 DEF Choices, Calls
  <2>2. /\ q \in TxTable
        /\ ~q.queued /\ ~q.stale
        /\ q.pending <=> v = "started"
        /\ q.deferred <=> v = "busy"
        /\ v = "refused" => q.failed /\ ~q.previous
        /\ q.loaded = m.loaded /\ q.atEnd = m.atEnd
        /\ q.previous => m.previous
        /\ (q.previous <=> m.previous) => q.rows = m.rows /\ q.total = m.total
        /\ m.previous /\ ~q.previous => q.rows = <<>> /\ q.total = 0
    BY <1>1, <1>4, <2>1, Requested
  <2>3. z = IF v = "started" THEN Started("tx", a, o, m.loaded) ELSE r
    BY <2>1 DEF After
  <2>4. ~Out(r, "tx")
    BY <1>4
  <2> DEFINE y == Started("tx", a, o, m.loaded)
  <2>5. file # NoFile =>
          /\ y \in ReadRuns /\ y # NoRead
          /\ y.by = "tx" /\ y.account = a /\ y.order = o /\ y.offset = m.loaded
          /\ y.since = generation /\ y.kind = "failed" /\ ~y.counted
    <3>1. m.loaded \in Nat /\ <<>> \in Seq(Bookings)
      BY EmptySeq DEF TxTable
    <3>2. QED BY <3>1, <2>1 DEF Started, ReadRuns, NoRead, Readers, Orders, Choices
  <2>6. z \in ReadRuns \cup {NoRead} /\ (Out(z, "tx") <=> v = "started")
    <3> HIDE DEF y, z
    <3> QED BY <1>1, <2>3, <2>4, <2>5 DEF y, Out
  <2>7. Len(<<>>) = 0
    OBVIOUS
  <2>8. Shape(q, a, o)
    <3> HIDE DEF q
    <3> QED BY <1>1, <1>4, <2>1, <2>2, <2>7 DEF Shape
  <2>9. Going(q, a)
    <3> HIDE DEF q
    <3> QED BY <1>1, <2>2 DEF Going
  <2>10. RunFits(q, a, o, z, file, generation)
    <3> HIDE DEF q, y, z
    <3> QED BY <1>1, <2>2, <2>3, <2>5, <2>6 DEF RunFits, y
  <2>11. ItemsFit(z)
    <3> HIDE DEF y, z
    <3> QED BY <1>1, <2>1, <2>3, <2>5 DEF ItemsFit, y
  <2>12. ASSUME NEW n \in Nat, RowsAgree(m, a, o, n)
         PROVE  Fresh(q, a, o, z, n)
    <3>1. RowsAgree(q, a, o, n)
      <4> HIDE DEF q
      <4>1. ~q.previous => m.loaded = 0 \/ (~m.previous /\ q.rows = m.rows)
        BY <2>2 DEF Shape
      <4>2. q.total \in {0, n}
        BY <2>2, <2>12 DEF RowsAgree
      <4>3. QED BY <2>2, <2>12, <4>1, <4>2 DEF RowsAgree
    <3>2. (z.kind = "failed" /\ ~z.counted) \/ ~Out(z, "tx")
      <4> HIDE DEF y, z
      <4> QED BY <1>1, <2>3, <2>5, <2>6 DEF y
    <3>3. q.failed \/ q.deferred \/ (q.pending /\ Out(z, "tx"))
      <4> HIDE DEF q, z
      <4> QED BY <1>1, <2>2, <2>6
    <3> HIDE DEF q, z
    <3>4. QED BY <2>2, <3>1, <3>2, <3>3 DEF Fresh
  <2>13. \/ z = r
         \/ r = NoRead /\ file # NoFile /\ z = Started("tx", a, o, m.loaded)
    BY <1>1, <2>3
  <2> HIDE DEF q, z
  <2>14. QED BY <2>2, <2>6, <2>8, <2>9, <2>10, <2>11, <2>12, <2>13 DEF q, z
<1>5. QED BY <1>2, <1>3, <1>4

-----------------------------------------------------------------------------
(* The rows once a page has come.                                          *)
RowsAfter(m, w) == IF m.previous THEN w ELSE m.rows \o w

(* A page that is not empty goes on where the rows ended.                  *)
LEMMA PageTaken ==
  ASSUME NEW m \in TxTable, NEW a \in Accounts, NEW o \in Orders,
         NEW k \in 0..MaxBookings, WindowOf(a, o, k, m.loaded) # <<>>,
         m.previous => m.loaded = 0, ~m.previous => Len(m.rows) = m.loaded
  PROVE  LET w == WindowOf(a, o, k, m.loaded)
             rows == RowsAfter(m, w)
         IN  /\ rows \in Seq(Bookings) /\ Len(w) \in 1..PageSize
             /\ Len(rows) = m.loaded + Len(w)
             /\ Len(w) = IF m.loaded + PageSize < k THEN PageSize ELSE k - m.loaded
             /\ \A i \in 1..m.loaded : ~m.previous /\ rows[i] = m.rows[i]
             /\ \A i \in (m.loaded + 1)..(m.loaded + Len(w)) :
                  rows[i] = Booking(a, IF o = "newest" THEN k + 1 - i ELSE i)
<1> DEFINE l == m.loaded
           w == WindowOf(a, o, k, m.loaded)
           rows == RowsAfter(m, w)
<1>1. l \in Nat /\ m.rows \in Seq(Bookings) /\ k \in Nat /\ PageSize \in Nat \ {0}
  BY ReadersAssumption DEF TxTable
<1>2. /\ w \in Seq(Bookings)
      /\ Len(w) = IF k <= l THEN 0 ELSE IF l + PageSize < k THEN PageSize ELSE k - l
      /\ \A i \in 1..Len(w) :
           w[i] = Booking(a, IF o = "newest" THEN k + 1 - (l + i) ELSE l + i)
  BY <1>1, WindowOfHolding
<1>3. Len(w) \in Nat \ {0}
  BY <1>2, EmptySeq
<1> HIDE DEF w
<1>4. Len(w) = (IF l + PageSize < k THEN PageSize ELSE k - l) /\ Len(w) \in 1..PageSize
  BY <1>1, <1>2, <1>3
<1>5. CASE m.previous
  <2>1. rows = w /\ l = 0
    BY <1>5 DEF RowsAfter
  <2>2. ASSUME NEW i \in (l + 1)..(l + Len(w))
        PROVE  rows[i] = Booking(a, IF o = "newest" THEN k + 1 - i ELSE i)
    <3> HIDE DEF rows, l
    <3>1. i \in 1..Len(w) /\ k + 1 - (l + i) = k + 1 - i /\ l + i = i
      BY <1>1, <1>3, <2>1
    <3>2. QED BY <3>1, <2>1, <1>2
  <2>3. Len(rows) = l + Len(w) /\ 1..l = {}
    BY <1>3, <2>1
  <2>4. \A i \in 1..l : ~m.previous /\ rows[i] = m.rows[i]
    BY <2>3
  <2>5. rows \in Seq(Bookings)
    BY <1>2, <2>1
  <2> HIDE DEF rows
  <2>6. QED BY <1>4, <2>2, <2>3, <2>4, <2>5 DEF rows, w
<1>6. CASE ~m.previous
  <2>1. rows = m.rows \o w /\ Len(m.rows) = l
    BY <1>6 DEF RowsAfter
  <2>2. /\ rows \in Seq(Bookings)
        /\ Len(rows) = l + Len(w)
        /\ \A i \in 1..(l + Len(w)) :
             rows[i] = IF i <= l THEN m.rows[i] ELSE w[i - l]
    <3> DEFINE u == m.rows
    <3>1. u \in Seq(Bookings)
      BY <1>1
    <3> HIDE DEF u
    <3>2. /\ u \o w \in Seq(Bookings)
          /\ Len(u \o w) = Len(u) + Len(w)
          /\ \A i \in 1..(Len(u) + Len(w)) :
               (u \o w)[i] = IF i <= Len(u) THEN u[i] ELSE w[i - Len(u)]
      BY <3>1, <1>2, ConcatProperties
    <3>3. rows = u \o w /\ Len(u) = l
      BY <2>1 DEF u
    <3>4. QED BY <3>2, <3>3 DEF u
  <2> HIDE DEF rows
  <2>3. ASSUME NEW i \in (l + 1)..(l + Len(w))
        PROVE  rows[i] = Booking(a, IF o = "newest" THEN k + 1 - i ELSE i)
    <3> HIDE DEF l
    <3>1. /\ i \in 1..(l + Len(w)) /\ ~(i <= l) /\ i - l \in 1..Len(w)
          /\ k + 1 - (l + (i - l)) = k + 1 - i /\ l + (i - l) = i
      BY <1>1, <1>3
    <3>2. rows[i] = w[i - l]
      BY <2>2, <3>1
    <3>3. QED BY <3>1, <3>2, <1>2
  <2>4. \A i \in 1..l : rows[i] = m.rows[i]
    BY <1>1, <1>3, <2>2
  <2>5. QED BY <1>4, <1>6, <2>2, <2>3, <2>4 DEF rows, w
<1>7. m.previous \in BOOLEAN
  BY DEF TxTable
<1>8. QED BY <1>5, <1>6, <1>7

(* The fields of the table after a run that has not been overtaken.        *)
LEMMA Taken ==
  ASSUME NEW m \in TxTable, NEW r \in ReadRuns, ~m.stale,
         r.kind = "result" => RowsAfter(m, r.items) \in Seq(Bookings)
  PROVE  LET q == TxTake(m, r)
             total == IF r.counted THEN r.count ELSE m.total
         IN  /\ q \in TxTable
             /\ q.pending = m.pending /\ q.queued = m.queued /\ q.deferred = m.deferred
             /\ ~q.stale /\ ~q.previous
             /\ r.kind = "result" =>
                  /\ q.rows = RowsAfter(m, r.items)
                  /\ q.loaded = m.loaded + Len(r.items) /\ q.total = total
                  /\ q.failed = m.failed
                  /\ q.atEnd <=> \/ m.atEnd
                                 \/ total > 0 /\ m.loaded + Len(r.items) >= total
                                 \/ Len(r.items) < PageSize
             /\ r.kind # "result" =>
                  /\ q.loaded = m.loaded
                  /\ m.previous => q.rows = <<>> /\ q.total = 0
                  /\ ~m.previous => q.rows = m.rows /\ q.total = total
             /\ r.kind = "notfound" => q.atEnd /\ q.failed = m.failed
             /\ r.kind = "failed" => q.failed /\ q.atEnd = m.atEnd
<1> DEFINE q == TxTake(m, r)
           total == IF r.counted THEN r.count ELSE m.total
           c == IF r.counted THEN [m EXCEPT !.total = r.count] ELSE m
           rows == RowsAfter(m, r.items)
           loaded == m.loaded + Len(r.items)
           atEnd == \/ m.atEnd
                    \/ total > 0 /\ loaded >= total
                    \/ Len(r.items) < PageSize
<1>1. /\ r.kind \in {"failed", "notfound", "result"} /\ r.count \in Nat
      /\ r.items \in Seq(Bookings) /\ r.counted \in BOOLEAN
  BY DEF ReadRuns
<1>2. m.total \in Nat /\ m.loaded \in Nat
  BY DEF TxTable
<1>3. c \in TxTable
  <2>1. CASE r.counted
    BY <1>1, <2>1, Zenon DEF TxTable
  <2>2. CASE ~r.counted
    BY <2>2
  <2>3. QED BY <2>1, <2>2
<1>4. /\ c.pending = m.pending /\ c.queued = m.queued /\ c.deferred = m.deferred
      /\ ~c.stale /\ c.failed = m.failed /\ c.previous = m.previous
      /\ c.rows = m.rows /\ c.loaded = m.loaded /\ c.total = total /\ c.atEnd = m.atEnd
  BY SMT DEF TxTable
<1> HIDE DEF c
<1>5. CASE r.kind = "result"
  <2>1. q = [c EXCEPT !.rows = rows, !.previous = FALSE, !.loaded = loaded, !.atEnd = atEnd]
    BY <1>3, <1>4, <1>5, SMT DEF TxTake, c, TxTable, RowsAfter
  <2>2. rows \in Seq(Bookings) /\ loaded \in Nat /\ atEnd \in BOOLEAN
    BY <1>1, <1>2, <1>5, LenProperties
  <2> HIDE DEF q, rows, loaded, atEnd
  <2>3. q \in TxTable
    BY <1>3, <2>1, <2>2, Zenon DEF TxTable
  <2>4. /\ q.rows = rows /\ ~q.previous /\ q.loaded = loaded /\ (q.atEnd <=> atEnd)
        /\ q.pending = c.pending /\ q.queued = c.queued /\ q.deferred = c.deferred
        /\ q.stale = c.stale /\ q.failed = c.failed /\ q.total = c.total
    BY <1>3, <2>1, <2>2, SMT DEF TxTable
  <2>5. QED BY <1>4, <1>5, <2>3, <2>4 DEF q, rows, loaded, atEnd
<1>6. CASE r.kind = "notfound"
  <2> DEFINE d == [c EXCEPT !.atEnd = TRUE]
  <2>1. q = TxDropPrevious(d)
    BY <1>6, SMT DEF TxTake, c
  <2>2. d \in TxTable
    BY <1>3, Zenon DEF TxTable
  <2>3. /\ d.atEnd /\ d.pending = c.pending /\ d.queued = c.queued
        /\ d.deferred = c.deferred /\ d.stale = c.stale /\ d.failed = c.failed
        /\ d.previous = c.previous /\ d.rows = c.rows /\ d.loaded = c.loaded
        /\ d.total = c.total
    BY <1>3, SMT DEF TxTable
  <2> HIDE DEF q, d
  <2>4. /\ q \in TxTable /\ ~q.previous
        /\ q.pending = d.pending /\ q.queued = d.queued /\ q.deferred = d.deferred
        /\ q.stale = d.stale /\ q.failed = d.failed
        /\ q.loaded = d.loaded /\ q.atEnd = d.atEnd
        /\ d.previous => q.rows = <<>> /\ q.total = 0
        /\ ~d.previous => q.rows = d.rows /\ q.total = d.total
    BY <2>1, <2>2, PreviousDropped
  <2>5. QED BY <1>4, <1>6, <2>3, <2>4 DEF q
<1>7. CASE r.kind = "failed"
  <2> DEFINE d == [c EXCEPT !.failed = TRUE]
  <2>1. q = TxDropPrevious(d)
    BY <1>7, SMT DEF TxTake, c
  <2>2. d \in TxTable
    BY <1>3, Zenon DEF TxTable
  <2>3. /\ d.failed /\ d.pending = c.pending /\ d.queued = c.queued
        /\ d.deferred = c.deferred /\ d.stale = c.stale /\ d.atEnd = c.atEnd
        /\ d.previous = c.previous /\ d.rows = c.rows /\ d.loaded = c.loaded
        /\ d.total = c.total
    BY <1>3, SMT DEF TxTable
  <2> HIDE DEF q, d
  <2>4. /\ q \in TxTable /\ ~q.previous
        /\ q.pending = d.pending /\ q.queued = d.queued /\ q.deferred = d.deferred
        /\ q.stale = d.stale /\ q.failed = d.failed
        /\ q.loaded = d.loaded /\ q.atEnd = d.atEnd
        /\ d.previous => q.rows = <<>> /\ q.total = 0
        /\ ~d.previous => q.rows = d.rows /\ q.total = d.total
    BY <2>1, <2>2, PreviousDropped
  <2>5. QED BY <1>4, <1>7, <2>3, <2>4 DEF q
<1>8. QED BY <1>1, <1>5, <1>6, <1>7

(* A run of the table comes back: its page goes on where the rows ended,   *)
(* and if it was read from the holding the rows agree with, they still do. *)
LEMMA TakeFits ==
  ASSUME NEW m \in TxTable, NEW a \in Choices, NEW o \in Orders, NEW r \in ReadRuns,
         NEW f, NEW g, Out(r, "tx"), m.pending,
         Shape(m, a, o), Going(m, a), RunFits(m, a, o, r, f, g), ItemsFit(r)
  PROVE  LET q == TxTake(m, r)
         IN  /\ q \in TxTable /\ q.pending = m.pending
             /\ Shape(q, a, o) /\ Going(q, a)
             /\ \A n \in 0..MaxBookings : Fresh(m, a, o, r, n) => Fresh(q, a, o, NoRead, n)
<1> DEFINE q == TxTake(m, r)
<1>1. ~Out(NoRead, "tx")
  BY DEF Out
<1>2. CASE m.stale
  <2>1. q = m
    BY <1>2 DEF TxTake
  <2>2. ASSUME NEW n \in 0..MaxBookings, Fresh(m, a, o, r, n)
        PROVE  Fresh(m, a, o, NoRead, n)
    BY <1>1, <1>2, <2>2 DEF Fresh
  <2>3. QED BY <2>1, <2>2
<1>3. CASE ~m.stale
  <2>1. /\ r.account = a /\ a \in Accounts /\ r.order = o /\ r.offset = m.loaded
        /\ ~m.atEnd /\ ~m.queued /\ ~m.deferred
    BY <1>3 DEF RunFits, ItemsFit, Shape
  <2>2. /\ m.previous => m.loaded = 0
        /\ ~m.previous => Len(m.rows) = m.loaded
        /\ m.previous \in BOOLEAN
    BY DEF Shape, TxTable
  <2>3. /\ m.loaded \in Nat /\ m.total \in Nat /\ PageSize \in Nat \ {0}
        /\ r.items \in Seq(Bookings) /\ r.kind \in {"failed", "notfound", "result"}
        /\ MaxBookings \in Nat
    BY ReadersAssumption DEF TxTable, ReadRuns
  <2>4. a # NoAccount
    BY <2>1, ReadersAssumption
  <2> DEFINE total == IF r.counted THEN r.count ELSE m.total
  <2>5. ASSUME r.kind = "result"
        PROVE  \E k \in 0..MaxBookings :
                 r.items = WindowOf(a, o, k, m.loaded) /\ r.items # <<>>
    BY <2>1, <2>5 DEF ItemsFit
  <2>6. ASSUME r.kind = "result"
        PROVE  RowsAfter(m, r.items) \in Seq(Bookings)
    BY <2>1, <2>2, <2>5, <2>6, PageTaken
  <2>7. /\ q \in TxTable
        /\ q.pending = m.pending /\ q.queued = m.queued /\ q.deferred = m.deferred
        /\ ~q.stale /\ ~q.previous
    BY <1>3, <2>6, Taken
  <2>8. Going(q, a)
    BY <2>7 DEF Going
  <2>9. CASE r.kind = "result"
    <3> DEFINE w == r.items
    <3>1. /\ q.rows = RowsAfter(m, w)
          /\ q.loaded = m.loaded + Len(w) /\ q.total = total
          /\ q.failed = m.failed
          /\ q.atEnd <=> \/ m.atEnd
                         \/ total > 0 /\ m.loaded + Len(w) >= total
                         \/ Len(w) < PageSize
      BY <1>3, <2>6, <2>9, Taken
    <3> HIDE DEF q, w, total
    <3>2. ASSUME NEW k \in 0..MaxBookings, w = WindowOf(a, o, k, m.loaded), w # <<>>
          PROVE  /\ Len(w) \in 1..PageSize /\ Len(q.rows) = q.loaded
                 /\ Len(w) = IF m.loaded + PageSize < k THEN PageSize ELSE k - m.loaded
                 /\ \A i \in 1..m.loaded : ~m.previous /\ q.rows[i] = m.rows[i]
                 /\ \A i \in (m.loaded + 1)..q.loaded :
                      q.rows[i] = Booking(a, IF o = "newest" THEN k + 1 - i ELSE i)
      <4> DEFINE y == WindowOf(a, o, k, m.loaded)
                 rows == RowsAfter(m, y)
      <4>1. /\ Len(y) \in 1..PageSize /\ Len(rows) = m.loaded + Len(y)
            /\ Len(y) = IF m.loaded + PageSize < k THEN PageSize ELSE k - m.loaded
            /\ \A i \in 1..m.loaded : ~m.previous /\ rows[i] = m.rows[i]
            /\ \A i \in (m.loaded + 1)..(m.loaded + Len(y)) :
                 rows[i] = Booking(a, IF o = "newest" THEN k + 1 - i ELSE i)
        BY <2>1, <2>2, <3>2, PageTaken
      <4>2. y = w /\ q.rows = rows
        BY <3>1, <3>2
      <4> HIDE DEF y, rows
      <4>3. QED BY <3>1, <4>1, <4>2
    <3>3. PICK k \in 0..MaxBookings : w = WindowOf(a, o, k, m.loaded) /\ w # <<>>
      BY <2>5, <2>9 DEF w
    <3>4. /\ Len(w) \in 1..PageSize /\ Len(q.rows) = q.loaded
          /\ \A i \in 1..m.loaded : ~m.previous /\ q.rows[i] = m.rows[i]
          /\ \A i \in (m.loaded + 1)..q.loaded :
               q.rows[i] = Booking(a, IF o = "newest" THEN k + 1 - i ELSE i)
      BY <3>2, <3>3
    <3>5. Shape(q, a, o)
      <4>1. q.loaded \in Nat /\ (q.loaded > 0 /\ ~q.atEnd => q.loaded >= PageSize)
        BY <2>3, <3>1, <3>4
      <4>2. ASSUME NEW i \in 1..q.loaded
            PROVE  q.rows[i].of = a /\ (o = "oldest" => q.rows[i].number = i)
        <5>1. CASE i \in 1..m.loaded
          BY <3>4, <5>1 DEF Shape
        <5>2. CASE i \in (m.loaded + 1)..q.loaded
          <6>1. q.rows[i] = Booking(a, IF o = "newest" THEN k + 1 - i ELSE i)
            BY <3>4, <5>2
          <6>2. q.rows[i].of = a /\ q.rows[i].number = IF o = "newest" THEN k + 1 - i ELSE i
            BY <6>1 DEF Booking
          <6>3. QED BY <6>2
        <5>3. QED BY <2>3, <4>1, <5>1, <5>2
      <4>3. ASSUME o = "newest", q.loaded <= PageSize, NEW i \in 2..q.loaded
            PROVE  q.rows[i].number < q.rows[i - 1].number
        <5>1. m.loaded = 0
          BY <2>1, <2>3, <3>1, <3>4, <4>1, <4>3 DEF Shape
        <5>2. i \in (m.loaded + 1)..q.loaded /\ i - 1 \in (m.loaded + 1)..q.loaded
          BY <4>1, <5>1
        <5>3. /\ q.rows[i] = Booking(a, k + 1 - i)
              /\ q.rows[i - 1] = Booking(a, k + 1 - (i - 1))
          BY <3>4, <4>3, <5>2
        <5>4. q.rows[i].number = k + 1 - i /\ q.rows[i - 1].number = k + 1 - (i - 1)
          BY <5>3 DEF Booking
        <5>5. QED BY <2>3, <4>1, <5>4
      <4>4. QED BY <2>1, <2>4, <2>7, <3>4, <4>1, <4>2, <4>3 DEF Shape
    <3>6. ASSUME NEW n \in 0..MaxBookings, Fresh(m, a, o, r, n)
          PROVE  Fresh(q, a, o, NoRead, n)
      <4>1. w = WindowOf(a, o, n, m.loaded) /\ w # <<>> /\ m.loaded <= n
        BY <1>3, <2>9, <3>3, <3>6 DEF Fresh, RowsAgree, w
      <4>2. /\ Len(w) \in 1..PageSize
            /\ Len(w) = IF m.loaded + PageSize < n THEN PageSize ELSE n - m.loaded
            /\ \A i \in 1..m.loaded : ~m.previous /\ q.rows[i] = m.rows[i]
            /\ \A i \in (m.loaded + 1)..q.loaded :
                 q.rows[i] = Booking(a, IF o = "newest" THEN n + 1 - i ELSE i)
        BY <3>2, <4>1
      <4>3. q.loaded \in Nat /\ q.loaded > 0 /\ q.loaded <= n
        BY <2>3, <3>1, <4>1, <4>2
      <4>4. total \in {0, n}
        BY <1>3, <3>6 DEF Fresh, RowsAgree, total
      <4>5. q.atEnd => q.loaded = n
        BY <2>1, <2>3, <3>1, <4>2, <4>3, <4>4
      <4>6. \A i \in 1..q.loaded :
              q.rows[i] = Booking(a, IF o = "newest" THEN n + 1 - i ELSE i)
        <5> TAKE i \in 1..q.loaded
        <5>1. CASE i \in 1..m.loaded
          BY <3>6, <4>2, <5>1 DEF Fresh, RowsAgree
        <5>2. CASE i \in (m.loaded + 1)..q.loaded
          BY <4>2, <5>2
        <5>3. QED BY <2>3, <4>3, <5>1, <5>2
      <4>7. RowsAgree(q, a, o, n)
        BY <3>1, <4>3, <4>4, <4>6 DEF RowsAgree
      <4>8. QED BY <1>1, <4>3, <4>5, <4>7 DEF Fresh
    <3>7. QED BY <2>7, <2>8, <3>5, <3>6 DEF q
  <2>10. CASE r.kind # "result"
    <3>1. /\ q.loaded = m.loaded
          /\ m.previous => q.rows = <<>> /\ q.total = 0
          /\ ~m.previous => q.rows = m.rows /\ q.total = total
          /\ r.kind = "notfound" => q.atEnd /\ q.failed = m.failed
          /\ r.kind = "failed" => q.failed /\ q.atEnd = m.atEnd
      BY <1>3, <2>6, <2>10, Taken
    <3>2. Len(<<>>) = 0
      OBVIOUS
    <3> HIDE DEF q, total
    <3>3. Shape(q, a, o)
      BY <2>1, <2>2, <2>3, <2>4, <2>7, <2>10, <3>1, <3>2 DEF Shape
    <3>4. ASSUME NEW n \in 0..MaxBookings, Fresh(m, a, o, r, n)
          PROVE  Fresh(q, a, o, NoRead, n)
      <4>1. total \in {0, n}
        BY <1>3, <3>4 DEF Fresh, RowsAgree, total
      <4>2. RowsAgree(q, a, o, n)
        BY <2>2, <2>3, <2>7, <3>1, <3>4, <4>1 DEF Fresh, RowsAgree
      <4>3. ASSUME r.kind = "notfound" PROVE q.loaded = n
        <5>1. r.items = <<>> /\ r.items = WindowOf(a, o, n, m.loaded)
          BY <1>3, <3>4, <4>3 DEF Fresh, ItemsFit
        <5>2. Len(WindowOf(a, o, n, m.loaded)) =
                IF n <= m.loaded THEN 0
                ELSE IF m.loaded + PageSize < n THEN PageSize ELSE n - m.loaded
          BY <2>1, <2>3, WindowOfHolding
        <5>3. m.loaded <= n
          BY <3>4 DEF Fresh, RowsAgree
        <5>4. QED BY <2>3, <3>1, <3>2, <5>1, <5>2, <5>3
      <4>4. QED BY <1>1, <2>1, <2>3, <2>10, <3>1, <4>2, <4>3 DEF Fresh
    <3>5. QED BY <2>7, <2>8, <3>3, <3>4 DEF q
  <2>11. QED BY <2>9, <2>10
<1>4. m.stale \in BOOLEAN
  BY DEF TxTable
<1>5. QED BY <1>2, <1>3, <1>4

(* An end frees the table.  Where it does not go on to ask, everything     *)
(* that was to be replaced has been.                                       *)
LEMMA EndedFits ==
  ASSUME NEW m \in TxTable, NEW a \in Choices, NEW o \in Orders,
         Shape(m, a, o), Going(m, a)
  PROVE  LET e == TxEnded(m)
         IN  /\ e \in TxTable /\ Shape(e, a, o) /\ ~e.pending /\ e.loaded = m.loaded
             /\ GoesOn(m) => ~e.atEnd
             /\ ~GoesOn(m) => Going(e, a)
             /\ \A n \in Nat : RowsAgree(m, a, o, n) => RowsAgree(e, a, o, n)
             /\ ~GoesOn(m) /\ a # NoAccount =>
                  \A n \in Nat : Fresh(m, a, o, NoRead, n) => Fresh(e, a, o, NoRead, n)
<1> DEFINE e == TxEnded(m)
<1>1. ~Out(NoRead, "tx") /\ Len(<<>>) = 0
  BY DEF Out
<1>2. /\ m.pending \in BOOLEAN /\ m.queued \in BOOLEAN /\ m.deferred \in BOOLEAN
      /\ m.previous \in BOOLEAN /\ m.stale \in BOOLEAN
  BY DEF TxTable
<1>3. CASE ~m.pending
  <2>1. e = [m EXCEPT !.deferred = FALSE]
    BY <1>3 DEF TxEnded
  <2>2. e \in TxTable
    BY <2>1, Zenon DEF TxTable
  <2>3. /\ e.pending = m.pending /\ e.queued = m.queued /\ ~e.deferred
        /\ e.stale = m.stale /\ e.failed = m.failed /\ e.previous = m.previous
        /\ e.rows = m.rows /\ e.loaded = m.loaded /\ e.total = m.total
        /\ e.atEnd = m.atEnd
    BY <2>1, SMT DEF TxTable
  <2>4. GoesOn(m) <=> m.deferred
    BY <1>3 DEF GoesOn
  <2> HIDE DEF e
  <2>5. Shape(e, a, o) /\ (GoesOn(m) => ~e.atEnd) /\ (~GoesOn(m) => Going(e, a))
    BY <1>3, <2>3, <2>4 DEF Shape, Going
  <2>6. \A n \in Nat : RowsAgree(m, a, o, n) => RowsAgree(e, a, o, n)
    BY <2>3 DEF RowsAgree
  <2>7. ASSUME ~GoesOn(m), NEW n \in Nat, Fresh(m, a, o, NoRead, n)
        PROVE  Fresh(e, a, o, NoRead, n)
    BY <1>1, <1>3, <2>3, <2>4, <2>6, <2>7 DEF Fresh
  <2>8. QED BY <1>3, <2>2, <2>3, <2>5, <2>6, <2>7 DEF e
<1>4. CASE m.pending /\ m.queued
  <2>1. e = [m EXCEPT !.pending = FALSE, !.queued = FALSE]
    BY <1>4 DEF TxEnded
  <2>2. e \in TxTable
    BY <2>1, Zenon DEF TxTable
  <2>3. /\ ~e.pending /\ ~e.queued /\ e.deferred = m.deferred
        /\ e.stale = m.stale /\ e.failed = m.failed /\ e.previous = m.previous
        /\ e.rows = m.rows /\ e.loaded = m.loaded /\ e.total = m.total
        /\ e.atEnd = m.atEnd
    BY <2>1, SMT DEF TxTable
  <2>4. GoesOn(m)
    BY <1>4 DEF GoesOn
  <2> HIDE DEF e
  <2>5. Shape(e, a, o) /\ ~e.atEnd
    BY <1>4, <2>3 DEF Shape
  <2>6. \A n \in Nat : RowsAgree(m, a, o, n) => RowsAgree(e, a, o, n)
    BY <2>3 DEF RowsAgree
  <2>7. QED BY <2>2, <2>3, <2>4, <2>5, <2>6 DEF e
<1>5. CASE m.pending /\ ~m.queued
  <2> DEFINE d == [m EXCEPT !.pending = FALSE]
  <2>1. e = TxDropPrevious(d)
    BY <1>5 DEF TxEnded
  <2>2. d \in TxTable
    BY Zenon DEF TxTable
  <2>3. /\ ~d.pending /\ d.queued = m.queued /\ d.deferred = m.deferred
        /\ d.stale = m.stale /\ d.failed = m.failed /\ d.previous = m.previous
        /\ d.rows = m.rows /\ d.loaded = m.loaded /\ d.total = m.total
        /\ d.atEnd = m.atEnd
    BY SMT DEF TxTable
  <2>4. ~GoesOn(m)
    BY <1>5 DEF GoesOn
  <2> HIDE DEF d, e
  <2>5. /\ e \in TxTable /\ ~e.previous
        /\ e.pending = d.pending /\ e.queued = d.queued /\ e.deferred = d.deferred
        /\ e.stale = d.stale /\ e.failed = d.failed
        /\ e.loaded = d.loaded /\ e.atEnd = d.atEnd
        /\ d.previous => e.rows = <<>> /\ e.total = 0
        /\ ~d.previous => e.rows = d.rows /\ e.total = d.total
    BY <2>1, <2>2, PreviousDropped
  <2>6. m.previous => m.loaded = 0
    BY DEF Shape
  <2>7. Shape(e, a, o) /\ Going(e, a)
    BY <1>1, <1>2, <1>5, <2>3, <2>5, <2>6 DEF Shape, Going
  <2>8. ASSUME NEW n \in Nat, RowsAgree(m, a, o, n)
        PROVE  RowsAgree(e, a, o, n)
    BY <1>2, <2>3, <2>5, <2>6, <2>8 DEF RowsAgree
  <2>9. ASSUME a # NoAccount, NEW n \in Nat, Fresh(m, a, o, NoRead, n)
        PROVE  Fresh(e, a, o, NoRead, n)
    <3>1. m.failed \/ m.loaded > 0 \/ m.atEnd
      BY <1>1, <1>5, <2>9 DEF Fresh, Going, Shape
    <3>2. QED BY <1>1, <2>3, <2>5, <2>8, <2>9, <3>1 DEF Fresh
  <2>10. QED BY <2>3, <2>4, <2>5, <2>7, <2>8, <2>9 DEF e
<1>6. QED BY <1>2, <1>3, <1>4, <1>5

-----------------------------------------------------------------------------
(* The read way before and after a call: it is as it was, or free before   *)
(* and taken by one of the callers cs now.                                 *)
Grown(r, z, cs) ==
  \/ z = r
  \/ /\ r = NoRead /\ file # NoFile
     /\ z \in ReadRuns /\ z # NoRead /\ z.by \in cs
     /\ z.since = generation /\ z.on = file

LEMMA StartedIsARun ==
  ASSUME NEW c \in Readers, NEW a \in Choices, NEW o \in Orders, NEW k \in Nat,
         file \in Files, generation \in Nat
  PROVE  LET z == Started(c, a, o, k)
         IN  /\ z \in ReadRuns /\ z # NoRead
             /\ z.by = c /\ z.since = generation /\ z.on = file
<1>1. <<>> \in Seq(Bookings)
  BY EmptySeq
<1>2. QED BY <1>1 DEF Started, ReadRuns, NoRead

LEMMA AfterACall ==
  ASSUME NEW r \in ReadRuns \cup {NoRead}, NEW c \in Readers, NEW calls \in BOOLEAN,
         NEW v \in Answers(r), NEW a \in Choices, NEW o \in Orders, NEW k \in Nat,
         file \in Files \cup {NoFile}, generation \in Nat
  PROVE  LET z == After(r, c, calls, v, a, o, k)
         IN  /\ z \in ReadRuns \cup {NoRead} /\ Grown(r, z, {c})
             /\ calls /\ v = "started" => r = NoRead /\ file # NoFile /\ Out(z, c)
             /\ ~(calls /\ v = "started") => z = r
<1>1. v = "started" => r = NoRead /\ file # NoFile
  BY DEF Answers
<1>2. CASE calls /\ v = "started"
  BY <1>1, <1>2, StartedIsARun DEF After, Grown, Out
<1>3. CASE ~(calls /\ v = "started")
  BY <1>3 DEF After, Grown
<1>4. QED BY <1>2, <1>3

LEMMA AfterAsking ==
  ASSUME NEW r \in ReadRuns \cup {NoRead}, NEW c \in Readers,
         NEW v \in Answers(r), NEW a \in Choices, NEW o \in Orders, NEW k \in Nat,
         file \in Files \cup {NoFile}, generation \in Nat
  PROVE  LET z == After(r, c, TRUE, v, a, o, k)
         IN  /\ z \in ReadRuns \cup {NoRead} /\ Grown(r, z, {c})
             /\ v = "started" => Out(z, c)
             /\ v # "started" => z = r
<1>1. v = "started" => r = NoRead /\ file # NoFile
  BY DEF Answers
<1>2. CASE v = "started"
  BY <1>1, <1>2, StartedIsARun DEF After, Grown, Out
<1>3. CASE v # "started"
  BY <1>3 DEF After, Grown
<1>4. QED BY <1>2, <1>3

(* Another reader's call is none of the table's business.                  *)
LEMMA ForeignCall ==
  ASSUME NEW m, NEW a, NEW o, NEW n, NEW r, NEW z, NEW cs, "tx" \notin cs, Grown(r, z, cs)
  PROVE  /\ Out(z, "tx") <=> Out(r, "tx")
         /\ RunFits(m, a, o, r, file, generation) => RunFits(m, a, o, z, file, generation)
         /\ ItemsFit(r) => ItemsFit(z)
         /\ Fresh(m, a, o, r, n) => Fresh(m, a, o, z, n)
<1>1. z = r \/ (~Out(r, "tx") /\ ~Out(z, "tx"))
  BY DEF Grown, Out
<1>2. CASE z = r
  BY <1>2
<1>3. CASE ~Out(r, "tx") /\ ~Out(z, "tx")
  BY <1>3 DEF RunFits, ItemsFit, Fresh
<1>4. QED BY <1>1, <1>2, <1>3

(* The bookings are asked for from the first page on.                      *)
LEMMA TxAsksAnew ==
  ASSUME NEW m \in TxTable, NEW b \in Choices, NEW p \in Orders,
         NEW a \in Choices, NEW o \in Orders, NEW keep \in BOOLEAN,
         Shape(m, b, p), keep => a = b,
         NEW r \in ReadRuns \cup {NoRead}, NEW v \in Answers(r),
         file \in Files \cup {NoFile}, generation \in Nat,
         m.pending <=> Out(r, "tx"), ItemsFit(r)
  PROVE  LET t == TxStartOver(m, keep)
             q == TxRequest(t, a, v)
             z == After(r, "tx", Calls(t, a), v, a, o, 0)
         IN  /\ q \in TxTable /\ Shape(q, a, o) /\ Going(q, a)
             /\ RunFits(q, a, o, z, file, generation) /\ ItemsFit(z)
             /\ q.pending <=> Out(z, "tx")
             /\ z \in ReadRuns \cup {NoRead} /\ Grown(r, z, {"tx"})
             /\ a # NoAccount =>
                  \A n \in Nat : (keep => m.total \in {0, n}) => Fresh(q, a, o, z, n)
<1> DEFINE t == TxStartOver(m, keep)
           q == TxRequest(t, a, v)
           z == After(r, "tx", Calls(t, a), v, a, o, 0)
<1>1. /\ t \in TxTable /\ Shape(t, a, o)
      /\ t.pending = m.pending /\ t.stale = m.pending /\ t.loaded = 0 /\ ~t.atEnd
      /\ \A n \in Nat : (keep => m.total \in {0, n}) => RowsAgree(t, a, o, n)
  BY StartOverFits
<1>2. Calls(t, a) \in BOOLEAN
  BY <1>1 DEF Calls, TxTable
<1> HIDE DEF t
<1>3. z \in ReadRuns \cup {NoRead} /\ Grown(r, z, {"tx"})
  BY <1>2, AfterACall DEF Readers
<1>4. z = After(r, "tx", Calls(t, a), v, a, o, t.loaded)
  BY <1>1
<1> HIDE DEF z
<1>5. /\ q \in TxTable /\ Shape(q, a, o) /\ Going(q, a)
      /\ RunFits(q, a, o, z, file, generation) /\ ItemsFit(z)
      /\ q.pending <=> Out(z, "tx")
      /\ a # NoAccount =>
           \A n \in Nat : RowsAgree(t, a, o, n) => Fresh(q, a, o, z, n)
  BY <1>1, <1>4, RequestFits
<1> HIDE DEF q
<1>6. QED BY <1>1, <1>3, <1>5 DEF q, t, z

(* The table of the standing orders, as far as its run goes.               *)
LEMMA SoStartedOver ==
  ASSUME NEW s \in SoTable, NEW keep \in BOOLEAN
  PROVE  LET t == SoStartOver(s, keep)
         IN  /\ t \in SoTable
             /\ t.pending = s.pending /\ t.stale = s.pending
             /\ t.rows \in {s.rows, NoAccount} /\ (~keep => t.rows = NoAccount)
<1> DEFINE t == SoStartOver(s, keep)
           kept == keep /\ s.rows # NoAccount
           rows == IF kept THEN s.rows ELSE NoAccount
<1>1. t = [s EXCEPT !.stale = s.pending, !.previous = kept, !.rows = rows]
  BY SMT DEF SoStartOver, SoTable
<1>2. kept \in BOOLEAN /\ s.pending \in BOOLEAN /\ rows \in Accounts \cup {NoAccount}
  BY DEF SoTable
<1> HIDE DEF t, kept, rows
<1>3. t \in SoTable
  BY <1>1, <1>2, Zenon DEF SoTable
<1>4. t.pending = s.pending /\ t.stale = s.pending /\ t.rows = rows
  BY <1>1, SMT DEF SoTable
<1>5. QED BY <1>3, <1>4 DEF t, rows, kept

LEMMA SoPreviousDropped ==
  ASSUME NEW s \in SoTable
  PROVE  LET t == SoDropPrevious(s)
         IN  /\ t \in SoTable /\ t.pending = s.pending
             /\ t.rows \in {s.rows, NoAccount}
<1>1. CASE s.previous
  <2> DEFINE t == SoDropPrevious(s)
  <2>1. t = [s EXCEPT !.previous = FALSE, !.rows = NoAccount]
    BY <1>1 DEF SoDropPrevious
  <2> HIDE DEF t
  <2>2. t \in SoTable
    BY <2>1, Zenon DEF SoTable
  <2>3. t.pending = s.pending /\ t.rows = NoAccount
    BY <2>1, SMT DEF SoTable
  <2>4. QED BY <2>2, <2>3 DEF t
<1>2. CASE ~s.previous
  BY <1>2 DEF SoDropPrevious
<1>3. QED BY <1>1, <1>2

LEMMA SoTaken ==
  ASSUME NEW s \in SoTable, NEW r \in ReadRuns
  PROVE  LET t == SoTake(s, r)
         IN  /\ t \in SoTable /\ t.pending = s.pending
             /\ t.rows \in {s.rows, NoAccount} \/ (~s.stale /\ t.rows = r.account)
<1> DEFINE t == SoTake(s, r)
<1>1. r.kind \in {"failed", "notfound", "result"} /\ r.account \in Accounts \cup {NoAccount}
  BY DEF ReadRuns, Choices
<1>2. CASE s.stale
  BY <1>2 DEF SoTake
<1>3. CASE ~s.stale /\ r.kind = "result"
  <2>1. t = [s EXCEPT !.previous = FALSE, !.rows = r.account]
    BY <1>3 DEF SoTake
  <2> HIDE DEF t
  <2>2. t \in SoTable
    BY <1>1, <2>1, Zenon DEF SoTable
  <2>3. t.pending = s.pending /\ t.rows = r.account
    BY <2>1, SMT DEF SoTable
  <2>4. QED BY <1>3, <2>2, <2>3 DEF t
<1>4. CASE ~s.stale /\ r.kind = "notfound"
  <2>1. t = SoDropPrevious(s)
    BY <1>4 DEF SoTake
  <2>2. QED BY <2>1, SoPreviousDropped
<1>5. CASE ~s.stale /\ r.kind = "failed"
  <2>1. t = [s EXCEPT !.previous = FALSE]
    BY <1>5 DEF SoTake
  <2> HIDE DEF t
  <2>2. t \in SoTable
    BY <2>1, Zenon DEF SoTable
  <2>3. t.pending = s.pending /\ t.rows = s.rows
    BY <2>1, SMT DEF SoTable
  <2>4. QED BY <2>2, <2>3 DEF t
<1>6. QED BY <1>1, <1>2, <1>3, <1>4, <1>5

LEMMA SoEnding ==
  ASSUME NEW s \in SoTable
  PROVE  /\ SoEnded(s) \in SoTable /\ ~SoEnded(s).pending
         /\ SoEnded(s).rows = s.rows
<1> DEFINE t == SoEnded(s)
<1>1. CASE ~s.pending
  <2>1. t = [s EXCEPT !.deferred = FALSE]
    BY <1>1 DEF SoEnded
  <2> HIDE DEF t
  <2>2. t \in SoTable
    BY <2>1, Zenon DEF SoTable
  <2>3. t.pending = s.pending /\ t.rows = s.rows
    BY <2>1, SMT DEF SoTable
  <2>4. QED BY <1>1, <2>2, <2>3 DEF t
<1>2. CASE s.pending
  <2>1. t = [s EXCEPT !.pending = FALSE, !.queued = FALSE]
    BY <1>2 DEF SoEnded
  <2> HIDE DEF t
  <2>2. t \in SoTable
    BY <2>1, Zenon DEF SoTable
  <2>3. ~t.pending /\ t.rows = s.rows
    BY <2>1, SMT DEF SoTable
  <2>4. QED BY <2>2, <2>3 DEF t
<1>3. QED BY <1>1, <1>2

LEMMA SoRequested ==
  ASSUME NEW s \in SoTable, NEW a \in Choices, NEW v \in {"started", "busy", "refused"}
  PROVE  /\ SoRequest(s, a, v) \in SoTable
         /\ SoRequest(s, a, v).pending <=> s.pending \/ (Calls(s, a) /\ v = "started")
         /\ SoRequest(s, a, v).rows = s.rows
         /\ a = NoAccount \/ s.pending => SoRequest(s, a, v).stale = s.stale
<1> DEFINE q == SoRequest(s, a, v)
           asked == [s EXCEPT !.queued = FALSE, !.deferred = FALSE, !.stale = FALSE]
<1>1. CASE a = NoAccount
  BY <1>1 DEF SoRequest, Calls
<1>2. CASE a # NoAccount /\ s.pending
  <2>1. q = [s EXCEPT !.queued = TRUE]
    BY <1>2 DEF SoRequest
  <2> HIDE DEF q
  <2>2. q \in SoTable
    BY <2>1, Zenon DEF SoTable
  <2>3. q.pending = s.pending /\ q.rows = s.rows /\ q.stale = s.stale
    BY <2>1, SMT DEF SoTable
  <2>4. QED BY <1>2, <2>2, <2>3 DEF q, Calls
<1>3. CASE a # NoAccount /\ ~s.pending
  <2>1. q = CASE v = "started" -> [asked EXCEPT !.pending = TRUE]
              [] v = "busy" -> [asked EXCEPT !.deferred = TRUE]
              [] v = "refused" -> asked
    BY <1>3 DEF SoRequest
  <2>2. asked \in SoTable
    BY Zenon DEF SoTable
  <2>3. ~asked.pending /\ asked.rows = s.rows
    BY <1>3, SMT DEF SoTable
  <2> HIDE DEF q, asked
  <2>4. CASE v = "started"
    <3>1. q = [asked EXCEPT !.pending = TRUE]
      BY <2>1, <2>4
    <3>2. q \in SoTable
      BY <2>2, <3>1, Zenon DEF SoTable
    <3>3. q.pending /\ q.rows = s.rows
      BY <2>2, <2>3, <3>1, SMT DEF SoTable
    <3>4. QED BY <1>3, <2>4, <3>2, <3>3 DEF q, Calls
  <2>5. CASE v = "busy"
    <3>1. q = [asked EXCEPT !.deferred = TRUE]
      BY <2>1, <2>5
    <3>2. q \in SoTable
      BY <2>2, <3>1, Zenon DEF SoTable
    <3>3. ~q.pending /\ q.rows = s.rows
      BY <2>2, <2>3, <3>1, SMT DEF SoTable
    <3>4. QED BY <1>3, <2>5, <3>2, <3>3 DEF q, Calls
  <2>6. CASE v = "refused"
    <3>1. q = asked
      BY <2>1, <2>6
    <3>2. QED BY <1>3, <2>2, <2>3, <2>6, <3>1 DEF q, Calls
  <2>7. QED BY <2>4, <2>5, <2>6
<1>4. QED BY <1>1, <1>2, <1>3

LEMMA SoAsks ==
  ASSUME NEW s \in SoTable, NEW a \in Choices, NEW o \in Orders,
         NEW r \in ReadRuns \cup {NoRead}, NEW v \in Answers(r),
         file \in Files \cup {NoFile}, generation \in Nat,
         s.pending <=> Out(r, "so")
  PROVE  LET q == SoRequest(s, a, v)
             z == After(r, "so", Calls(s, a), v, a, o, 0)
         IN  /\ q \in SoTable /\ (q.pending <=> Out(z, "so"))
             /\ z \in ReadRuns \cup {NoRead} /\ Grown(r, z, {"so"})
             /\ SoFits(s, a, r) => SoFits(q, a, z)
<1> DEFINE q == SoRequest(s, a, v)
           z == After(r, "so", Calls(s, a), v, a, o, 0)
<1>1. v \in {"started", "busy", "refused"}
  BY DEF Answers
<1>2. Calls(s, a) \in BOOLEAN /\ (Calls(s, a) => ~s.pending)
  BY DEF Calls, SoTable
<1>3. /\ q \in SoTable
      /\ q.pending <=> s.pending \/ (Calls(s, a) /\ v = "started")
      /\ q.rows = s.rows /\ (a = NoAccount \/ s.pending => q.stale = s.stale)
  BY <1>1, SoRequested
<1>4. /\ z \in ReadRuns \cup {NoRead} /\ Grown(r, z, {"so"})
      /\ Calls(s, a) /\ v = "started" => Out(z, "so")
      /\ ~(Calls(s, a) /\ v = "started") => z = r
  BY <1>2, AfterACall DEF Readers
<1>5. Calls(s, a) /\ v = "started" => z.account = a
  BY DEF After, Started
<1> HIDE DEF q, z
<1>6. SoFits(s, a, r) => SoFits(q, a, z)
  <2>1. CASE Calls(s, a) /\ v = "started"
    BY <1>3, <1>5, <2>1 DEF SoFits
  <2>2. CASE ~(Calls(s, a) /\ v = "started")
    BY <1>3, <1>4, <2>2 DEF SoFits, Calls
  <2>3. QED BY <2>1, <2>2
<1>7. QED BY <1>2, <1>3, <1>4, <1>6 DEF q, z

(* Another reader's call is none of the standing orders' business either.  *)
LEMMA ForeignToOrders ==
  ASSUME NEW s, NEW a, NEW r, NEW z, NEW cs, "so" \notin cs, Grown(r, z, cs), SoFits(s, a, r)
  PROVE  SoFits(s, a, z)
  BY DEF Grown, SoFits, Out

-----------------------------------------------------------------------------
(* The invariant holds at first, and every action keeps it.                *)

LEMMA InitConsistent == Init => IInv
<1> SUFFICES ASSUME Init PROVE IInv
  OBVIOUS
<1>1. TxEmpty \in TxTable
  BY EmptySeq DEF TxEmpty, TxTable
<1>2. SoEmpty \in SoTable
  BY DEF SoEmpty, SoTable
<1>3. Types
  <2>1. app \in [reading : BOOLEAN, chosen : Choices]
    BY DEF Init, Choices
  <2>2. holding \in [Accounts -> 0..MaxBookings]
    BY ReadersAssumption DEF Init
  <2>3. generation \in 0..MaxGeneration /\ acts \in 0..MaxActs /\ setups \in 0..MaxSetups
    BY ReadersAssumption DEF Init
  <2>4. QED BY <1>1, <1>2, <2>1, <2>2, <2>3 DEF Init, Types, Choices, Orders
<1>4. Owned
  BY DEF Init, Owned, Out, Told, TxEmpty, SoEmpty
<1>5. Turn /\ Session
  BY DEF Init, Turn, Session
<1>6. TableFits
  BY DEF Init, TableFits, Shape, Going, RunFits, ItemsFit, Out, TxEmpty
<1>7. FreshIfCurrent
  BY DEF Init, FreshIfCurrent, Current
<1>8. OrdersFit
  BY DEF Init, OrdersFit, SoFits, SoEmpty, Out
<1>9. QED BY <1>3, <1>4, <1>5, <1>6, <1>7, <1>8 DEF IInv

(* A call from the event loop or from a slot leaves the turn, and the      *)
(* connection a run was started on, in order.                              *)
LEMMA WayKept ==
  ASSUME IInv, NEW cs, Grown(read, read', cs), cs \cap toHear = {},
         "tx" \notin toHear \/ read' = read,
         UNCHANGED <<file, generation, banking, tree, telling, toHear>>,
         slot' = slot \/ slot' = "none", slot = "opening" => slot' = slot,
         account' # NoAccount => banking
  PROVE  Turn' /\ Session'
<1>1. generation \in Nat
  BY ReadersAssumption DEF IInv, Types
<1>2. Turn'
  BY DEF IInv, Turn, Grown
<1>3. Session'
  BY <1>1 DEF IInv, Session, Grown
<1>4. QED BY <1>2, <1>3

(* The calls of both tables change nobody's wait but their own.            *)
LEMMA OthersOwn ==
  ASSUME IInv, Grown(read, read', {"tx", "so"}),
         UNCHANGED <<telling, toHear, dialog>>, app'.reading = app.reading
  PROVE  /\ app'.reading <=> Out(read, "app")' \/ Told("app")'
         /\ dialog' <=> Out(read, "dialog")' \/ Told("dialog")'
  BY DEF IInv, Owned, Grown, Out, Told

(* Giving up the account: a run that is out is overtaken.                  *)
LEMMA GiveUpFits ==
  ASSUME IInv, GiveUpAccount(tx, so)
  PROVE  /\ tx' \in TxTable /\ so' \in SoTable
         /\ account' = NoAccount /\ order' \in Orders
         /\ tx'.pending = tx.pending /\ so'.pending = so.pending
         /\ Shape(tx', account', order') /\ Going(tx', account')
         /\ Out(read, "tx") => tx'.stale
         /\ SoFits(so', account', read)
<1>1. /\ tx \in TxTable /\ so \in SoTable /\ account \in Choices /\ order \in Orders
      /\ Shape(tx, account, order) /\ Going(tx, account) /\ ItemsFit(read)
      /\ RunFits(tx, account, order, read, file, generation)
      /\ Out(read, "tx") => tx.pending
      /\ Out(read, "so") => so.pending
      /\ SoFits(so, account, read)
  BY DEF IInv, Types, TableFits, Owned, OrdersFit
<1>2. CASE account = NoAccount
  <2>1. Out(read, "tx") => tx.stale
    BY <1>1, <1>2, ReadersAssumption DEF RunFits, ItemsFit
  <2>2. QED BY <1>1, <1>2, <2>1 DEF GiveUpAccount
<1>3. CASE account # NoAccount
  <2> DEFINE t == TxStartOver(tx, FALSE)
  <2>1. account' = NoAccount /\ order' = "newest" /\ tx' = t /\ so' = SoStartOver(so, FALSE)
    BY <1>3 DEF GiveUpAccount
  <2>2. NoAccount \in Choices /\ "newest" \in Orders
    BY DEF Choices, Orders
  <2>3. /\ t \in TxTable /\ Shape(t, NoAccount, "newest")
        /\ t.pending = tx.pending /\ t.stale = tx.pending
    BY <1>1, <2>2, StartOverFits
  <2>4. /\ so' \in SoTable /\ so'.pending = so.pending
        /\ so'.stale = so.pending /\ so'.rows = NoAccount
    BY <1>1, <2>1, SoStartedOver
  <2> HIDE DEF t
  <2>5. Going(t, NoAccount)
    BY <2>3 DEF Going, Shape
  <2>6. SoFits(so', account', read)
    BY <1>1, <2>1, <2>4 DEF SoFits
  <2>7. QED BY <1>1, <2>1, <2>2, <2>3, <2>4, <2>5, <2>6
<1>4. QED BY <1>2, <1>3

(* What the lemmas about the requests ask for, at rest in the event loop.  *)
LEMMA AtHand ==
  ASSUME IInv
  PROVE  /\ tx \in TxTable /\ so \in SoTable /\ account \in Choices /\ order \in Orders
         /\ read \in ReadRuns \cup {NoRead}
         /\ file \in Files \cup {NoFile} /\ generation \in Nat
         /\ Shape(tx, account, order) /\ Going(tx, account) /\ ItemsFit(read)
         /\ RunFits(tx, account, order, read, file, generation)
         /\ SoFits(so, account, read)
         /\ \A a \in Accounts : holding[a] \in 0..MaxBookings /\ holding[a] \in Nat
         /\ ~Told("tx") => (tx.pending <=> Out(read, "tx"))
         /\ ~Told("so") => (so.pending <=> Out(read, "so"))
         /\ NoAccount \notin Accounts
<1>1. \A a \in Accounts : holding[a] \in 0..MaxBookings /\ holding[a] \in Nat
  BY ReadersAssumption DEF IInv, Types
<1>2. generation \in Nat
  BY ReadersAssumption DEF IInv, Types
<1>3. QED
  BY <1>1, <1>2, ReadersAssumption DEF IInv, Types, TableFits, Owned, OrdersFit

(* What is left to show of a step that asks for both tables anew.          *)
LEMMA AskedAnew ==
  ASSUME IInv, ~Told("tx"), ~Told("so"),
         tx' \in TxTable, so' \in SoTable, account' \in Choices, order' \in Orders,
         read' \in ReadRuns \cup {NoRead}, Grown(read, read', {"tx", "so"}),
         tx'.pending <=> Out(read', "tx"), so'.pending <=> Out(read', "so"),
         Shape(tx', account', order'), Going(tx', account'), ItemsFit(read'),
         RunFits(tx', account', order', read', file, generation),
         SoFits(so', account', read'),
         app' \in [reading : BOOLEAN, chosen : Choices], app'.reading = app.reading,
         acts' \in 0..MaxActs, setups' \in 0..MaxSetups,
         UNCHANGED <<file, generation, holding, active, written, telling, toHear, banking,
                     tree, dialog, due>>,
         {"tx", "so"} \cap toHear = {},
         slot' = slot \/ slot' = "none", slot # "opening",
         account' # NoAccount => banking,
         Current' => Fresh(tx', account', order', read', holding[account'])
  PROVE  IInv'
<1>1. Types'
  BY DEF IInv, Types
<1>2. Turn' /\ Session'
  BY WayKept
<1>3. ~Told("tx")' /\ ~Told("so")'
  BY DEF Told
<1>4. /\ app'.reading <=> Out(read, "app")' \/ Told("app")'
      /\ dialog' <=> Out(read, "dialog")' \/ Told("dialog")'
  BY OthersOwn
<1>5. Owned'
  BY <1>3, <1>4 DEF Owned
<1>6. TableFits' /\ FreshIfCurrent' /\ OrdersFit'
  BY DEF TableFits, FreshIfCurrent, OrdersFit
<1>7. QED BY <1>1, <1>2, <1>5, <1>6 DEF IInv

LEMMA SelectStep ==
  ASSUME IInv, NEW a \in Choices, Select(a)
  PROVE  IInv'
<1>1. /\ toHear = {} /\ slot = "none" /\ banking /\ ~Told("tx") /\ ~Told("so")
      /\ acts' \in 0..MaxActs /\ setups' \in 0..MaxSetups
      /\ app' \in [reading : BOOLEAN, chosen : Choices] /\ app'.reading = app.reading
      /\ UNCHANGED <<file, generation, holding, active, written, telling, toHear, slot,
                     banking, tree, dialog, due>>
  BY ReadersAssumption DEF Select, InEventLoop, Told, storageVars, IInv, Types
<1>2. /\ tx \in TxTable /\ so \in SoTable /\ account \in Choices /\ order \in Orders
      /\ read \in ReadRuns \cup {NoRead}
      /\ file \in Files \cup {NoFile} /\ generation \in Nat
      /\ Shape(tx, account, order) /\ ItemsFit(read)
      /\ tx.pending <=> Out(read, "tx")
      /\ so.pending <=> Out(read, "so")
  BY <1>1, AtHand
<1>3. CASE a = NoAccount
  <2>1. GiveUpAccount(tx, so) /\ read' = read
    BY <1>3 DEF Select
  <2>2. /\ tx' \in TxTable /\ so' \in SoTable
        /\ account' = NoAccount /\ order' \in Orders
        /\ tx'.pending = tx.pending /\ so'.pending = so.pending
        /\ Shape(tx', account', order') /\ Going(tx', account')
        /\ Out(read, "tx") => tx'.stale
        /\ SoFits(so', account', read')
    BY <2>1, GiveUpFits
  <2>3. RunFits(tx', account', order', read', file, generation)
    BY <2>1, <2>2 DEF RunFits
  <2>4. Grown(read, read', {"tx", "so"}) /\ account' \in Choices /\ ~Current'
    BY <2>1, <2>2 DEF Grown, Choices, Current
  <2>5. QED BY <1>1, <1>2, <2>1, <2>2, <2>3, <2>4, AskedAnew
<1>4. CASE a # NoAccount
  <2>1. TurnTo(a) /\ order' = order /\ a \in Accounts
    BY <1>4 DEF Select, Choices
  <2> DEFINE t == TxStartOver(tx, FALSE)
             s == SoStartOver(so, FALSE)
  <2>10. PICK v \in Answers(read) :
          \E w \in Answers(After(read, "tx", Calls(t, a), v, a, order, 0)) :
            /\ account' = a /\ tx' = TxRequest(t, a, v) /\ so' = SoRequest(s, a, w)
            /\ read' = After(After(read, "tx", Calls(t, a), v, a, order, 0),
                             "so", Calls(s, a), w, a, order, 0)
    BY <2>1 DEF TurnTo
  <2> DEFINE y == After(read, "tx", Calls(t, a), v, a, order, 0)
  <2>2. PICK w \in Answers(y) :
          /\ account' = a /\ tx' = TxRequest(t, a, v) /\ so' = SoRequest(s, a, w)
          /\ read' = After(y, "so", Calls(s, a), w, a, order, 0)
    BY <2>10
  <2>3. /\ tx' \in TxTable /\ Shape(tx', a, order) /\ Going(tx', a)
        /\ RunFits(tx', a, order, y, file, generation) /\ ItemsFit(y)
        /\ tx'.pending <=> Out(y, "tx")
        /\ y \in ReadRuns \cup {NoRead} /\ Grown(read, y, {"tx"})
        /\ \A n \in Nat : Fresh(tx', a, order, y, n)
    BY <1>2, <1>4, <2>2, TxAsksAnew
  <2>4. s \in SoTable /\ s.pending = so.pending /\ s.stale = so.pending /\ s.rows = NoAccount
    BY <1>2, SoStartedOver
  <2>5. (Out(y, "so") <=> Out(read, "so")) /\ SoFits(s, a, y)
    <3> HIDE DEF y, s
    <3> QED BY <1>2, <2>3, <2>4 DEF Grown, Out, SoFits
  <2> HIDE DEF s, y
  <2>6. /\ so' \in SoTable /\ (so'.pending <=> Out(read', "so"))
        /\ SoFits(so', a, read')
        /\ read' \in ReadRuns \cup {NoRead} /\ Grown(y, read', {"so"})
    BY <1>2, <2>2, <2>3, <2>4, <2>5, SoAsks DEF y
  <2>7. /\ Out(read', "tx") <=> Out(y, "tx")
        /\ RunFits(tx', a, order, read', file, generation) /\ ItemsFit(read')
        /\ \A n \in Nat : Fresh(tx', a, order, read', n)
    BY <2>3, <2>6, ForeignCall
  <2>8. Grown(read, read', {"tx", "so"})
    BY <2>3, <2>6 DEF Grown
  <2>9. holding[a] \in Nat
    BY <2>1, AtHand
  <2>11. QED
    BY <1>1, <1>2, <2>1, <2>2, <2>3, <2>6, <2>7, <2>8, <2>9, AskedAnew
<1>5. QED BY <1>3, <1>4

LEMMA SortStep ==
  ASSUME IInv, NEW o \in Orders, Sort(o)
  PROVE  IInv'
<1>1. /\ toHear = {} /\ slot = "none" /\ banking /\ ~Told("tx") /\ ~Told("so")
      /\ acts' \in 0..MaxActs /\ setups' \in 0..MaxSetups
      /\ app' \in [reading : BOOLEAN, chosen : Choices] /\ app'.reading = app.reading
      /\ UNCHANGED <<file, generation, holding, active, written, telling, toHear, slot,
                     banking, tree, account, so, dialog, due, app>>
      /\ order' = o
  BY ReadersAssumption DEF Sort, InEventLoop, Told, storageVars, IInv, Types
<1>2. /\ tx \in TxTable /\ so \in SoTable /\ account \in Choices /\ order \in Orders
      /\ read \in ReadRuns \cup {NoRead}
      /\ file \in Files \cup {NoFile} /\ generation \in Nat
      /\ Shape(tx, account, order) /\ ItemsFit(read)
      /\ tx.pending <=> Out(read, "tx")
      /\ so.pending <=> Out(read, "so")
  BY <1>1, AtHand
<1> DEFINE t == TxStartOver(tx, TRUE)
<1>3. PICK v \in Answers(read) :
        /\ tx' = TxRequest(t, account, v)
        /\ read' = After(read, "tx", Calls(t, account), v, account, o, 0)
  BY DEF Sort
<1>4. /\ tx' \in TxTable /\ Shape(tx', account, o) /\ Going(tx', account)
      /\ RunFits(tx', account, o, read', file, generation) /\ ItemsFit(read')
      /\ tx'.pending <=> Out(read', "tx")
      /\ read' \in ReadRuns \cup {NoRead} /\ Grown(read, read', {"tx"})
      /\ account # NoAccount =>
           \A n \in Nat : tx.total \in {0, n} => Fresh(tx', account, o, read', n)
  BY <1>2, <1>3, TxAsksAnew
<1>5. /\ Grown(read, read', {"tx", "so"}) /\ (so'.pending <=> Out(read', "so"))
      /\ SoFits(so', account', read')
  <2>1. SoFits(so, account, read)
    BY AtHand
  <2>2. SoFits(so, account, read')
    BY <1>4, <2>1, ForeignToOrders
  <2>3. QED BY <1>1, <1>2, <1>4, <2>2 DEF Grown, Out
<1>6. ASSUME Current'
      PROVE  Fresh(tx', account', order', read', holding[account'])
  <2>1. Current /\ account # NoAccount
    BY <1>1, <1>6 DEF Current
  <2>2. tx.total \in {0, holding[account]} /\ holding[account] \in Nat
    BY <1>2, <2>1, AtHand DEF IInv, FreshIfCurrent, Fresh, RowsAgree, Choices
  <2>3. QED BY <1>1, <1>4, <2>1, <2>2
<1> HIDE DEF t
<1>7. account' # NoAccount => banking
  BY <1>1
<1>8. QED BY <1>1, <1>2, <1>4, <1>5, <1>6, <1>7, AskedAnew

LEMMA FetchMoreStep ==
  ASSUME IInv, FetchMore
  PROVE  IInv'
<1>1. /\ toHear = {} /\ slot = "none" /\ ~Told("tx") /\ ~Told("so")
      /\ acts' \in 0..MaxActs /\ setups' \in 0..MaxSetups
      /\ app' \in [reading : BOOLEAN, chosen : Choices] /\ app'.reading = app.reading
      /\ UNCHANGED <<file, generation, holding, active, written, telling, toHear, slot,
                     banking, tree, account, order, so, dialog, due, app>>
      /\ account # NoAccount /\ ~tx.atEnd /\ ~tx.pending
  BY DEF FetchMore, InEventLoop, Told, storageVars, IInv, Types
<1>2. /\ tx \in TxTable /\ so \in SoTable /\ account \in Choices /\ order \in Orders
      /\ read \in ReadRuns \cup {NoRead}
      /\ file \in Files \cup {NoFile} /\ generation \in Nat
      /\ Shape(tx, account, order) /\ ItemsFit(read)
      /\ tx.pending <=> Out(read, "tx")
      /\ so.pending <=> Out(read, "so")
  BY <1>1, AtHand
<1>3. PICK v \in Answers(read) :
        /\ tx' = TxRequest(tx, account, v)
        /\ read' = After(read, "tx", TRUE, v, account, order, tx.loaded)
  BY DEF FetchMore
<1>4. Calls(tx, account) = TRUE /\ tx.loaded \in Nat
  BY <1>1, <1>2 DEF Calls, TxTable
<1>5. /\ tx' \in TxTable /\ Shape(tx', account, order) /\ Going(tx', account)
      /\ RunFits(tx', account, order, read', file, generation) /\ ItemsFit(read')
      /\ tx'.pending <=> Out(read', "tx")
      /\ \A n \in Nat : RowsAgree(tx, account, order, n) => Fresh(tx', account, order, read', n)
  BY <1>1, <1>2, <1>3, <1>4, RequestFits
<1>6. read' \in ReadRuns \cup {NoRead} /\ Grown(read, read', {"tx"})
  BY <1>2, <1>3, <1>4, AfterACall DEF Readers
<1>7. /\ Grown(read, read', {"tx", "so"}) /\ (so'.pending <=> Out(read', "so"))
      /\ SoFits(so', account', read')
  <2>1. SoFits(so, account, read)
    BY AtHand
  <2>2. SoFits(so, account, read')
    BY <1>6, <2>1, ForeignToOrders
  <2>3. QED BY <1>1, <1>2, <1>6, <2>2 DEF Grown, Out
<1>8. ASSUME Current'
      PROVE  Fresh(tx', account', order', read', holding[account'])
  <2>1. Current
    BY <1>1, <1>8 DEF Current
  <2>2. RowsAgree(tx, account, order, holding[account]) /\ holding[account] \in Nat
    BY <1>1, <1>2, <2>1, AtHand DEF IInv, FreshIfCurrent, Fresh, Choices
  <2>3. QED BY <1>1, <1>5, <2>2
<1>9. account' # NoAccount => banking
  BY <1>1 DEF IInv, Session
<1>10. QED BY <1>1, <1>2, <1>5, <1>6, <1>7, <1>8, <1>9, AskedAnew

LEMMA RefreshOrdersStep ==
  ASSUME IInv, RefreshOrders
  PROVE  IInv'
<1>1. /\ toHear = {} /\ slot = "none" /\ ~Told("tx") /\ ~Told("so")
      /\ acts' \in 0..MaxActs /\ setups' \in 0..MaxSetups
      /\ app' \in [reading : BOOLEAN, chosen : Choices] /\ app'.reading = app.reading
      /\ UNCHANGED <<file, generation, holding, active, written, telling, toHear, slot,
                     banking, tree, account, order, tx, dialog, due, app>>
  BY ReadersAssumption DEF RefreshOrders, InEventLoop, Told, storageVars, IInv, Types
<1>2. /\ tx \in TxTable /\ so \in SoTable /\ account \in Choices /\ order \in Orders
      /\ read \in ReadRuns \cup {NoRead}
      /\ file \in Files \cup {NoFile} /\ generation \in Nat
      /\ Shape(tx, account, order) /\ Going(tx, account) /\ ItemsFit(read)
      /\ RunFits(tx, account, order, read, file, generation)
      /\ tx.pending <=> Out(read, "tx")
      /\ so.pending <=> Out(read, "so")
  BY <1>1, AtHand
<1> DEFINE s == SoStartOver(so, TRUE)
<1>3. PICK v \in Answers(read) :
        /\ so' = SoRequest(s, account, v)
        /\ read' = After(read, "so", Calls(s, account), v, account, order, 0)
  BY DEF RefreshOrders
<1>4. s \in SoTable /\ s.pending = so.pending /\ SoFits(s, account, read)
  <2>1. /\ s \in SoTable /\ s.pending = so.pending /\ s.stale = so.pending
        /\ s.rows \in {so.rows, NoAccount}
    BY <1>2, SoStartedOver
  <2>2. SoFits(so, account, read)
    BY AtHand
  <2> HIDE DEF s
  <2>3. QED BY <1>2, <2>1, <2>2 DEF SoFits
<1> HIDE DEF s
<1>5. /\ so' \in SoTable /\ (so'.pending <=> Out(read', "so"))
      /\ SoFits(so', account', read')
      /\ read' \in ReadRuns \cup {NoRead} /\ Grown(read, read', {"so"})
  BY <1>1, <1>2, <1>3, <1>4, SoAsks
<1>6. /\ Out(read', "tx") <=> Out(read, "tx")
      /\ RunFits(tx', account', order', read', file, generation) /\ ItemsFit(read')
      /\ Fresh(tx, account, order, read, holding[account]) =>
           Fresh(tx, account, order, read', holding[account])
  BY <1>1, <1>2, <1>5, ForeignCall
<1>7. Grown(read, read', {"tx", "so"})
  BY <1>5 DEF Grown
<1>8. Current' => Fresh(tx', account', order', read', holding[account'])
  BY <1>1, <1>6 DEF Current, IInv, FreshIfCurrent
<1>9. account' # NoAccount => banking
  BY <1>1 DEF IInv, Session
<1>10. QED BY <1>1, <1>2, <1>5, <1>6, <1>7, <1>8, <1>9, AskedAnew

LEMMA RestoreStep ==
  ASSUME IInv, Restore
  PROVE  IInv'
<1> DEFINE a == IF Restores THEN app.chosen ELSE account
           t == IF Restores THEN TxStartOver(tx, FALSE) ELSE tx
           s == IF Restores THEN SoStartOver(so, FALSE) ELSE so
<1>1. /\ {"tx", "so"} \cap toHear = {} /\ slot = "restore" /\ slot' = "none"
      /\ ~Told("tx") /\ ~Told("so")
      /\ acts' \in 0..MaxActs /\ setups' \in 0..MaxSetups
      /\ UNCHANGED <<file, generation, holding, active, written, telling, toHear,
                     banking, tree, order, dialog, due>>
  BY DEF Restore, Told, storageVars, IInv, Types, Turn
<1>2. app' \in [reading : BOOLEAN, chosen : Choices] /\ app'.reading = app.reading
  BY DEF Restore, IInv, Types, Choices
<1>3. /\ tx \in TxTable /\ so \in SoTable /\ account \in Choices /\ order \in Orders
      /\ read \in ReadRuns \cup {NoRead}
      /\ file \in Files \cup {NoFile} /\ generation \in Nat
      /\ Shape(tx, account, order) /\ Going(tx, account) /\ ItemsFit(read)
      /\ RunFits(tx, account, order, read, file, generation)
      /\ tx.pending <=> Out(read, "tx")
      /\ so.pending <=> Out(read, "so")
      /\ NoAccount \notin Accounts
  BY <1>1, AtHand
<1>4. /\ a \in Choices /\ (Restores => a # NoAccount) /\ (a # NoAccount => banking)
  <2>1. Restores => app.chosen \in tree /\ app.chosen # NoAccount /\ tree \in SUBSET Accounts
    BY DEF Restores, IInv, Types
  <2>2. QED BY <1>3, <2>1 DEF Choices, IInv, Session
<1>5. PICK v \in Answers(read) :
        \E w \in Answers(After(read, "tx", Restores /\ Calls(t, a), v, a, order, 0)) :
          LET t1 == IF Restores THEN TxRequest(t, a, v) ELSE t
              r1 == After(read, "tx", Restores /\ Calls(t, a), v, a, order, 0)
              r2 == After(r1, "so", Restores /\ Calls(s, a), w, a, order, 0)
              t2 == IF a = NoAccount THEN t1 ELSE TxStartOver(t1, FALSE)
          IN  \E x \in Answers(r2) :
                /\ account' = a
                /\ so' = IF Restores THEN SoRequest(s, a, w) ELSE s
                /\ tx' = TxRequest(t2, a, x)
                /\ read' = After(r2, "tx", Calls(t2, a), x, a, order, 0)
  BY DEF Restore
<1> DEFINE t1 == IF Restores THEN TxRequest(t, a, v) ELSE t
           r1 == After(read, "tx", Restores /\ Calls(t, a), v, a, order, 0)
           t2 == IF a = NoAccount THEN t1 ELSE TxStartOver(t1, FALSE)
<1>6. PICK w \in Answers(r1) :
        \E x \in Answers(After(r1, "so", Restores /\ Calls(s, a), w, a, order, 0)) :
          /\ account' = a
          /\ so' = IF Restores THEN SoRequest(s, a, w) ELSE s
          /\ tx' = TxRequest(t2, a, x)
          /\ read' = After(After(r1, "so", Restores /\ Calls(s, a), w, a, order, 0),
                           "tx", Calls(t2, a), x, a, order, 0)
  BY <1>5
<1> DEFINE r2 == After(r1, "so", Restores /\ Calls(s, a), w, a, order, 0)
<1>7. PICK x \in Answers(r2) :
        /\ account' = a
        /\ so' = IF Restores THEN SoRequest(s, a, w) ELSE s
        /\ tx' = TxRequest(t2, a, x)
        /\ read' = After(r2, "tx", Calls(t2, a), x, a, order, 0)
  BY <1>6
(* The choice is put back, or stays as it is. *)
<1>8. /\ t1 \in TxTable /\ Shape(t1, a, order) /\ Going(t1, a)
      /\ RunFits(t1, a, order, r1, file, generation) /\ ItemsFit(r1)
      /\ t1.pending <=> Out(r1, "tx")
      /\ r1 \in ReadRuns \cup {NoRead} /\ Grown(read, r1, {"tx"})
  <2>1. CASE Restores
    <3> DEFINE u == TxStartOver(tx, FALSE)
    <3>1. t1 = TxRequest(u, a, v) /\ r1 = After(read, "tx", Calls(u, a), v, a, order, 0)
      BY <2>1 DEF Calls
    <3> HIDE DEF a, t1, r1
    <3>2. QED BY <1>3, <1>4, <3>1, TxAsksAnew
  <2>2. CASE ~Restores
    <3>1. t1 = tx /\ r1 = read /\ a = account
      BY <2>2 DEF After
    <3> HIDE DEF a, t1, r1
    <3>2. QED BY <1>3, <3>1 DEF Grown
  <2>3. QED BY <2>1, <2>2
<1>9. /\ Out(r1, "so") <=> Out(read, "so")
      /\ SoFits(so, account, r1)
  <2>1. SoFits(so, account, read)
    BY AtHand
  <2> HIDE DEF r1
  <2> QED BY <1>8, <2>1, ForeignToOrders DEF Grown, Out
<1>10. /\ so' \in SoTable /\ (so'.pending <=> Out(r2, "so"))
       /\ SoFits(so', a, r2)
       /\ r2 \in ReadRuns \cup {NoRead} /\ Grown(r1, r2, {"so"})
  <2>1. CASE Restores
    <3> DEFINE u == SoStartOver(so, FALSE)
    <3>1. so' = SoRequest(u, a, w) /\ r2 = After(r1, "so", Calls(u, a), w, a, order, 0)
      BY <1>7, <2>1 DEF Calls
    <3>2. u \in SoTable /\ u.pending = so.pending /\ u.stale = so.pending /\ u.rows = NoAccount
      BY <1>3, SoStartedOver
    <3> HIDE DEF a, r1, r2, u
    <3>3. SoFits(u, a, r1)
      BY <1>3, <1>9, <3>2 DEF SoFits
    <3>4. QED BY <1>3, <1>4, <1>8, <1>9, <3>1, <3>2, <3>3, SoAsks
  <2>2. CASE ~Restores
    <3>1. so' = so /\ r2 = r1 /\ a = account
      BY <1>7, <2>2 DEF After
    <3> HIDE DEF a, r1, r2
    <3>2. QED BY <1>3, <1>8, <1>9, <3>1 DEF Grown
  <2>3. QED BY <2>1, <2>2
<1> HIDE DEF a, s, t, t1, r1, r2
<1>11. /\ Out(r2, "tx") <=> Out(r1, "tx")
       /\ RunFits(t1, a, order, r2, file, generation) /\ ItemsFit(r2)
  BY <1>8, <1>10, ForeignCall
(* Then the bookings are read again. *)
<1>12. /\ tx' \in TxTable /\ Shape(tx', a, order) /\ Going(tx', a)
       /\ RunFits(tx', a, order, read', file, generation) /\ ItemsFit(read')
       /\ tx'.pending <=> Out(read', "tx")
       /\ read' \in ReadRuns \cup {NoRead} /\ Grown(r2, read', {"tx"})
       /\ a # NoAccount => \A n \in Nat : Fresh(tx', a, order, read', n)
  <2>1. CASE a = NoAccount
    <3>1. tx' = t1 /\ read' = r2
      BY <1>7, <2>1 DEF TxRequest, After, Calls
    <3>2. QED BY <1>8, <1>10, <1>11, <2>1, <3>1 DEF Grown
  <2>2. CASE a # NoAccount
    <3> DEFINE u == TxStartOver(t1, FALSE)
    <3>1. tx' = TxRequest(u, a, x) /\ read' = After(r2, "tx", Calls(u, a), x, a, order, 0)
      BY <1>7, <2>2
    <3>2. QED BY <1>3, <1>4, <1>8, <1>10, <1>11, <2>2, <3>1, TxAsksAnew
  <2>3. QED BY <2>1, <2>2
<1>13. /\ Grown(read, read', {"tx", "so"}) /\ (so'.pending <=> Out(read', "so"))
       /\ SoFits(so', a, read')
  BY <1>8, <1>10, <1>12, ForeignToOrders DEF Grown, Out
<1>14. account' = a
  BY <1>7
<1>15. ASSUME Current'
       PROVE  Fresh(tx', account', order', read', holding[account'])
  <2>1. a \in Accounts
    BY <1>4, <1>14, <1>15 DEF Current, Choices
  <2>2. holding[a] \in Nat /\ a # NoAccount
    BY <1>3, <2>1, AtHand
  <2>3. QED BY <1>1, <1>12, <1>14, <2>2
<1>16. QED
  BY <1>1, <1>2, <1>3, <1>4, <1>10, <1>12, <1>13, <1>14, <1>15, AskedAnew

-----------------------------------------------------------------------------
(* The storage is opened, closed or lost, and written to.                  *)

LEMMA OpenVaultStep ==
  ASSUME IInv, NEW f \in Files, OpenVault(f)
  PROVE  IInv'
<1>1. /\ toHear = {} /\ slot = "none" /\ ~banking /\ generation < MaxGeneration
      /\ file' = f /\ slot' = "opening" /\ f # NoFile
      /\ UNCHANGED <<generation, holding, active, written, read, telling, toHear, banking,
                     tree, account, order, tx, so, app, dialog, due, acts, setups>>
  BY ReadersAssumption DEF OpenVault, InEventLoop
<1>2. account = NoAccount /\ tree = {} /\ file = NoFile
  BY <1>1 DEF IInv, Session
<1>3. Types' /\ Owned'
  BY <1>1 DEF IInv, Types, Owned, Out, Told
<1>4. Turn'
  BY <1>1 DEF IInv, Turn
<1>5. read # NoRead => read.since # generation
  BY <1>2, ReadersAssumption DEF IInv, Types, Session, ReadRuns
<1>6. Session'
  BY <1>1, <1>2, <1>5 DEF IInv, Session
<1>7. Out(read, "tx") => tx.stale
  BY <1>2, ReadersAssumption DEF IInv, TableFits, RunFits, ItemsFit
<1>8. TableFits'
  BY <1>1, <1>7 DEF IInv, TableFits, RunFits
<1>9. FreshIfCurrent' /\ OrdersFit'
  BY <1>1, <1>2 DEF FreshIfCurrent, Current, IInv, OrdersFit
<1>10. QED BY <1>3, <1>4, <1>6, <1>8, <1>9 DEF IInv

LEMMA ReadAccountsStep ==
  ASSUME IInv, ReadAccounts
  PROVE  IInv'
<1>1. /\ slot = "opening" /\ slot' = "none"
      /\ UNCHANGED <<holding, active, written, telling, toHear, tree, account, order, tx, so,
                     app, acts, setups>>
  BY DEF ReadAccounts
<1>2. /\ toHear = {} /\ file # NoFile /\ ~banking /\ generation < MaxGeneration
      /\ account = NoAccount /\ tree = {}
  BY <1>1 DEF IInv, Turn, Session
<1>3. PICK v \in Answers(read) :
        /\ read' = After(read, "dialog", TRUE, v, NoAccount, order, 0)
        /\ dialog' = (dialog \/ v = "started")
        /\ banking' = (v # "refused")
        /\ due' = (due \/ v = "busy")
        /\ file' = IF v = "refused" THEN NoFile ELSE file
        /\ generation' = IF v = "refused" THEN generation + 1 ELSE generation
  BY DEF ReadAccounts
<1>4. /\ read \in ReadRuns \cup {NoRead} /\ file \in Files \cup {NoFile}
      /\ generation \in Nat /\ MaxGeneration \in Nat /\ NoAccount \in Choices
      /\ order \in Orders /\ v \in {"started", "busy", "refused"}
      /\ dialog \in BOOLEAN /\ due \in BOOLEAN
  BY AtHand, ReadersAssumption DEF IInv, Types, Choices, Answers
<1>5. /\ read' \in ReadRuns \cup {NoRead} /\ Grown(read, read', {"dialog"})
      /\ v = "started" => Out(read', "dialog")
      /\ v # "started" => read' = read
  <2> DEFINE z == After(read, "dialog", TRUE, v, NoAccount, order, 0)
  <2>1. /\ z \in ReadRuns \cup {NoRead} /\ Grown(read, z, {"dialog"})
        /\ v = "started" => Out(z, "dialog")
        /\ v # "started" => z = read
    <3>1. v \in Answers(read)
      BY <1>3
    <3>2. /\ read \in ReadRuns \cup {NoRead} /\ file \in Files \cup {NoFile}
          /\ generation \in Nat /\ order \in Orders /\ NoAccount \in Choices
      BY <1>4
    <3>3. "dialog" \in Readers /\ 0 \in Nat
      BY DEF Readers
    <3>4. QED BY <3>1, <3>2, <3>3, AfterAsking
  <2>2. read' = z
    BY <1>3
  <2> HIDE DEF z
  <2>3. QED BY <2>1, <2>2
<1>6. Types'
  <2>1. file' \in Files \cup {NoFile} /\ generation' \in 0..MaxGeneration
    BY <1>2, <1>3, <1>4
  <2>2. banking' \in BOOLEAN /\ dialog' \in BOOLEAN /\ due' \in BOOLEAN
    BY <1>3, <1>4
  <2>3. QED BY <1>1, <1>5, <2>1, <2>2 DEF IInv, Types
<1>7. Owned'
  <2>1. \A c \in Readers : ~Told(c) /\ ~Told(c)'
    BY <1>1, <1>2 DEF Told
  <2>2. \A c \in Readers \ {"dialog"} : Out(read', c) <=> Out(read, c)
    BY <1>5 DEF Grown, Out
  <2>3. dialog' <=> Out(read', "dialog")
    BY <1>3, <1>5, <2>1 DEF IInv, Owned, Readers
  <2>4. QED BY <1>1, <2>1, <2>2, <2>3 DEF IInv, Owned, Readers, Out
<1>8. Turn'
  BY <1>1, <1>2 DEF IInv, Turn
<1>9. Session'
  <2>1. CASE v = "refused"
    <3>1. read' = read /\ file' = NoFile /\ generation' = generation + 1
      BY <1>3, <1>5, <2>1
    <3>2. read # NoRead => read.since \in Nat /\ read.since <= generation
      BY <1>4 DEF IInv, Session, ReadRuns
    <3>3. QED BY <1>1, <1>2, <1>4, <3>1, <3>2 DEF Session
  <2>2. CASE v # "refused"
    <3>1. banking' /\ file' = file /\ generation' = generation
      BY <1>3, <2>2
    <3>2. read' # NoRead => /\ read'.since <= generation
                            /\ read'.since = generation => read'.on = file
      BY <1>4, <1>5 DEF IInv, Session, Grown
    <3>3. QED BY <1>1, <1>2, <3>1, <3>2 DEF Session
  <2>3. QED BY <2>1, <2>2
<1>10. Out(read, "tx") => tx.stale
  BY <1>2, ReadersAssumption DEF IInv, TableFits, RunFits, ItemsFit
<1>11. (Out(read', "tx") <=> Out(read, "tx")) /\ ItemsFit(read')
  BY <1>5, ForeignCall DEF IInv, TableFits
<1>12. TableFits'
  BY <1>1, <1>10, <1>11 DEF IInv, TableFits, RunFits
<1>13. FreshIfCurrent'
  BY <1>1, <1>2 DEF FreshIfCurrent, Current
<1>14. OrdersFit'
  BY <1>1, <1>5, ForeignToOrders DEF IInv, OrdersFit
<1>15. QED BY <1>6, <1>7, <1>8, <1>9, <1>12, <1>13, <1>14 DEF IInv

LEMMA CloseVaultStep ==
  ASSUME IInv, CloseVault
  PROVE  IInv'
<1>1. /\ toHear = {} /\ slot = "none" /\ GiveUpAccount(tx, so)
      /\ file # NoFile => generation < MaxGeneration
      /\ file' = NoFile /\ banking' = FALSE /\ tree' = {} /\ written' = "shown"
      /\ generation' = IF file = NoFile THEN generation ELSE generation + 1
      /\ UNCHANGED <<holding, active, read, telling, toHear, slot, app, dialog, due, acts,
                     setups>>
  BY DEF CloseVault, InEventLoop, wayVars
<1>2. /\ tx' \in TxTable /\ so' \in SoTable
      /\ account' = NoAccount /\ order' \in Orders
      /\ tx'.pending = tx.pending /\ so'.pending = so.pending
      /\ Shape(tx', account', order') /\ Going(tx', account')
      /\ Out(read, "tx") => tx'.stale
      /\ SoFits(so', account', read)
  BY <1>1, GiveUpFits
<1>3. generation \in Nat /\ MaxGeneration \in Nat /\ generation \in 0..MaxGeneration
  BY ReadersAssumption DEF IInv, Types
<1>4. Types'
  <2>1. generation' \in 0..MaxGeneration
    BY <1>1, <1>3
  <2>2. QED BY <1>1, <1>2, <2>1 DEF IInv, Types, Choices
<1>5. Owned'
  BY <1>1, <1>2 DEF IInv, Owned, Out, Told
<1>6. Turn'
  BY <1>1 DEF IInv, Turn
<1>7. read # NoRead => read.since <= generation' /\ read.since # generation'
  BY <1>1, <1>3, ReadersAssumption DEF IInv, Types, Session, ReadRuns
<1>8. Session'
  BY <1>1, <1>2, <1>7 DEF Session
<1>9. TableFits'
  BY <1>1, <1>2 DEF IInv, TableFits, RunFits
<1>10. FreshIfCurrent' /\ OrdersFit'
  BY <1>1, <1>2 DEF FreshIfCurrent, Current, OrdersFit
<1>11. QED BY <1>4, <1>5, <1>6, <1>8, <1>9, <1>10 DEF IInv

LEMMA VaultFallsStep ==
  ASSUME IInv, VaultFalls
  PROVE  IInv'
<1>1. /\ toHear = {} /\ slot = "none" /\ generation < MaxGeneration
      /\ file' = NoFile /\ generation' = generation + 1
      /\ UNCHANGED <<holding, active, written, read, telling, toHear, slot, banking, tree,
                     account, order, tx, so, app, dialog, due, acts, setups>>
  BY DEF VaultFalls, InEventLoop, wayVars
<1>2. generation \in Nat /\ MaxGeneration \in Nat /\ generation \in 0..MaxGeneration
  BY ReadersAssumption DEF IInv, Types
<1>3. Types'
  <2>1. generation' \in 0..MaxGeneration
    BY <1>1, <1>2
  <2>2. QED BY <1>1, <2>1 DEF IInv, Types
<1>4. Owned'
  BY <1>1 DEF IInv, Owned, Out, Told
<1>5. Turn'
  BY <1>1 DEF IInv, Turn
<1>6. Session'
  BY <1>1, <1>2 DEF IInv, Types, Session, ReadRuns
<1>7. TableFits'
  BY <1>1 DEF IInv, TableFits, RunFits
<1>8. FreshIfCurrent' /\ OrdersFit'
  BY <1>1, ReadersAssumption DEF FreshIfCurrent, Current, IInv, Types, Choices, OrdersFit
<1>9. QED BY <1>3, <1>4, <1>5, <1>6, <1>7, <1>8 DEF IInv

(* A step that writes, or that asks for a refresh, leaves one to be owed.  *)
LEMMA OwingStep ==
  ASSUME IInv, holding' \in [Accounts -> 0..MaxBookings], active' \in SUBSET Accounts,
         written' \in {"shown", "storing", "untold"}, due' \in BOOLEAN,
         setups' \in 0..MaxSetups, written' # "shown" \/ due',
         UNCHANGED <<file, generation, read, telling, toHear, slot, banking, tree, account,
                     order, tx, so, app, dialog, acts>>
  PROVE  IInv'
<1>1. Types'
  BY DEF IInv, Types
<1>2. Owned' /\ Turn' /\ Session' /\ TableFits'
  BY DEF IInv, Owned, Out, Told, Turn, Session, TableFits
<1>3. FreshIfCurrent' /\ OrdersFit'
  BY DEF FreshIfCurrent, Current, IInv, OrdersFit
<1>4. QED BY <1>1, <1>2, <1>3 DEF IInv

LEMMA StoreStep ==
  ASSUME IInv, NEW a \in Accounts, Store(a)
  PROVE  IInv'
<1>1. holding' = [holding EXCEPT ![a] = @ + 1] /\ holding[a] < MaxBookings
  BY DEF Store
<1>2. holding \in [Accounts -> 0..MaxBookings] /\ MaxBookings \in Nat
  BY ReadersAssumption DEF IInv, Types
<1>3. holding' \in [Accounts -> 0..MaxBookings]
  BY <1>1, <1>2
<1>4. QED BY <1>3, OwingStep DEF Store, wayVars, IInv, Types

LEMMA FetchEndsStep ==
  ASSUME IInv, FetchEnds
  PROVE  IInv'
  BY OwingStep DEF FetchEnds, wayVars, IInv, Types

LEMMA SetUpStep ==
  ASSUME IInv, NEW a \in Accounts, SetUp(a)
  PROVE  IInv'
<1>1. active' \in SUBSET Accounts /\ setups' \in 0..MaxSetups
  BY ReadersAssumption DEF SetUp, IInv, Types
<1>2. QED BY <1>1, OwingStep DEF SetUp, wayVars, IInv, Types

LEMMA RefreshStep ==
  ASSUME IInv, Refresh
  PROVE  IInv'
<1>1. /\ toHear = {} /\ slot = "none" /\ due' = FALSE
      /\ UNCHANGED <<file, generation, holding, active, telling, toHear, slot, banking, tree,
                     account, order, tx, so, dialog, acts, setups>>
  BY DEF Refresh, InEventLoop
<1>2. \A c \in Readers : ~Told(c) /\ ~Told(c)'
  BY <1>1 DEF Told
<1>3. CASE file = NoFile
  <2>1. UNCHANGED <<read, app, written>>
    BY <1>3 DEF Refresh
  <2>2. Types' /\ Owned' /\ Turn' /\ Session' /\ TableFits'
    BY <1>1, <2>1 DEF IInv, Types, Owned, Out, Told, Turn, Session, TableFits
  <2>3. FreshIfCurrent' /\ OrdersFit'
    BY <1>1, <1>3, <2>1, ReadersAssumption DEF FreshIfCurrent, Current, IInv, Types, Choices,
                                              OrdersFit
  <2>4. QED BY <2>2, <2>3 DEF IInv
<1>4. CASE file # NoFile
  <2>1. PICK v \in Answers(read) :
          /\ read' = After(read, "app", TRUE, v, NoAccount, order, 0)
          /\ app' = IF v = "started" THEN [reading |-> TRUE, chosen |-> account] ELSE app
          /\ written' = IF written = "storing" THEN "storing"
                        ELSE IF v = "started" THEN "shown" ELSE "untold"
    BY <1>4 DEF Refresh
  <2>2. /\ read \in ReadRuns \cup {NoRead} /\ file \in Files \cup {NoFile}
        /\ generation \in Nat /\ order \in Orders /\ NoAccount \in Choices
    BY AtHand DEF Choices
  <2>3. /\ read' \in ReadRuns \cup {NoRead} /\ Grown(read, read', {"app"})
        /\ v = "started" => Out(read', "app")
        /\ v # "started" => read' = read
    <3> DEFINE z == After(read, "app", TRUE, v, NoAccount, order, 0)
    <3>1. "app" \in Readers /\ 0 \in Nat /\ v \in Answers(read)
      BY <2>1 DEF Readers
    <3>2. /\ z \in ReadRuns \cup {NoRead} /\ Grown(read, z, {"app"})
          /\ v = "started" => Out(z, "app")
          /\ v # "started" => z = read
      BY ONLY <3>1, <2>2, AfterAsking
    <3>3. read' = z
      BY <2>1
    <3> QED BY <3>2, <3>3
  <2>4. app' \in [reading : BOOLEAN, chosen : Choices]
    BY <2>1 DEF IInv, Types
  <2>5. Types'
    BY <1>1, <2>1, <2>3, <2>4 DEF IInv, Types
  <2>6. \A c \in Readers \ {"app"} : Out(read', c) <=> Out(read, c)
    BY <2>3 DEF Grown, Out
  <2>7. app'.reading <=> Out(read', "app")
    BY <1>2, <2>1, <2>3 DEF IInv, Owned, Readers
  <2>8. Owned'
    BY <1>1, <1>2, <2>6, <2>7 DEF IInv, Owned, Readers, Out
  <2>9. Turn' /\ Session'
    <3>1. account' # NoAccount => banking
      BY <1>1 DEF IInv, Session
    <3>2. QED BY <1>1, <2>3, <3>1, WayKept
  <2>10. TableFits'
    BY <1>1, <2>3, ForeignCall DEF IInv, TableFits
  <2>11. ~Current'
    BY <2>1 DEF Current
  <2>12. FreshIfCurrent' /\ OrdersFit'
    BY <1>1, <2>3, <2>11, ForeignToOrders DEF FreshIfCurrent, IInv, OrdersFit
  <2>13. QED BY <2>5, <2>8, <2>9, <2>10, <2>12 DEF IInv
<1>5. QED BY <1>3, <1>4

-----------------------------------------------------------------------------
(* The worker thread, and the way back.                                    *)

(* A run goes on and nothing else happens.                                 *)
LEMMA WorkerStep ==
  ASSUME IInv, read # NoRead, read' \in ReadRuns,
         read'.by = read.by, read'.on = read.on, read'.since = read.since,
         read'.account = read.account, read'.order = read.order,
         read'.offset = read.offset, ItemsFit(read'),
         Current /\ Out(read, "tx") /\ ~tx.stale =>
           /\ read'.kind # "failed" =>
                read'.items = WindowOf(account, order, holding[account], tx.loaded)
           /\ read'.counted => read'.count = holding[account],
         UNCHANGED <<file, generation, holding, active, written, telling, toHear, slot,
                     banking, tree, account, order, tx, so, app, dialog, due, acts, setups>>
  PROVE  IInv'
<1>1. read' # NoRead /\ \A c \in Readers : Out(read', c) <=> Out(read, c)
  BY DEF ReadRuns, NoRead, Out
<1>2. Types'
  BY DEF IInv, Types
<1>3. Owned'
  BY <1>1 DEF IInv, Owned, Out, Told
<1>4. Turn' /\ Session'
  BY <1>1 DEF IInv, Turn, Session
<1>5. TableFits'
  BY <1>1 DEF IInv, TableFits, RunFits, Out
<1>6. FreshIfCurrent'
  <2>1. SUFFICES ASSUME Current
                 PROVE  Fresh(tx, account, order, read', holding[account])
    BY DEF FreshIfCurrent, Current
  <2>2. Fresh(tx, account, order, read, holding[account])
    BY <2>1 DEF IInv, FreshIfCurrent
  <2>3. Out(read', "tx") <=> Out(read, "tx")
    BY <1>1 DEF Readers
  <2>4. QED BY <2>1, <2>2, <2>3 DEF Fresh
<1>7. OrdersFit'
  BY <1>1 DEF IInv, OrdersFit, SoFits, Readers
<1>8. QED BY <1>2, <1>3, <1>4, <1>5, <1>6, <1>7 DEF IInv

LEMMA CloneStep ==
  ASSUME IInv, Clone
  PROVE  IInv'
<1>1. /\ read.stage = "started"
      /\ UNCHANGED <<file, generation, holding, active, written, telling, toHear, slot,
                     banking, tree, account, order, tx, so, app, dialog, due, acts, setups>>
  BY DEF Clone, storageVars
<1>2. read # NoRead /\ read \in ReadRuns
  BY <1>1 DEF IInv, Types, NoRead
<1>3. PICK stage \in {"working", "ended"} : read' = [read EXCEPT !.stage = stage]
  BY DEF Clone
<1>4. read' \in ReadRuns
  BY <1>2, <1>3, Zenon DEF ReadRuns
<1>5. /\ read'.by = read.by /\ read'.on = read.on /\ read'.since = read.since
      /\ read'.account = read.account /\ read'.order = read.order
      /\ read'.offset = read.offset /\ read'.kind = read.kind /\ read'.items = read.items
      /\ read'.counted = read.counted /\ read'.count = read.count
  BY <1>2, <1>3, SMT DEF ReadRuns
<1>6. Out(read, "tx") => read.kind = "failed"
  BY <1>1 DEF IInv, TableFits, ItemsFit
<1>7. ItemsFit(read')
  BY <1>2, <1>5, <1>6 DEF IInv, TableFits, ItemsFit, Out
<1>8. Current /\ Out(read, "tx") /\ ~tx.stale =>
        /\ read'.kind # "failed" =>
             read'.items = WindowOf(account, order, holding[account], tx.loaded)
        /\ read'.counted => read'.count = holding[account]
  BY <1>5, <1>6 DEF IInv, FreshIfCurrent, Fresh
<1>9. QED BY <1>1, <1>2, <1>4, <1>5, <1>7, <1>8, WorkerStep

LEMMA ReadRowsStep ==
  ASSUME IInv, ReadRows
  PROVE  IInv'
<1>1. /\ read.stage = "working"
      /\ UNCHANGED <<file, generation, holding, active, written, telling, toHear, slot,
                     banking, tree, account, order, tx, so, app, dialog, due, acts, setups>>
  BY DEF ReadRows, storageVars
<1>2. read # NoRead /\ read \in ReadRuns
  BY <1>1 DEF IInv, Types, NoRead
<1>3. Out(read, "tx") => read.kind = "failed" /\ read.account \in Accounts
  BY <1>1 DEF IInv, TableFits, ItemsFit
(* The window is read from the holding of the moment. *)
<1>4. ASSUME NEW counted \in BOOLEAN, read.by = "tx",
             LET items == WindowOf(read.account, read.order, holding[read.account],
                                   read.offset)
             IN  read' = [read EXCEPT !.stage = "ended", !.items = items,
                                      !.kind = IF items = <<>> THEN "notfound" ELSE "result",
                                      !.counted = counted,
                                      !.count = IF counted THEN holding[read.account] ELSE 0]
      PROVE  IInv'
  <2> DEFINE items == WindowOf(read.account, read.order, holding[read.account], read.offset)
             kind == IF items = <<>> THEN "notfound" ELSE "result"
             count == IF counted THEN holding[read.account] ELSE 0
  <2>1. Out(read, "tx") /\ read.account \in Accounts
    BY <1>2, <1>3, <1>4 DEF Out
  <2>2. holding[read.account] \in 0..MaxBookings /\ holding[read.account] \in Nat
    BY <2>1, AtHand
  <2>3. items \in Seq(Bookings)
    BY <1>2, <2>1, <2>2, WindowOfHolding DEF ReadRuns
  <2>4. read' = [read EXCEPT !.stage = "ended", !.items = items, !.kind = kind,
                             !.counted = counted, !.count = count]
    BY <1>4
  <2>5. kind \in {"failed", "notfound", "result"} /\ count \in Nat /\ kind # "failed"
        /\ (kind = "result" <=> items # <<>>)
    BY <2>2
  <2> HIDE DEF items, kind, count
  <2>6. read' \in ReadRuns
    BY <1>2, <2>3, <2>4, <2>5, Zenon DEF ReadRuns
  <2>7. /\ read'.by = read.by /\ read'.on = read.on /\ read'.since = read.since
        /\ read'.account = read.account /\ read'.order = read.order
        /\ read'.offset = read.offset /\ read'.kind = kind /\ read'.items = items
        /\ read'.counted = counted /\ read'.count = count /\ read'.stage = "ended"
    BY <1>2, <2>4, SMT DEF ReadRuns
  <2>8. ItemsFit(read')
    BY <2>1, <2>2, <2>5, <2>7 DEF ItemsFit, items
  <2>9. ASSUME ~tx.stale
        PROVE  /\ items = WindowOf(account, order, holding[account], tx.loaded)
               /\ counted => count = holding[account]
    BY <2>1, <2>9 DEF IInv, TableFits, RunFits, items, count
  <2>10. QED BY <1>1, <1>2, <2>6, <2>7, <2>8, <2>9, WorkerStep
<1>5. ASSUME NEW kind \in {"result", "notfound"}, read.by = "so",
             read' = [read EXCEPT !.stage = "ended", !.kind = kind]
      PROVE  IInv'
  <2>1. read' \in ReadRuns
    BY <1>2, <1>5, Zenon DEF ReadRuns
  <2>2. /\ read'.by = read.by /\ read'.on = read.on /\ read'.since = read.since
        /\ read'.account = read.account /\ read'.order = read.order
        /\ read'.offset = read.offset
    BY <1>2, <1>5, SMT DEF ReadRuns
  <2>3. ~Out(read, "tx") /\ ItemsFit(read')
    BY <1>5, <2>2 DEF Out, ItemsFit
  <2>4. QED BY <1>1, <1>2, <2>1, <2>2, <2>3, WorkerStep
<1>6. ASSUME read.by \in {"app", "dialog"}, NEW kind \in {"result", "notfound"},
             read' = [read EXCEPT !.stage = "ended", !.kind = kind, !.shown = Kept(read.on)]
      PROVE  IInv'
  <2> DEFINE shown == Kept(read.on)
  <2>1. shown \in SUBSET Accounts
        /\ read' = [read EXCEPT !.stage = "ended", !.kind = kind, !.shown = shown]
    BY <1>6 DEF IInv, Types, Kept
  <2> HIDE DEF shown
  <2>2. read' \in ReadRuns
    BY <1>2, <2>1, Zenon DEF ReadRuns
  <2>3. /\ read'.by = read.by /\ read'.on = read.on /\ read'.since = read.since
        /\ read'.account = read.account /\ read'.order = read.order
        /\ read'.offset = read.offset
    BY <1>2, <2>1, SMT DEF ReadRuns
  <2>4. ~Out(read, "tx") /\ ItemsFit(read')
    BY <1>6, <2>3 DEF Out, ItemsFit
  <2>5. QED BY <1>1, <1>2, <2>2, <2>3, <2>4, WorkerStep
<1>7. ASSUME read' = [read EXCEPT !.stage = "ended"]
      PROVE  IInv'
  <2>1. read' \in ReadRuns
    BY <1>2, <1>7, Zenon DEF ReadRuns
  <2>2. /\ read'.by = read.by /\ read'.on = read.on /\ read'.since = read.since
        /\ read'.account = read.account /\ read'.order = read.order
        /\ read'.offset = read.offset /\ read'.kind = read.kind /\ read'.items = read.items
        /\ read'.counted = read.counted /\ read'.count = read.count
    BY <1>2, <1>7, SMT DEF ReadRuns
  <2>3. ItemsFit(read')
    BY <1>2, <1>3, <2>2 DEF ItemsFit, Out
  <2>4. Current /\ Out(read, "tx") /\ ~tx.stale =>
          /\ read'.kind # "failed" =>
               read'.items = WindowOf(account, order, holding[account], tx.loaded)
          /\ read'.counted => read'.count = holding[account]
    BY <1>3, <2>2 DEF IInv, FreshIfCurrent, Fresh
  <2>5. QED BY <1>1, <1>2, <2>1, <2>2, <2>3, <2>4, WorkerStep
<1>8. QED BY <1>4, <1>5, <1>6, <1>7 DEF ReadRows

LEMMA HandOnStep ==
  ASSUME IInv, Connected, HandOn
  PROVE  IInv'
<1> DEFINE now == read.since = generation
           Shown == now /\ read.by \in {"app", "dialog"} /\ read.kind = "result"
<1>1. /\ toHear = {} /\ slot = "none" /\ read.stage = "ended"
      /\ read' = NoRead /\ toHear' = Readers
      /\ telling' = [kind |-> IF read.since # generation THEN "silent"
                              ELSE IF read.kind = "result" THEN "result" ELSE "failed",
                     by |-> read.by, on |-> read.on]
      /\ UNCHANGED <<file, generation, holding, active, written, slot, banking, app, dialog,
                     due, acts, setups>>
  BY DEF HandOn, InEventLoop, storageVars
<1>2. read # NoRead /\ read \in ReadRuns /\ read.by \in Readers /\ read.on \in Files
  BY <1>1 DEF IInv, Types, NoRead, ReadRuns
<1>3. /\ tx \in TxTable /\ so \in SoTable /\ account \in Choices /\ order \in Orders
      /\ Shape(tx, account, order) /\ Going(tx, account) /\ ItemsFit(read)
      /\ RunFits(tx, account, order, read, file, generation)
      /\ tx.pending <=> Out(read, "tx")
      /\ so.pending <=> Out(read, "so")
      /\ \A a \in Accounts : holding[a] \in 0..MaxBookings
      /\ NoAccount \notin Accounts /\ SoFits(so, account, read)
  BY <1>1, AtHand DEF Told
<1>4. \A c \in Readers : ~Out(NoRead, c) /\ (Told(c)' <=> Out(read, c)) /\ ~Told(c)
  BY <1>1, <1>2 DEF Out, Told
<1>5. telling' # Quiet
      /\ telling' \in [kind : {"result", "failed", "silent"}, by : Readers, on : Files]
  BY <1>1, <1>2 DEF Quiet
<1>6. (file = read.on /\ banking) \/ ~now
  BY <1>1, <1>2, ReadersAssumption DEF IInv, Session
<1>7. ItemsFit(NoRead)
      /\ \A m, a, o : RunFits(m, a, o, NoRead, file, generation)
  BY DEF ItemsFit, RunFits, Out
(* What has to be shown of the tables, and what follows from it. *)
<1>8. ASSUME tx' \in TxTable, so' \in SoTable, tree' \in SUBSET Accounts,
             account' \in Choices, order' \in Orders,
             tx'.pending = tx.pending, so'.pending = so.pending,
             Shape(tx', account', order'), Going(tx', account'),
             tree' # {} => banking, account' # NoAccount => banking,
             so'.rows \in {account', NoAccount},
             Current' => Fresh(tx', account', order', NoRead, holding[account'])
      PROVE  IInv'
  <2>1. Types'
    BY <1>1, <1>5, <1>8 DEF IInv, Types
  <2>2. Owned'
    BY <1>1, <1>3, <1>4, <1>8 DEF IInv, Owned, Out, Told, Readers
  <2>3. Turn'
    BY <1>1, <1>5 DEF Turn, Readers
  <2>4. Session'
    BY <1>1, <1>8 DEF IInv, Session
  <2>5. TableFits' /\ FreshIfCurrent' /\ OrdersFit'
    BY <1>1, <1>4, <1>7, <1>8 DEF TableFits, FreshIfCurrent, OrdersFit, SoFits, Readers
  <2>6. QED BY <2>1, <2>2, <2>3, <2>4, <2>5 DEF IInv
<1>9. tree \in SUBSET Accounts /\ (tree # {} => banking) /\ (account # NoAccount => banking)
  BY DEF IInv, Types, Session
(* The table of the bookings, where no result of its own comes. *)
<1>10. ASSUME UNCHANGED <<account, order, tx>>, Current', ~Out(read, "tx") \/ ~now
       PROVE  Fresh(tx', account', order', NoRead, holding[account'])
  <2>1. Current
    BY <1>1, <1>10 DEF Current
  <2>2. file # NoFile
    BY <1>3, <2>1, ReadersAssumption DEF Current, Choices
  <2>3. ~Out(read, "tx") \/ (tx.stale /\ tx.pending)
    BY <1>3, <1>10, <2>2 DEF RunFits
  <2>4. Fresh(tx, account, order, read, holding[account])
    BY <2>1 DEF IInv, FreshIfCurrent
  <2>5. QED BY <1>4, <1>10, <2>3, <2>4 DEF Fresh, Readers
(* There is a connection if and only if it is the accounts that were read. *)
<1>11. takers # {} <=> read.by \in {"app", "dialog"}
  BY <1>1, <1>2, <1>4 DEF Connected, IInv, Owned, Out, Readers
<1>12. CASE Shown
  <2>1. SetItems(read.shown, tx, so) /\ ~Out(read, "tx")
    <3>1. read.by # "tx" /\ read.by # "so" /\ takers # {}
      BY <1>12, <1>11
    <3>2. QED BY <1>12, <3>1 DEF HandOn, Out
  <2>2. tree' = read.shown /\ tree' \in SUBSET Accounts /\ banking
    BY <1>2, <1>6, <1>12, <2>1 DEF SetItems, ReadRuns
  <2>3. CASE read.shown = tree
    <3>1. UNCHANGED <<account, order, tx, so>>
      BY <2>1, <2>3 DEF SetItems
    <3>2. Current' => Fresh(tx', account', order', NoRead, holding[account'])
      BY <1>10, <2>1, <3>1
    <3>3. QED BY <1>3, <1>8, <2>2, <3>1, <3>2 DEF SoFits
  <2>4. CASE read.shown # tree
    <3>1. GiveUpAccount(tx, so)
      BY <2>1, <2>4 DEF SetItems
    <3>2. /\ tx' \in TxTable /\ so' \in SoTable
          /\ account' = NoAccount /\ order' \in Orders
          /\ tx'.pending = tx.pending /\ so'.pending = so.pending
          /\ Shape(tx', account', order') /\ Going(tx', account')
          /\ so'.rows \in {account', NoAccount}
      BY <3>1, GiveUpFits DEF SoFits
    <3>3. ~Current' /\ account' \in Choices
      BY <3>2 DEF Current, Choices
    <3>4. QED BY <1>8, <2>2, <3>2, <3>3
  <2>5. QED BY <2>3, <2>4
<1>13. CASE ~Shown
  <2>1. /\ tx' = IF now /\ read.by = "tx" THEN TxTake(tx, read) ELSE tx
        /\ so' = IF now /\ read.by = "so" THEN SoTake(so, read) ELSE so
        /\ UNCHANGED <<tree, account, order>>
    BY <1>13, <1>11 DEF HandOn
  <2>2. so' \in SoTable /\ so'.pending = so.pending /\ so'.rows \in {account, NoAccount}
    <3>1. CASE now /\ read.by = "so"
      BY <1>2, <1>3, <2>1, <3>1, SoTaken DEF SoFits, Out
    <3>2. CASE ~(now /\ read.by = "so")
      BY <1>3, <2>1, <3>2 DEF SoFits
    <3>3. QED BY <3>1, <3>2
  <2>3. CASE now /\ read.by = "tx"
    <3> DEFINE q == TxTake(tx, read)
    <3>1. tx' = q /\ Out(read, "tx") /\ tx.pending
      BY <1>2, <1>3, <2>1, <2>3 DEF Out
    <3>2. /\ q \in TxTable /\ q.pending = tx.pending
          /\ Shape(q, account, order) /\ Going(q, account)
          /\ \A n \in 0..MaxBookings :
               Fresh(tx, account, order, read, n) => Fresh(q, account, order, NoRead, n)
      BY <1>2, <1>3, <3>1, TakeFits
    <3> HIDE DEF q
    <3>3. ASSUME Current'
          PROVE  Fresh(tx', account', order', NoRead, holding[account'])
      <4>1. Current
        BY <1>1, <2>1, <3>3 DEF Current
      <4>2. Fresh(tx, account, order, read, holding[account]) /\ account \in Accounts
        BY <1>3, <4>1 DEF IInv, FreshIfCurrent, Current, Choices
      <4>3. QED BY <1>1, <1>3, <2>1, <3>1, <3>2, <4>2
    <3>4. QED BY <1>3, <1>8, <1>9, <2>1, <2>2, <3>1, <3>2, <3>3
  <2>4. CASE ~(now /\ read.by = "tx")
    <3>1. UNCHANGED <<account, order, tx>>
      BY <2>1, <2>4
    <3>2. ~Out(read, "tx") \/ ~now
      BY <2>4 DEF Out
    <3>3. Current' => Fresh(tx', account', order', NoRead, holding[account'])
      BY <1>10, <3>1, <3>2
    <3>4. QED BY <1>3, <1>8, <1>9, <2>1, <2>2, <3>1, <3>3
  <2>5. QED BY <2>3, <2>4
<1>14. QED BY <1>12, <1>13

-----------------------------------------------------------------------------
(* The end is heard, by one listener after the other.                      *)

LEMMA InTurn ==
  /\ NextToHear("tx") => "tx" \in toHear
  /\ NextToHear("so") => "so" \in toHear /\ "tx" \notin toHear
  /\ NextToHear("app") => "app" \in toHear /\ {"tx", "so"} \cap toHear = {}
  /\ NextToHear("dialog") => "dialog" \in toHear /\ {"tx", "so"} \cap toHear = {}
<1>1. /\ DOMAIN Listeners = 1..4
      /\ Listeners[1] = "tx" /\ Listeners[2] = "so"
      /\ Listeners[3] = "app" /\ Listeners[4] = "dialog"
  BY DEF Listeners
<1>2. ASSUME NEW c, NextToHear(c)
      PROVE  \E i \in 1..4 : /\ Listeners[i] = c /\ c \in toHear
                            /\ \A j \in 1..(i - 1) : Listeners[j] \notin toHear
  BY <1>1, <1>2 DEF NextToHear
<1>3. ASSUME NextToHear("so") PROVE "so" \in toHear /\ "tx" \notin toHear
  <2>1. PICK i \in 1..4 : /\ Listeners[i] = "so" /\ "so" \in toHear
                          /\ \A j \in 1..(i - 1) : Listeners[j] \notin toHear
    BY <1>2, <1>3
  <2>2. i = 2 /\ 1 \in 1..(i - 1)
    BY <1>1, <2>1
  <2>3. QED BY <1>1, <2>1, <2>2
<1>4. ASSUME NEW c \in {"app", "dialog"}, NextToHear(c)
      PROVE  c \in toHear /\ {"tx", "so"} \cap toHear = {}
  <2>1. PICK i \in 1..4 : /\ Listeners[i] = c /\ c \in toHear
                          /\ \A j \in 1..(i - 1) : Listeners[j] \notin toHear
    BY <1>2, <1>4
  <2>2. i \in {3, 4} /\ 1 \in 1..(i - 1) /\ 2 \in 1..(i - 1)
    BY <1>1, <2>1
  <2>3. QED BY <1>1, <2>1, <2>2
<1>5. QED BY <1>2, <1>3, <1>4

LEMMA OthersHearOn ==
  ASSUME IInv, NEW c \in Readers, c \in toHear, Heard(c)
  PROVE  /\ toHear' = toHear \ {c} /\ ~Told(c)'
         /\ \A d \in Readers \ {c} : Told(d)' <=> Told(d)
         /\ toHear' \in SUBSET Readers
         /\ telling' = telling \/ telling' = Quiet
         /\ toHear' = {} <=> telling' = Quiet
<1>1. toHear' = toHear \ {c} /\ telling' = IF toHear = {c} THEN Quiet ELSE telling
  BY DEF Heard
<1>2. telling # Quiet /\ toHear \in SUBSET Readers
  BY DEF IInv, Turn, Types
<1>3. QED BY <1>1, <1>2 DEF Told

LEMMA TxHearsStep ==
  ASSUME IInv, TxHears
  PROVE  IInv'
<1>1. /\ slot = "none" /\ "tx" \in toHear /\ Heard("tx")
      /\ UNCHANGED <<file, generation, holding, active, written, slot, banking, tree, account,
                     order, so, app, dialog, due, acts, setups>>
  BY InTurn DEF TxHears, NextToHear, storageVars
<1>2. /\ toHear' = toHear \ {"tx"} /\ ~Told("tx")'
      /\ \A d \in Readers \ {"tx"} : Told(d)' <=> Told(d)
      /\ toHear' \in SUBSET Readers
      /\ telling' = telling \/ telling' = Quiet
      /\ toHear' = {} <=> telling' = Quiet
  BY <1>1, OthersHearOn DEF Readers
<1>3. read = NoRead /\ \A c \in Readers : ~Out(read, c)
  BY <1>1 DEF IInv, Turn, Out
<1>4. /\ tx \in TxTable /\ account \in Choices /\ order \in Orders
      /\ read \in ReadRuns \cup {NoRead}
      /\ file \in Files \cup {NoFile} /\ generation \in Nat
      /\ Shape(tx, account, order) /\ Going(tx, account) /\ ItemsFit(read)
      /\ \A a \in Accounts : holding[a] \in Nat
  BY AtHand
<1> DEFINE e == TxEnded(tx)
<1>5. /\ e \in TxTable /\ Shape(e, account, order) /\ ~e.pending /\ e.loaded = tx.loaded
      /\ GoesOn(tx) => ~e.atEnd
      /\ ~GoesOn(tx) => Going(e, account)
      /\ \A n \in Nat : RowsAgree(tx, account, order, n) => RowsAgree(e, account, order, n)
      /\ ~GoesOn(tx) /\ account # NoAccount =>
           \A n \in Nat : Fresh(tx, account, order, NoRead, n) => Fresh(e, account, order, NoRead, n)
  BY <1>4, EndedFits
<1>6. PICK v \in Answers(read) :
        IF GoesOn(tx)
        THEN /\ tx' = TxRequest(e, account, v)
             /\ read' = After(read, "tx", Calls(e, account), v, account, order, e.loaded)
        ELSE tx' = e /\ read' = read
  BY DEF TxHears
<1> HIDE DEF e
(* Either way the table is in order, with a run of its own or without.     *)
<1>7. /\ tx' \in TxTable /\ Shape(tx', account, order) /\ Going(tx', account)
      /\ RunFits(tx', account, order, read', file, generation) /\ ItemsFit(read')
      /\ tx'.pending <=> Out(read', "tx")
      /\ read' \in ReadRuns \cup {NoRead} /\ Grown(read, read', {"tx"})
      /\ account # NoAccount =>
           \A n \in Nat : Fresh(tx, account, order, NoRead, n) =>
                           Fresh(tx', account, order, read', n)
  <2>1. CASE GoesOn(tx)
    <3>1. /\ tx' = TxRequest(e, account, v)
          /\ read' = After(read, "tx", Calls(e, account), v, account, order, e.loaded)
      BY <1>6, <2>1
    <3>2. Calls(e, account) \in BOOLEAN /\ e.loaded \in Nat
      BY <1>5 DEF Calls, TxTable
    <3>3. read' \in ReadRuns \cup {NoRead} /\ Grown(read, read', {"tx"})
      BY <1>4, <3>1, <3>2, AfterACall DEF Readers
    <3>4. /\ tx' \in TxTable /\ Shape(tx', account, order) /\ Going(tx', account)
          /\ RunFits(tx', account, order, read', file, generation) /\ ItemsFit(read')
          /\ tx'.pending <=> Out(read', "tx")
          /\ account # NoAccount =>
               \A n \in Nat : RowsAgree(e, account, order, n) =>
                               Fresh(tx', account, order, read', n)
      <4>1. ~e.atEnd /\ (e.pending => e.stale) /\ (e.pending <=> Out(read, "tx"))
        BY <1>3, <1>5, <2>1 DEF Readers
      <4>2. QED BY <1>4, <1>5, <3>1, <4>1, RequestFits
    <3>5. QED BY <1>5, <3>3, <3>4 DEF Fresh
  <2>2. CASE ~GoesOn(tx)
    <3>1. tx' = e /\ read' = NoRead /\ ~Out(NoRead, "tx")
      BY <1>3, <1>6, <2>2 DEF Readers
    <3>2. RunFits(e, account, order, NoRead, file, generation) /\ ItemsFit(NoRead)
      BY <3>1 DEF RunFits, ItemsFit
    <3>3. QED BY <1>3, <1>5, <2>2, <3>1, <3>2 DEF Grown
  <2>3. QED BY <2>1, <2>2
<1>8. Types'
  BY <1>1, <1>2, <1>7 DEF IInv, Types
<1>9. Owned'
  <2>1. \A c \in Readers \ {"tx"} : ~Out(read', c)
    BY <1>3, <1>7 DEF Grown, Out
  <2>2. QED BY <1>1, <1>2, <1>3, <1>7, <2>1 DEF IInv, Owned, Readers, Out, Told
<1>10. Turn' /\ Session'
  <2>1. read' # NoRead => /\ read'.by \notin toHear'
                          /\ read'.since = generation /\ read'.on = file
    BY <1>2, <1>3, <1>7 DEF Grown
  <2>2. Turn'
    BY <1>1, <1>2, <2>1 DEF Turn
  <2>3. Session'
    BY <1>1, <1>4, <2>1 DEF IInv, Session
  <2>4. QED BY <2>2, <2>3
<1>11. TableFits'
  BY <1>1, <1>7 DEF TableFits
<1>12. FreshIfCurrent'
  <2>1. SUFFICES ASSUME Current
                 PROVE  Fresh(tx', account, order, read', holding[account])
    BY <1>1 DEF FreshIfCurrent, Current
  <2>2. Fresh(tx, account, order, NoRead, holding[account])
    BY <1>3, <2>1 DEF IInv, FreshIfCurrent
  <2>3. holding[account] \in Nat /\ account # NoAccount
    BY <1>4, <2>1 DEF Current, Choices
  <2>4. QED BY <1>7, <2>2, <2>3
<1>13. OrdersFit'
  BY <1>1, <1>7, ForeignToOrders DEF IInv, OrdersFit
<1>14. QED BY <1>8, <1>9, <1>10, <1>11, <1>12, <1>13 DEF IInv

LEMMA SoHearsStep ==
  ASSUME IInv, SoHears
  PROVE  IInv'
<1>1. /\ slot = "none" /\ "so" \in toHear /\ "tx" \notin toHear /\ Heard("so")
      /\ UNCHANGED <<file, generation, holding, active, written, slot, banking, tree, account,
                     order, tx, app, dialog, due, acts, setups>>
  BY InTurn DEF SoHears, NextToHear, storageVars
<1>2. /\ toHear' = toHear \ {"so"} /\ ~Told("so")'
      /\ \A d \in Readers \ {"so"} : Told(d)' <=> Told(d)
      /\ toHear' \in SUBSET Readers
      /\ telling' = telling \/ telling' = Quiet
      /\ toHear' = {} <=> telling' = Quiet
  BY <1>1, OthersHearOn DEF Readers
<1>3. ~Out(read, "so") /\ (read # NoRead => read.by \notin toHear')
  BY <1>1, <1>2 DEF IInv, Turn, Out
<1>4. /\ so \in SoTable /\ account \in Choices /\ order \in Orders
      /\ read \in ReadRuns \cup {NoRead}
      /\ file \in Files \cup {NoFile} /\ generation \in Nat
  BY AtHand
<1> DEFINE e == SoEnded(so)
<1>5. e \in SoTable /\ ~e.pending /\ SoFits(e, account, read)
  BY <1>3, <1>4, SoEnding, AtHand DEF SoFits
<1>6. PICK v \in Answers(read) :
        IF GoesOn(so)
        THEN /\ so' = SoRequest(e, account, v)
             /\ read' = After(read, "so", Calls(e, account), v, account, order, 0)
        ELSE so' = e /\ read' = read
  BY DEF SoHears
<1> HIDE DEF e
<1>7. /\ so' \in SoTable /\ (so'.pending <=> Out(read', "so"))
      /\ SoFits(so', account, read')
      /\ read' \in ReadRuns \cup {NoRead} /\ Grown(read, read', {"so"})
  <2>1. CASE GoesOn(so)
    BY <1>3, <1>4, <1>5, <1>6, <2>1, SoAsks
  <2>2. CASE ~GoesOn(so)
    BY <1>3, <1>4, <1>5, <1>6, <2>2 DEF Grown
  <2>3. QED BY <2>1, <2>2
<1>8. Types'
  BY <1>1, <1>2, <1>7 DEF IInv, Types
<1>9. Owned'
  <2>1. \A c \in Readers \ {"so"} : Out(read', c) <=> Out(read, c)
    BY <1>7 DEF Grown, Out
  <2>2. QED BY <1>1, <1>2, <1>7, <2>1 DEF IInv, Owned, Readers, Out, Told
<1>10. Turn' /\ Session'
  <2>1. read' # NoRead => /\ read'.by \notin toHear'
                          /\ read'.since <= generation
                          /\ read'.since = generation => read'.on = file
    BY <1>2, <1>3, <1>4, <1>7 DEF Grown, IInv, Session
  <2>2. /\ slot' = "none" /\ "tx" \notin toHear'
        /\ UNCHANGED <<file, generation, banking, account, tree, slot>>
    BY <1>1, <1>2
  <2>3. Turn'
    BY <1>2, <2>1, <2>2 DEF Turn
  <2>4. Session'
    <3>1. /\ file' # NoFile => banking' \/ slot' = "opening"
          /\ account' # NoAccount => banking'
          /\ tree' # {} => banking'
      BY <2>2 DEF IInv, Session
    <3>2. QED BY <2>1, <2>2, <3>1 DEF Session
  <2>5. QED BY <2>3, <2>4
<1>11. /\ RunFits(tx, account, order, read', file, generation) /\ ItemsFit(read')
       /\ Fresh(tx, account, order, read, holding[account]) =>
            Fresh(tx, account, order, read', holding[account])
  BY <1>7, ForeignCall DEF IInv, TableFits
<1>12. TableFits' /\ FreshIfCurrent' /\ OrdersFit'
  BY <1>1, <1>7, <1>11 DEF IInv, TableFits, FreshIfCurrent, Current, OrdersFit
<1>13. QED BY <1>8, <1>9, <1>10, <1>12 DEF IInv

LEMMA DialogHearsStep ==
  ASSUME IInv, DialogHears
  PROVE  IInv'
<1>1. /\ slot = "none" /\ "dialog" \in toHear /\ Heard("dialog") /\ dialog' = FALSE
      /\ UNCHANGED <<file, generation, holding, active, written, read, slot, banking, tree,
                     account, order, tx, so, app, due, acts, setups>>
  BY InTurn DEF DialogHears, NextToHear, storageVars
<1>2. /\ toHear' = toHear \ {"dialog"} /\ ~Told("dialog")'
      /\ \A d \in Readers \ {"dialog"} : Told(d)' <=> Told(d)
      /\ toHear' \in SUBSET Readers
      /\ telling' = telling \/ telling' = Quiet
      /\ toHear' = {} <=> telling' = Quiet
  BY <1>1, OthersHearOn DEF Readers
<1>3. ~Out(read, "dialog")
  BY <1>1 DEF IInv, Turn, Out
<1>4. Types'
  BY <1>1, <1>2 DEF IInv, Types
<1>5. Owned'
  BY <1>1, <1>2, <1>3 DEF IInv, Owned, Readers, Out, Told
<1>6. Turn' /\ Session'
  BY <1>1, <1>2 DEF IInv, Turn, Session
<1>7. TableFits' /\ FreshIfCurrent' /\ OrdersFit'
  BY <1>1 DEF IInv, TableFits, FreshIfCurrent, Current, OrdersFit
<1>8. QED BY <1>4, <1>5, <1>6, <1>7 DEF IInv

LEMMA AppHearsStep ==
  ASSUME IInv, AppHears
  PROVE  IInv'
<1>1. /\ slot = "none" /\ "app" \in toHear /\ {"tx", "so"} \cap toHear = {} /\ Heard("app")
      /\ app' = [app EXCEPT !.reading = FALSE]
      /\ slot' = IF app.reading THEN "restore" ELSE "none"
      /\ UNCHANGED <<file, generation, holding, active, written, read, banking, tree,
                     account, order, tx, so, dialog, due, acts, setups>>
  BY InTurn DEF AppHears, NextToHear, storageVars
<1>2. /\ toHear' = toHear \ {"app"} /\ ~Told("app")'
      /\ \A d \in Readers \ {"app"} : Told(d)' <=> Told(d)
      /\ toHear' \in SUBSET Readers
      /\ telling' = telling \/ telling' = Quiet
      /\ toHear' = {} <=> telling' = Quiet
  BY <1>1, OthersHearOn DEF Readers
<1>3. ~Out(read, "app")
  BY <1>1 DEF IInv, Turn, Out
<1>4. app' \in [reading : BOOLEAN, chosen : Choices] /\ ~app'.reading
  BY <1>1 DEF IInv, Types
<1>5. Types'
  BY <1>1, <1>2, <1>4 DEF IInv, Types
<1>6. Owned'
  BY <1>1, <1>2, <1>3, <1>4 DEF IInv, Owned, Readers, Out, Told
<1>7. Turn' /\ Session'
  BY <1>1, <1>2 DEF IInv, Turn, Session, Readers
<1>8. Current' => Current
  BY <1>1 DEF Current
<1>9. TableFits' /\ FreshIfCurrent' /\ OrdersFit'
  BY <1>1, <1>8 DEF IInv, TableFits, FreshIfCurrent, OrdersFit
<1>10. QED BY <1>5, <1>6, <1>7, <1>9 DEF IInv

-----------------------------------------------------------------------------
(* The invariant is inductive.                                             *)
LEMMA IInvStep ==
  ASSUME IInv, Connected, [Next]_vars
  PROVE  IInv'
<1>1. CASE UNCHANGED vars
  BY <1>1 DEF vars, storageVars, wayVars, IInv, Types, Owned, Out, Told, Turn, Session,
              TableFits, FreshIfCurrent, Current, OrdersFit
<1>2. ASSUME NEW a \in Accounts \cup {NoAccount}, Select(a) PROVE IInv'
  BY <1>2, SelectStep DEF Choices
<1>3. ASSUME NEW o \in {"newest", "oldest"}, Sort(o) PROVE IInv'
  BY <1>3, SortStep DEF Orders
<1>4. CASE FetchMore
  BY <1>4, FetchMoreStep
<1>5. CASE RefreshOrders
  BY <1>5, RefreshOrdersStep
<1>6. ASSUME NEW f \in Files, OpenVault(f) PROVE IInv'
  BY <1>6, OpenVaultStep
<1>7. CASE ReadAccounts
  BY <1>7, ReadAccountsStep
<1>8. CASE CloseVault
  BY <1>8, CloseVaultStep
<1>9. CASE VaultFalls
  BY <1>9, VaultFallsStep
<1>10. ASSUME NEW a \in Accounts, Store(a) PROVE IInv'
  BY <1>10, StoreStep
<1>11. ASSUME NEW a \in Accounts, SetUp(a) PROVE IInv'
  BY <1>11, SetUpStep
<1>12. CASE FetchEnds
  BY <1>12, FetchEndsStep
<1>13. CASE Refresh
  BY <1>13, RefreshStep
<1>14. CASE Clone
  BY <1>14, CloneStep
<1>15. CASE ReadRows
  BY <1>15, ReadRowsStep
<1>16. CASE HandOn
  BY <1>16, HandOnStep
<1>17. CASE TxHears
  BY <1>17, TxHearsStep
<1>18. CASE SoHears
  BY <1>18, SoHearsStep
<1>19. CASE DialogHears
  BY <1>19, DialogHearsStep
<1>20. CASE AppHears
  BY <1>20, AppHearsStep
<1>21. CASE Restore
  BY <1>21, RestoreStep
<1>22. QED
  BY <1>1, <1>2, <1>3, <1>4, <1>5, <1>6, <1>7, <1>8, <1>9, <1>10, <1>11, <1>12, <1>13,
     <1>14, <1>15, <1>16, <1>17, <1>18, <1>19, <1>20, <1>21 DEF Next

(* The connections: a step that makes and drops none, and takes no end     *)
(* from the window or the overview, leaves them in order.                  *)
LEMMA ConnectionsKept ==
  ASSUME IInv, IInv', Connected, takers' = takers, unread' \in BOOLEAN,
         app'.reading = app.reading, dialog' = dialog,
         \A c \in {"app", "dialog"} : Told(c) => Told(c)'
  PROVE  Connected'
<1>1. \A c \in {"app", "dialog"} : Out(read', c) => ~Told(c)'
  BY DEF IInv, Turn, Out, Told
<1>2. \A c \in {"app", "dialog"} : Out(read', c) => Out(read, c)
  BY <1>1 DEF IInv, Owned, Out, Told
<1>3. QED BY <1>2 DEF Connected, Out

(* An end is on its way to c: no run of c is out.                          *)
LEMMA NotBoth ==
  ASSUME IInv, NEW c, c \in toHear
  PROVE  ~Out(read, c)
  BY DEF IInv, Turn, Out

LEMMA ConnectedStep ==
  ASSUME IInv, IInv', Connected, [Next]_vars
  PROVE  Connected'
<1>1. CASE \/ UNCHANGED vars
           \/ \E a \in Accounts \cup {NoAccount} : Select(a)
           \/ \E o \in {"newest", "oldest"} : Sort(o)
           \/ FetchMore \/ RefreshOrders \/ Restore
           \/ \E f \in Files : OpenVault(f)
           \/ CloseVault \/ VaultFalls
           \/ \E a \in Accounts : Store(a) \/ SetUp(a)
           \/ FetchEnds \/ Clone \/ ReadRows
  <2>1. /\ UNCHANGED <<takers, telling, toHear, dialog>>
        /\ app'.reading = app.reading /\ unread' \in BOOLEAN
    BY <1>1 DEF vars, storageVars, wayVars, Select, Sort, FetchMore, RefreshOrders, Restore,
                OpenVault, CloseVault, VaultFalls, Store, SetUp, FetchEnds, Clone, ReadRows,
                Connected, IInv, Types
  <2>2. QED BY <2>1, ConnectionsKept DEF Told
<1>2. CASE TxHears \/ SoHears
  <2>1. PICK c \in {"tx", "so"} : c \in toHear /\ Heard(c)
    BY <1>2, InTurn DEF TxHears, SoHears
  <2>2. \A d \in Readers \ {c} : Told(d)' <=> Told(d)
    BY <2>1, OthersHearOn DEF Readers
  <2>3. UNCHANGED <<takers, unread, dialog, app>>
    BY <1>2 DEF TxHears, SoHears, storageVars
  <2>4. \A d \in {"app", "dialog"} : Told(d) => Told(d)'
    BY <2>2 DEF Readers
  <2>5. QED BY <2>3, <2>4, ConnectionsKept DEF Connected
<1>3. CASE ReadAccounts
  <2>1. PICK v \in Answers(read) :
          /\ read' = After(read, "dialog", TRUE, v, NoAccount, order, 0)
          /\ dialog' = (dialog \/ v = "started")
          /\ takers' = IF v = "started" THEN takers \cup {"dialog"} ELSE takers
          /\ UNCHANGED <<unread, app>>
    BY <1>3 DEF ReadAccounts
  <2>2. v = "started" => read' # NoRead /\ read'.by = "dialog"
    BY <2>1 DEF After, Started, NoRead
  <2>3. v # "started" => read' = read
    BY <2>1 DEF After
  <2>4. QED BY <2>1, <2>2, <2>3 DEF Connected, Out
<1>4. CASE Refresh
  <2>1. CASE file = NoFile
    BY <1>4, <2>1 DEF Refresh, Connected, Out
  <2>2. CASE file # NoFile
    <3>1. PICK v \in Answers(read) :
            /\ read' = After(read, "app", TRUE, v, NoAccount, order, 0)
            /\ app' = IF v = "started" THEN [reading |-> TRUE, chosen |-> account] ELSE app
            /\ takers' = IF v = "started" THEN takers \cup {"app"} ELSE takers
            /\ unread' = (unread \/ v # "started")
            /\ dialog' = dialog
      BY <1>4, <2>2 DEF Refresh
    <3>2. v = "started" => read' # NoRead /\ read'.by = "app"
      BY <3>1 DEF After, Started, NoRead
    <3>3. v # "started" => read' = read
      BY <3>1 DEF After
    <3>4. QED BY <3>1, <3>2, <3>3 DEF Connected, Out
  <2>3. QED BY <2>1, <2>2
<1>5. CASE HandOn
  <2>1. read' = NoRead /\ takers' \in {{}, takers} /\ UNCHANGED <<app, dialog>>
    BY <1>5 DEF HandOn
  <2>2. unread' \in BOOLEAN
    <3>1. read.kind = "failed" \/ read.kind # "failed"
      OBVIOUS
    <3>2. QED BY <1>5 DEF HandOn, Connected
  <2>3. QED BY <2>1, <2>2 DEF Connected, Out
<1>6. CASE DialogHears
  <2>1. /\ "dialog" \in toHear /\ dialog' = FALSE /\ UNCHANGED <<read, unread, app>>
        /\ takers' = IF dialog THEN takers \ {"dialog"} ELSE takers
    BY <1>6, InTurn DEF DialogHears, storageVars, Parted
  <2>2. ~Out(read, "dialog")
    BY <2>1, NotBoth
  <2>3. QED BY <2>1, <2>2 DEF Connected, Out
<1>7. CASE AppHears
  <2>1. /\ "app" \in toHear /\ UNCHANGED <<read, unread, dialog>>
        /\ takers' = IF app.reading THEN takers \ {"app"} ELSE takers
    BY <1>7, InTurn DEF AppHears, storageVars, Parted
  <2>2. ~Out(read, "app")
    BY <2>1, NotBoth
  <2>3. QED BY <2>1, <2>2 DEF Connected, Out
<1>8. QED BY <1>1, <1>2, <1>3, <1>4, <1>5, <1>6, <1>7 DEF Next

LEMMA Invariance == Spec => [](IInv /\ Connected)
<1>1. Init => Connected
  BY DEF Init, Connected, Out
<1>2. IInv /\ Connected /\ [Next]_vars => IInv' /\ Connected'
  BY IInvStep, ConnectedStep
<1>3. QED BY <1>1, <1>2, InitConsistent, PTL DEF Spec

(* The state of every reader keeps its shape: no table is left with a      *)
(* value of a request it never made.                                       *)
THEOREM TypeCorrectness == Spec => []TypeOK
<1>1. IInv /\ Connected => TypeOK
  <2> SUFFICES ASSUME IInv, Connected PROVE TypeOK
    OBVIOUS
  <2>1. app.reading \in BOOLEAN /\ app.chosen \in Choices
    BY DEF IInv, Types
  <2>2. read = NoRead \/ (/\ read.stage \in {"started", "working", "ended"}
                         /\ read.by \in Readers /\ read.on \in Files)
    BY DEF IInv, Types, ReadRuns
  <2>3. telling = Quiet \/ telling.kind \in {"result", "failed", "silent"}
    BY DEF IInv, Types
  <2>4. tx.loaded <= Len(tx.rows)
    <3>1. /\ tx.rows \in Seq(Bookings) /\ tx.loaded \in Nat
          /\ tx.previous => tx.loaded = 0
          /\ ~tx.previous => Len(tx.rows) = tx.loaded
      BY DEF IInv, Types, TxTable, TableFits, Shape
    <3>2. Len(tx.rows) \in Nat
      BY <3>1, LenProperties
    <3>3. QED BY <3>1, <3>2
  <2>5. QED BY <2>1, <2>2, <2>3, <2>4 DEF IInv, Types, TypeOK, Choices, Orders, Connected
<1>2. QED BY <1>1, Invariance, PTL

(* The table of the bookings never shows rows under a header or a choice   *)
(* of an account they were not read for, unless it is known that they are  *)
(* the old ones and a read is on its way to replace them.                  *)
THEOREM RowsUnderTheirHeader == Spec => []RowsFitTheHeader
<1>1. IInv => RowsFitTheHeader
  <2> SUFFICES ASSUME IInv PROVE RowsFitTheHeader
    OBVIOUS
  <2>1. /\ tx \in TxTable /\ Shape(tx, account, order) /\ Going(tx, account)
        /\ order \in Orders
    BY AtHand
  <2>2. CASE tx.previous
    BY <2>1, <2>2 DEF RowsFitTheHeader, Going
  <2>3. CASE ~tx.previous
    <3>1. tx.rows \in Seq(Bookings) /\ tx.loaded \in Nat /\ Len(tx.rows) = tx.loaded
      BY <2>1, <2>3 DEF Shape, TxTable
    <3>2. DOMAIN tx.rows = 1..tx.loaded
      BY <3>1, LenProperties
    <3> SUFFICES ASSUME NEW i \in 1..tx.loaded
                 PROVE  /\ tx.rows[i].of = account
                        /\ i > 1 => IF tx.loaded <= PageSize /\ order = "newest"
                                    THEN tx.rows[i].number < tx.rows[i - 1].number
                                    ELSE order = "oldest" =>
                                           tx.rows[i].number > tx.rows[i - 1].number
      BY <2>3, <3>2 DEF RowsFitTheHeader
    <3>3. tx.rows[i].of = account /\ (order = "oldest" => tx.rows[i].number = i)
      BY <2>1, <2>3 DEF Shape
    <3>4. i > 1 => i \in 2..tx.loaded /\ i - 1 \in 1..tx.loaded
      BY <3>1
    <3>5. i > 1 /\ order = "oldest" => tx.rows[i].number > tx.rows[i - 1].number
      <4>1. i > 1 /\ order = "oldest" => tx.rows[i - 1].number = i - 1
        BY <2>1, <2>3, <3>4 DEF Shape
      <4>2. QED BY <3>3, <4>1
    <3>6. i > 1 /\ order = "newest" /\ tx.loaded <= PageSize =>
            tx.rows[i].number < tx.rows[i - 1].number
      BY <2>1, <2>3, <3>4 DEF Shape
    <3>7. QED BY <2>1, <3>3, <3>5, <3>6
  <2>4. QED BY <2>2, <2>3
<1>2. QED BY <1>1, Invariance, PTL

-----------------------------------------------------------------------------
(* The refinement: towards Storage the readers are callers as StorageRuns  *)
(* assumes them.  Who waits is known from the way alone (Owned), so a step *)
(* is mapped by what it does to the connection, to the run and to the end  *)
(* that is being told.                                                     *)

Ways == {"read", "write"}
Flag(r) == [w \in Ways |-> w = "read" /\ r # NoRead]
Ran(r) == [w \in Ways |-> IF w = "read" THEN RunOf(r) ELSE NoRead]
Tells(t) == IF t = Quiet THEN t
            ELSE [kind |-> t.kind, way |-> "read", by |-> t.by, on |-> t.on]

LEMMA WhoWaits ==
  ASSUME IInv
  PROVE  Waiting = {c \in Readers : Out(read, c) \/ Told(c)}
  BY DEF IInv, Owned, Waiting, Readers

LEMMA WhoWaitsThen ==
  ASSUME IInv'
  PROVE  Waiting' = {c \in Readers : Out(read', c) \/ (c \in toHear' /\ telling'.by = c)}
  BY DEF IInv, Owned, Waiting, Readers, Out, Told

(* The way before and after a call, without the shape of what is read.     *)
Took(r, z, cs) ==
  \/ z = r
  \/ /\ r = NoRead /\ file # NoFile
     /\ z # NoRead /\ z.by \in cs /\ z.kind = "failed"
     /\ RunOf(z) = [stage |-> "started", by |-> z.by, on |-> file,
                    since |-> generation, good |-> FALSE]

LEMMA AfterTook ==
  ASSUME NEW r, NEW c, NEW calls, NEW v \in Answers(r), NEW a, NEW o, NEW k
  PROVE  Took(r, After(r, c, calls, v, a, o, k), {c})
<1> DEFINE z == Started(c, a, o, k)
<1>1. v = "started" => r = NoRead /\ file # NoFile
  BY DEF Answers
<1>2. /\ z # NoRead /\ z.by = c /\ z.kind = "failed"
      /\ RunOf(z) = [stage |-> "started", by |-> c, on |-> file,
                     since |-> generation, good |-> FALSE]
  BY DEF Started, NoRead, RunOf
<1> HIDE DEF z
<1>3. After(r, c, calls, v, a, o, k) = z \/ After(r, c, calls, v, a, o, k) = r
  BY DEF After, z
<1>4. After(r, c, calls, v, a, o, k) # r => v = "started"
  BY DEF After
<1>5. QED BY <1>1, <1>2, <1>3, <1>4 DEF Took

LEMMA TookTwice ==
  ASSUME NEW r, NEW y, NEW z, NEW cs, NEW ds, Took(r, y, cs), Took(y, z, ds)
  PROVE  Took(r, z, cs \cup ds)
  BY DEF Took

(* The functions of StorageRuns over the one way there is.                 *)
LEMMA OneWay ==
  ASSUME NEW r, NEW z
  PROVE  /\ Flag(z) = [Flag(r) EXCEPT !["read"] = (z # NoRead)]
         /\ Ran(z) = [Ran(r) EXCEPT !["read"] = RunOf(z)]
         /\ Ran(z)["read"] = RunOf(z) /\ Flag(z)["read"] = (z # NoRead)
         /\ RunOf(NoRead) = NoRead
  BY DEF Flag, Ran, Ways, RunOf

(* What the instance of StorageRuns is in these terms.                     *)
LEMMA Mapped ==
  /\ Runs!vars = <<file, generation, Flag(read), Ran(read), Tells(telling), toHear, Waiting>>
  /\ Runs!Callers = Readers
  /\ \A c \in Readers : Runs!WayOf(c) = "read"
  /\ Runs!CallersOf("read") = Readers
  BY DEF Runs!vars, Runs!Callers, Runs!WayOf, Runs!CallersOf, Flag, Ran, Ways, Tells

(* What a step may do to the way.                                          *)
Calling ==
  \E cs \in SUBSET Readers :
    /\ cs \cap toHear = {} /\ Took(read, read', cs)
    /\ UNCHANGED <<file, generation, telling, toHear>>

Reconnecting ==
  /\ toHear = {} /\ generation < MaxGeneration
  /\ \/ file = NoFile /\ file' \in Files /\ generation' = generation
     \/ file # NoFile /\ file' = NoFile /\ generation' = generation + 1
  /\ UNCHANGED <<read, telling, toHear>>

Working ==
  /\ read # NoRead
  /\ \/ /\ read.stage = "started" /\ read.since = generation
        /\ read' = [read EXCEPT !.stage = "working"]
     \/ read.stage = "started" /\ read' = [read EXCEPT !.stage = "ended"]
     \/ /\ read.stage = "working" /\ read' # NoRead /\ read'.stage = "ended"
        /\ read'.by = read.by /\ read'.on = read.on /\ read'.since = read.since
  /\ UNCHANGED <<file, generation, telling, toHear>>

Delivering ==
  /\ toHear = {} /\ read.stage = "ended" /\ read' = NoRead
  /\ toHear' = Readers
  /\ telling' = [kind |-> IF read.since # generation THEN "silent"
                          ELSE IF read.kind = "result" THEN "result" ELSE "failed",
                 by |-> read.by, on |-> read.on]
  /\ UNCHANGED <<file, generation>>

Hearing(c) ==
  /\ c \in toHear /\ Heard(c) /\ Took(read, read', {c})
  /\ UNCHANGED <<file, generation>>

LEMMA CallMaps ==
  ASSUME IInv, IInv', Calling
  PROVE  Runs!Next \/ UNCHANGED Runs!vars
<1>. PICK cs \in SUBSET Readers :
       /\ cs \cap toHear = {} /\ Took(read, read', cs)
       /\ UNCHANGED <<file, generation, telling, toHear>>
  BY DEF Calling
<1>1. /\ Waiting = {c \in Readers : Out(read, c) \/ Told(c)}
      /\ Waiting' = {c \in Readers : Out(read', c) \/ Told(c)}
  BY WhoWaits, WhoWaitsThen DEF Told
<1>2. CASE read' = read
  BY <1>1, <1>2 DEF Runs!vars
<1>3. CASE read' # read
  <2>1. PICK c \in cs :
        /\ read = NoRead /\ file # NoFile /\ read' # NoRead /\ c = read'.by
        /\ RunOf(read') = [stage |-> "started", by |-> c, on |-> file,
                           since |-> generation, good |-> FALSE]
    BY <1>3 DEF Took
  <2>2. c \in Readers /\ c \notin toHear /\ c \notin Waiting /\ Waiting' = Waiting \cup {c}
    BY <1>1, <2>1 DEF Out, Told
  <2>3. Runs!StartRun(c)
    BY <2>1, <2>2, Mapped, OneWay DEF Runs!StartRun, Runs!MayStart, Flag, Ran, Ways
  <2>4. Runs!Ask(c)
    BY <2>2, <2>3 DEF Runs!Ask
  <2>5. QED BY <2>2, <2>4, Mapped DEF Runs!Next
<1>4. QED BY <1>2, <1>3

LEMMA ReconnectionMaps ==
  ASSUME IInv, IInv', Reconnecting
  PROVE  Runs!Next
<1>1. Waiting' = Waiting
  BY WhoWaits, WhoWaitsThen DEF Reconnecting, Told
<1>2. UNCHANGED <<Flag(read), Ran(read), Tells(telling), toHear, Waiting>>
  BY <1>1 DEF Reconnecting
<1>3. generation \in Nat /\ NoFile \notin Files
  BY ReadersAssumption DEF IInv, Types
<1>4. CASE file = NoFile
  <2>1. PICK f \in Files : file' = f /\ f # NoFile
    BY <1>3, <1>4 DEF Reconnecting
  <2>2. Runs!Open(f)
    BY <1>2, <1>3, <1>4, <2>1
       DEF Runs!Open, Runs!InEventLoop, Runs!Dropped, Reconnecting, Flag, Ran, Ways, Tells
  <2>3. QED BY <2>2 DEF Runs!Next
<1>5. CASE file # NoFile
  <2>1. Runs!Close
    BY <1>2, <1>3, <1>5
       DEF Runs!Close, Runs!InEventLoop, Runs!Dropped, Reconnecting, Flag, Ran, Ways, Tells
  <2>2. QED BY <2>1 DEF Runs!Next
<1>6. QED BY <1>4, <1>5

(* A run that has not come to its end has nothing to show for it.          *)
Unread == read # NoRead /\ read.stage # "ended" => read.kind = "failed"

LEMMA WorkMaps ==
  ASSUME IInv, IInv', Unread, Working
  PROVE  Runs!Next
<1>1. read \in ReadRuns /\ read # NoRead
  BY DEF IInv, Types, Working
<1>2. /\ read' # NoRead /\ read'.by = read.by /\ read'.on = read.on
      /\ read'.since = read.since
      /\ UNCHANGED <<file, generation, telling, toHear>>
  BY <1>1 DEF Working, ReadRuns, NoRead
<1>3. Waiting' = Waiting
  BY <1>1, <1>2, WhoWaits, WhoWaitsThen DEF Told, Out
<1>4. /\ UNCHANGED <<file, generation, Flag(read), Tells(telling), toHear, Waiting>>
      /\ Ran(read)["read"] = RunOf(read) /\ "read" \in Runs!Ways
      /\ \A s, g : RunOf(read') = Runs!Staged(RunOf(read), s, g) =>
                   Ran(read)' = [Ran(read) EXCEPT !["read"] = Runs!Staged(RunOf(read), s, g)]
  BY <1>1, <1>2, <1>3, OneWay DEF Flag, Runs!Ways
<1>5. CASE read.stage = "started" /\ read.since = generation /\ read'.stage = "working"
  <2>1. RunOf(read') = Runs!Staged(RunOf(read), "working", FALSE)
    BY <1>1, <1>2, <1>5 DEF RunOf, Runs!Staged
  <2>2. RunOf(read).stage = "started" /\ RunOf(read).since = generation
    BY <1>1, <1>5 DEF RunOf
  <2>3. Runs!CloneConnection("read")
    BY <1>4, <2>1, <2>2 DEF Runs!CloneConnection, Runs!SourceStands, Flag, Ran, Ways, Tells
  <2>4. QED BY <1>4, <2>3 DEF Runs!Next
<1>6. CASE read.stage = "started" /\ read' = [read EXCEPT !.stage = "ended"]
  <2>1. read'.kind = "failed" /\ read'.stage = "ended"
    BY <1>1, <1>6 DEF Unread, ReadRuns
  <2>2. RunOf(read') = Runs!Staged(RunOf(read), "ended", FALSE)
    BY <1>1, <1>2, <2>1 DEF RunOf, Runs!Staged
  <2>3. RunOf(read).stage = "started"
    BY <1>1, <1>6 DEF RunOf
  <2>4. Runs!CloneFails("read")
    BY <1>4, <2>2, <2>3 DEF Runs!CloneFails, Flag, Ran, Ways, Tells
  <2>5. QED BY <1>4, <2>4 DEF Runs!Next
<1>7. CASE read.stage = "working" /\ read'.stage = "ended"
  <2>1. PICK g \in BOOLEAN : g <=> read'.kind = "result" /\ read'.stage = "ended"
    OBVIOUS
  <2>2. RunOf(read') = Runs!Staged(RunOf(read), "ended", g)
    BY <1>1, <1>2, <1>7, <2>1 DEF RunOf, Runs!Staged
  <2>3. RunOf(read).stage = "working"
    BY <1>1, <1>7 DEF RunOf
  <2>4. Runs!Work("read")
    BY <1>4, <2>2, <2>3 DEF Runs!Work, Flag, Ran, Ways, Tells
  <2>5. QED BY <1>4, <2>4 DEF Runs!Next
<1>8. QED BY <1>1, <1>5, <1>6, <1>7 DEF Working, ReadRuns

LEMMA DeliveryMaps ==
  ASSUME IInv, IInv', Delivering
  PROVE  Runs!Next
<1>1. read # NoRead /\ read \in ReadRuns /\ RunOf(read).stage = "ended"
  BY DEF Delivering, IInv, Types, NoRead, RunOf
<1>2. Waiting' = Waiting
  BY <1>1, WhoWaits, WhoWaitsThen DEF Delivering, Out, Told
<1>3. telling' # Quiet
  BY DEF Delivering, Quiet
<1>4. Tells(telling)' = [kind |-> IF RunOf(read).since # generation THEN "silent"
                                  ELSE IF RunOf(read).good THEN "result" ELSE "failed",
                         way |-> "read", by |-> RunOf(read).by, on |-> RunOf(read).on]
  BY <1>1, <1>3 DEF Tells, Delivering, RunOf
<1>5. /\ Flag(read)' = [Flag(read) EXCEPT !["read"] = FALSE]
      /\ Ran(read)' = [Ran(read) EXCEPT !["read"] = NoRead]
      /\ Ran(read)["read"] = RunOf(read)
  BY OneWay DEF Delivering
<1>6. Runs!HandOn("read")
  BY <1>1, <1>2, <1>4, <1>5, Mapped
     DEF Runs!HandOn, Runs!InEventLoop, Runs!NoRun, NoRead, Delivering, Flag, Ran, Ways, Tells
<1>7. QED BY <1>6 DEF Runs!Next, Runs!Ways

LEMMA HearingMaps ==
  ASSUME IInv, IInv', NEW c \in Readers, Hearing(c)
  PROVE  Runs!Next
<1>1. /\ c \in toHear /\ toHear' = toHear \ {c} /\ ~Out(read, c)
      /\ telling' = IF toHear = {c} THEN Quiet ELSE telling
      /\ UNCHANGED <<file, generation>> /\ Took(read, read', {c})
  BY DEF Hearing, Heard, IInv, Turn, Out
<1>2. Runs!Heard(c)
  BY <1>1 DEF Runs!Heard, Runs!Quiet, Quiet
<1>3. CASE read' = read
  <2>1. Waiting' = Waiting \ {c}
    BY <1>1, <1>3, WhoWaits, WhoWaitsThen DEF Told
  <2>2. Runs!Hear(c)
    BY <1>1, <1>2, <1>3, <2>1 DEF Runs!Hear
  <2>3. QED BY <2>2, Mapped DEF Runs!Next
<1>4. CASE read' # read
  <2>1. /\ read = NoRead /\ file # NoFile /\ read' # NoRead /\ read'.by = c
        /\ RunOf(read') = [stage |-> "started", by |-> c, on |-> file,
                           since |-> generation, good |-> FALSE]
    BY <1>1, <1>4 DEF Took
  <2>2. Waiting' = Waiting \cup {c}
    BY <1>1, <2>1, WhoWaits, WhoWaitsThen DEF Out, Told
  <2>3. Runs!StartRun(c)
    BY <2>1, Mapped, OneWay DEF Runs!StartRun, Runs!MayStart, Flag, Ran, Ways
  <2>4. Runs!HearAndAsk(c)
    BY <1>1, <1>2, <2>2, <2>3 DEF Runs!HearAndAsk
  <2>5. QED BY <2>4, Mapped DEF Runs!Next
<1>5. QED BY <1>3, <1>4

(* Every step is one of these for the way, or none of its business.        *)
WayUntouched == UNCHANGED <<file, generation, read, telling, toHear>>
WayStep == \/ Calling \/ Reconnecting \/ Working \/ Delivering \/ WayUntouched
           \/ \E c \in Readers : Hearing(c)

LEMMA TookNothing == \A cs : Took(read, read, cs)
  BY DEF Took

LEMMA TakenIsCalling ==
  ASSUME NEW cs \in SUBSET Readers, cs \cap toHear = {}, Took(read, read', cs),
         UNCHANGED <<file, generation, telling, toHear>>
  PROVE  Calling
  BY DEF Calling

LEMMA SelectOnTheWay ==
  ASSUME NEW a \in Choices, Select(a)
  PROVE  Calling
<1>1. toHear = {} /\ UNCHANGED <<file, generation, telling, toHear>>
  BY DEF Select, InEventLoop, storageVars
<1>2. CASE a = NoAccount
  BY <1>1, <1>2, TookNothing, TakenIsCalling DEF Select
<1>3. CASE a # NoAccount
  <2> DEFINE t == TxStartOver(tx, FALSE)
             s == SoStartOver(so, FALSE)
             c1 == Calls(t, a)
             c2 == Calls(s, a)
  <2>1. PICK v \in Answers(read) :
          \E w \in Answers(After(read, "tx", c1, v, a, order, 0)) :
            read' = After(After(read, "tx", c1, v, a, order, 0), "so", c2, w, a, order, 0)
    BY <1>3 DEF Select, TurnTo
  <2> DEFINE r == After(read, "tx", c1, v, a, order, 0)
  <2>2. Took(read, r, {"tx"})
    <3> HIDE DEF c1
    <3> QED BY AfterTook
  <2>3. PICK w \in Answers(r) : read' = After(r, "so", c2, w, a, order, 0)
    BY <2>1
  <2> HIDE DEF c1, c2, r
  <2>4. Took(r, read', {"so"})
    BY <2>3, AfterTook
  <2>5. Took(read, read', {"tx"} \cup {"so"})
    BY <2>2, <2>4, TookTwice
  <2>6. QED BY <1>1, <2>5, TakenIsCalling DEF Readers
<1>4. QED BY <1>2, <1>3

LEMMA RestoreOnTheWay ==
  ASSUME IInv, Restore
  PROVE  Calling
<1>1. {"tx", "so"} \cap toHear = {} /\ UNCHANGED <<file, generation, telling, toHear>>
  BY DEF IInv, Turn, Restore, storageVars
<1> DEFINE a == IF Restores THEN app.chosen ELSE account
           t == IF Restores THEN TxStartOver(tx, FALSE) ELSE tx
           s == IF Restores THEN SoStartOver(so, FALSE) ELSE so
           r1(v) == After(read, "tx", Restores /\ Calls(t, a), v, a, order, 0)
           r2(v, w) == After(r1(v), "so", Restores /\ Calls(s, a), w, a, order, 0)
           t2(v) == LET t1 == IF Restores THEN TxRequest(t, a, v) ELSE t
                    IN  IF a = NoAccount THEN t1 ELSE TxStartOver(t1, FALSE)
<1>2. PICK v \in Answers(read) :
        \E w \in Answers(r1(v)) : \E x \in Answers(r2(v, w)) :
          read' = After(r2(v, w), "tx", Calls(t2(v), a), x, a, order, 0)
  BY DEF Restore
<1> DEFINE c1 == Restores /\ Calls(t, a)
           c2 == Restores /\ Calls(s, a)
           c3 == Calls(t2(v), a)
           y == After(read, "tx", c1, v, a, order, 0)
<1>3. PICK w \in Answers(y) :
        \E x \in Answers(After(y, "so", c2, w, a, order, 0)) :
          read' = After(After(y, "so", c2, w, a, order, 0), "tx", c3, x, a, order, 0)
  BY <1>2
<1> DEFINE z == After(y, "so", c2, w, a, order, 0)
<1>4. PICK x \in Answers(z) : read' = After(z, "tx", c3, x, a, order, 0)
  BY <1>3
<1> HIDE DEF a, t, s, r1, r2, t2, c1, c2, c3
<1>5. Took(read, y, {"tx"}) /\ Took(y, z, {"so"})
  BY AfterTook
<1> HIDE DEF y, z
<1>6. Took(z, read', {"tx"})
  BY <1>4, AfterTook
<1>7. Took(read, z, {"tx"} \cup {"so"})
  BY <1>5, TookTwice
<1>8. Took(read, read', ({"tx"} \cup {"so"}) \cup {"tx"})
  BY <1>6, <1>7, TookTwice
<1>9. QED BY <1>1, <1>8, TakenIsCalling DEF Readers

LEMMA OneCallOnTheWay ==
  ASSUME IInv, (\E o \in Orders : Sort(o)) \/ FetchMore \/ RefreshOrders \/ Refresh
  PROVE  Calling
<1>1. toHear = {} /\ UNCHANGED <<file, generation, telling, toHear>>
  BY DEF Sort, FetchMore, RefreshOrders, Refresh, InEventLoop, storageVars
<1>2. \/ read' = read
      \/ \E c \in {"tx", "so", "app"}, calls \in BOOLEAN, v \in Answers(read) :
           \E a, o, k : read' = After(read, c, calls, v, a, o, k)
  <2>1. ASSUME NEW o \in Orders, Sort(o)
        PROVE  \E v \in Answers(read), calls \in BOOLEAN :
                 \E a, k : read' = After(read, "tx", calls, v, a, o, k)
    <3>1. Calls(TxStartOver(tx, TRUE), account) \in BOOLEAN
      BY DEF Calls
    <3>2. QED BY <2>1, <3>1 DEF Sort
  <2>2. CASE FetchMore
    BY <2>2 DEF FetchMore
  <2>3. CASE RefreshOrders
    <3>1. Calls(SoStartOver(so, TRUE), account) \in BOOLEAN
      BY DEF Calls
    <3>2. QED BY <2>3, <3>1 DEF RefreshOrders
  <2>4. CASE Refresh
    BY <2>4 DEF Refresh
  <2>5. QED BY <2>1, <2>2, <2>3, <2>4
<1>3. \E c \in {"tx", "so", "app"} : Took(read, read', {c})
  <2>1. CASE read' = read
    BY <2>1, TookNothing
  <2>2. CASE read' # read
    <3>1. PICK c \in {"tx", "so", "app"}, calls \in BOOLEAN, v \in Answers(read) :
            \E a, o, k : read' = After(read, c, calls, v, a, o, k)
      BY <1>2, <2>2
    <3>2. PICK a, o, k : read' = After(read, c, calls, v, a, o, k)
      BY <3>1
    <3>3. Took(read, After(read, c, calls, v, a, o, k), {c})
      BY <3>1, AfterTook
    <3>4. QED BY <3>1, <3>2, <3>3
  <2>3. QED BY <2>1, <2>2
<1>4. PICK c \in Readers : Took(read, read', {c})
  BY <1>3 DEF Readers
<1>5. QED BY <1>1, <1>4, TakenIsCalling

LEMMA SessionOnTheWay ==
  ASSUME IInv,
         \/ \E f \in Files : OpenVault(f)
         \/ ReadAccounts \/ CloseVault \/ VaultFalls
  PROVE  WayStep
<1>1. ASSUME NEW f \in Files, OpenVault(f) PROVE WayStep
  <2>1. file = NoFile
    BY <1>1 DEF OpenVault, InEventLoop, IInv, Session
  <2>2. QED BY <1>1, <2>1 DEF OpenVault, InEventLoop, WayStep, Reconnecting
<1>2. CASE ReadAccounts
  <2>1. toHear = {} /\ file # NoFile /\ generation < MaxGeneration
    BY <1>2 DEF ReadAccounts, IInv, Turn
  <2>2. PICK v \in Answers(read) :
          /\ read' = After(read, "dialog", TRUE, v, NoAccount, order, 0)
          /\ file' = IF v = "refused" THEN NoFile ELSE file
          /\ generation' = IF v = "refused" THEN generation + 1 ELSE generation
          /\ UNCHANGED <<telling, toHear>>
    BY <1>2 DEF ReadAccounts
  <2>3. CASE v = "refused"
    BY <2>1, <2>2, <2>3 DEF After, WayStep, Reconnecting
  <2>4. CASE v # "refused"
    <3>1. Took(read, read', {"dialog"})
      BY <2>2, AfterTook
    <3>2. QED BY <2>1, <2>2, <2>4, <3>1, TakenIsCalling DEF Readers, WayStep
  <2>5. QED BY <2>3, <2>4
<1>3. CASE CloseVault
  <2>1. /\ toHear = {} /\ file' = NoFile /\ UNCHANGED <<read, telling, toHear>>
        /\ generation' = IF file = NoFile THEN generation ELSE generation + 1
        /\ file # NoFile => generation < MaxGeneration
    BY <1>3 DEF CloseVault, InEventLoop, wayVars
  <2>2. QED BY <2>1 DEF WayStep, WayUntouched, Reconnecting
<1>4. CASE VaultFalls
  BY <1>4 DEF VaultFalls, InEventLoop, wayVars, WayStep, Reconnecting
<1>5. QED BY <1>1, <1>2, <1>3, <1>4

LEMMA WorkerOnTheWay ==
  ASSUME IInv, Clone \/ ReadRows
  PROVE  WayStep
<1>1. read \in ReadRuns /\ read # NoRead /\ UNCHANGED <<file, generation, telling, toHear>>
  <2>1. read.stage \in {"started", "working"}
    BY DEF Clone, ReadRows
  <2>2. read # NoRead
    BY <2>1 DEF NoRead
  <2>3. UNCHANGED <<file, generation, telling, toHear>>
    BY DEF Clone, ReadRows, storageVars
  <2>4. QED BY <2>2, <2>3 DEF IInv, Types
<1>2. CASE Clone
  BY <1>1, <1>2 DEF Clone, WayStep, Working
<1>3. CASE ReadRows
  <2>1. /\ read'.stage = "ended" /\ read'.by = read.by /\ read'.on = read.on
        /\ read'.since = read.since
    BY <1>1, <1>3 DEF ReadRows, ReadRuns
  <2>2. read' # NoRead
    BY <2>1 DEF NoRead
  <2>3. QED BY <1>1, <1>3, <2>1, <2>2 DEF ReadRows, WayStep, Working
<1>4. QED BY <1>2, <1>3

LEMMA EndOnTheWay ==
  ASSUME TxHears \/ SoHears \/ DialogHears \/ AppHears
  PROVE  \E c \in Readers : Hearing(c)
<1>1. ASSUME NEW c \in Readers, c \in toHear, Heard(c), UNCHANGED <<file, generation>>,
             Took(read, read', {c})
      PROVE  \E d \in Readers : Hearing(d)
  BY <1>1 DEF Hearing
<1>2. CASE TxHears
  <2>1. "tx" \in toHear /\ Heard("tx") /\ UNCHANGED <<file, generation>>
    BY <1>2, InTurn DEF TxHears, storageVars
  <2>2. Took(read, read', {"tx"})
    BY <1>2, TookNothing, AfterTook DEF TxHears
  <2>3. QED BY <1>1, <2>1, <2>2 DEF Readers
<1>3. CASE SoHears
  <2>1. "so" \in toHear /\ Heard("so") /\ UNCHANGED <<file, generation>>
    BY <1>3, InTurn DEF SoHears, storageVars
  <2>2. Took(read, read', {"so"})
    BY <1>3, TookNothing, AfterTook DEF SoHears
  <2>3. QED BY <1>1, <2>1, <2>2 DEF Readers
<1>4. CASE DialogHears
  BY <1>1, <1>4, InTurn, TookNothing DEF DialogHears, storageVars, Readers
<1>5. CASE AppHears
  BY <1>1, <1>5, InTurn, TookNothing DEF AppHears, storageVars, Readers
<1>6. QED BY <1>2, <1>3, <1>4, <1>5

LEMMA EveryStepOnTheWay ==
  ASSUME IInv, [Next]_vars
  PROVE  WayStep
<1>1. CASE \/ UNCHANGED vars
           \/ \E a \in Accounts : Store(a) \/ SetUp(a)
           \/ FetchEnds
  BY <1>1 DEF vars, storageVars, wayVars, Store, SetUp, FetchEnds, WayStep, WayUntouched
<1>2. CASE HandOn
  BY <1>2 DEF HandOn, InEventLoop, storageVars, WayStep, Delivering
<1>3. CASE \/ \E a \in Accounts \cup {NoAccount} : Select(a)
           \/ \E o \in {"newest", "oldest"} : Sort(o)
           \/ FetchMore \/ RefreshOrders \/ Refresh \/ Restore
  BY <1>3, SelectOnTheWay, OneCallOnTheWay, RestoreOnTheWay DEF WayStep, Choices, Orders
<1>4. CASE TxHears \/ SoHears \/ DialogHears \/ AppHears
  BY <1>4, EndOnTheWay DEF WayStep
<1>5. QED
  BY <1>1, <1>2, <1>3, <1>4, SessionOnTheWay, WorkerOnTheWay DEF Next

LEMMA UnreadKept ==
  ASSUME IInv, Unread, WayStep
  PROVE  Unread'
<1>1. \A cs : Took(read, read', cs) => Unread'
  BY DEF Took, Unread
<1>2. CASE Working
  <2>1. read \in ReadRuns
    BY <1>2 DEF Working, IInv, Types
  <2>2. QED BY <1>2, <2>1 DEF Working, Unread, ReadRuns
<1>3. QED
  BY <1>1, <1>2 DEF WayStep, Calling, Reconnecting, Delivering, WayUntouched, Hearing, Unread

LEMMA InitMaps == Init => Runs!Init /\ Unread
<1> SUFFICES ASSUME Init PROVE Runs!Init /\ Unread
  OBVIOUS
<1>1. Waiting = {}
  BY DEF Init, Waiting, TxEmpty, SoEmpty
<1>2. QED BY <1>1 DEF Init, Unread, Runs!Init, Runs!Ways, Runs!NoRun, Runs!Quiet, NoRead, Quiet, RunOf

(* The four readers are callers of Storage as StorageRuns assumes them:    *)
(* none asks while a run of its own is out or its end still on the way to  *)
(* it.  What is proved there of the callers of Storage (that each is       *)
(* answered by its own run, and never by one of another file) is so        *)
(* proved of the tables, the window and the overview.                      *)
THEOREM ReadersCallAsAssumed == Spec => CallsAsAssumed
<1>1. Init => Runs!Init /\ Unread
  BY InitMaps
<1>2. IInv /\ Unread /\ [Next]_vars => Unread'
  BY EveryStepOnTheWay, UnreadKept
<1>3. IInv /\ IInv' /\ Unread /\ [Next]_vars => [Runs!Next]_(Runs!vars)
  <2> SUFFICES ASSUME IInv, IInv', Unread, [Next]_vars
               PROVE  Runs!Next \/ UNCHANGED Runs!vars
    OBVIOUS
  <2>1. WayStep
    BY EveryStepOnTheWay
  <2>2. CASE WayUntouched
    <3>1. Waiting' = Waiting
      BY <2>2, WhoWaits, WhoWaitsThen DEF WayUntouched, Told
    <3>2. QED BY <2>2, <3>1 DEF WayUntouched, Runs!vars
  <2>3. QED
    BY <2>1, <2>2, CallMaps, ReconnectionMaps, WorkMaps, DeliveryMaps, HearingMaps DEF WayStep
<1>4. QED BY <1>1, <1>2, <1>3, Invariance, PTL DEF Spec, CallsAsAssumed, Runs!Spec

-----------------------------------------------------------------------------
(* The tree.  It shows the accounts kept in the open file, or they are to  *)
(* be asked for, or are on their way.                                      *)

(* A read of the accounts is out, and its connection stands.               *)
Coming ==
  read # NoRead /\ read.by \in {"app", "dialog"} /\ read.since = generation

(* What was read of the accounts is of the file it was read from, and what *)
(* changed since is to be asked for.                                       *)
AccountsFit(r) ==
  r # NoRead /\ r.by \in {"app", "dialog"} /\ r.kind # "failed" =>
    /\ r.stage = "ended"
    /\ \A a \in r.shown : HomeOf[a] = r.on
    /\ r.kind = "notfound" => \A a \in Accounts : HomeOf[a] # r.on

TreeFits ==
  /\ file # NoFile => \A a \in tree : HomeOf[a] = file
  /\ AccountsFit(read)
  /\ file # NoFile /\ Coming /\ read.kind = "result" => read.shown = Kept(file) \/ due
  /\ file # NoFile /\ ~unread =>
       tree = Kept(file) \/ due \/ slot = "opening" \/ Coming

(* A run that is asked for takes nothing away from what is coming.         *)
LEMMA TookKeeps ==
  ASSUME NEW cs, Took(read, read', cs), AccountsFit(read), UNCHANGED <<file, generation, active>>
  PROVE  /\ AccountsFit(read') /\ (Coming => Coming')
         /\ Coming' /\ read'.kind = "result" => Coming /\ read' = read
<1>1. CASE read' = read
  BY <1>1 DEF Coming
<1>2. CASE read' # read
  BY <1>2 DEF Took, AccountsFit, Coming
<1>3. QED BY <1>1, <1>2

(* A step that only asks, or only tells, leaves the tree in order.         *)
LEMMA TreeKept ==
  ASSUME TreeFits, NEW cs, Took(read, read', cs),
         UNCHANGED <<file, generation, active, tree, unread>>,
         due => due', slot = "opening" => slot' = "opening"
  PROVE  TreeFits'
<1>1. /\ AccountsFit(read') /\ (Coming => Coming')
      /\ Coming' /\ read'.kind = "result" => Coming /\ read' = read
  BY TookKeeps DEF TreeFits
<1>2. QED BY <1>1 DEF TreeFits, Kept, AccountsFit

LEMMA TreeAsked ==
  ASSUME IInv, TreeFits,
         \/ \E a \in Choices : Select(a)
         \/ \E o \in Orders : Sort(o)
         \/ FetchMore \/ RefreshOrders \/ Restore
         \/ TxHears \/ SoHears \/ DialogHears \/ AppHears
         \/ \E a \in Accounts : Store(a)
         \/ FetchEnds \/ UNCHANGED vars
  PROVE  TreeFits'
<1>1. UNCHANGED <<file, generation, active, tree, unread>>
  BY DEF Select, Sort, FetchMore, RefreshOrders, Restore, TxHears, SoHears, DialogHears,
         AppHears, Store, FetchEnds, vars, storageVars
<1>2. due => due'
  BY DEF Select, Sort, FetchMore, RefreshOrders, Restore, TxHears, SoHears, DialogHears,
         AppHears, Store, FetchEnds, vars
<1>3. slot = "opening" => slot' = "opening"
  BY DEF Select, Sort, FetchMore, RefreshOrders, Restore, TxHears, SoHears, DialogHears,
         AppHears, NextToHear, InEventLoop, Store, FetchEnds, vars, wayVars
<1>4. \E cs : Took(read, read', cs)
  <2>1. CASE \/ \E a \in Choices : Select(a)
             \/ \E o \in Orders : Sort(o)
             \/ FetchMore \/ RefreshOrders \/ Restore
    BY <2>1, SelectOnTheWay, OneCallOnTheWay, RestoreOnTheWay DEF Calling
  <2>2. CASE TxHears \/ SoHears \/ DialogHears \/ AppHears
    BY <2>2, EndOnTheWay DEF Hearing
  <2>3. CASE (\E a \in Accounts : Store(a)) \/ FetchEnds \/ UNCHANGED vars
    BY <2>3, TookNothing DEF Store, FetchEnds, vars, wayVars
  <2>4. QED BY <2>1, <2>2, <2>3
<1>5. QED BY <1>1, <1>2, <1>3, <1>4, TreeKept

LEMMA TreeOfSession ==
  ASSUME IInv, TreeFits,
         \/ \E f \in Files : OpenVault(f)
         \/ ReadAccounts \/ CloseVault \/ VaultFalls
  PROVE  TreeFits'
<1>1. ASSUME NEW f \in Files, OpenVault(f) PROVE TreeFits'
  <2>1. /\ slot' = "opening" /\ slot = "none" /\ ~banking
        /\ UNCHANGED <<read, tree, generation>>
    BY <1>1 DEF OpenVault, InEventLoop
  <2>2. tree = {} /\ file = NoFile
    BY <2>1 DEF IInv, Session
  <2>3. ~Coming'
    BY <2>1, <2>2, ReadersAssumption DEF IInv, Types, ReadRuns, Session, Coming
  <2>4. QED BY <2>1, <2>2, <2>3 DEF TreeFits, AccountsFit
<1>2. CASE CloseVault \/ VaultFalls
  <2>1. file' = NoFile /\ read' = read
    BY <1>2 DEF CloseVault, VaultFalls, wayVars
  <2>2. QED BY <2>1 DEF TreeFits, AccountsFit
<1>3. CASE ReadAccounts
  <2>1. PICK v \in Answers(read) :
          /\ read' = After(read, "dialog", TRUE, v, NoAccount, order, 0)
          /\ due' = (due \/ v = "busy")
          /\ file' = IF v = "refused" THEN NoFile ELSE file
          /\ generation' = IF v = "refused" THEN generation + 1 ELSE generation
          /\ UNCHANGED <<tree, active, unread>>
    BY <1>3 DEF ReadAccounts
  <2>2. CASE v = "refused"
    BY <2>1, <2>2 DEF After, TreeFits, AccountsFit
  <2>3. CASE v # "refused"
    <3>1. UNCHANGED <<file, generation>>
      BY <2>1, <2>3
    <3>2. /\ AccountsFit(read')
          /\ Coming' /\ read'.kind = "result" => Coming /\ read' = read
      BY <2>1, <3>1, AfterTook, TookKeeps DEF TreeFits
    <3>3. CASE v = "started"
      <4>1. read' = Started("dialog", NoAccount, order, 0)
        BY <2>1, <3>3 DEF After
      <4>2. Coming'
        BY <3>1, <4>1 DEF Started, Coming, NoRead
      <4>3. QED BY <2>1, <3>1, <3>2, <4>2 DEF TreeFits, AccountsFit, Kept
    <3>4. CASE v = "busy"
      BY <2>1, <3>1, <3>2, <3>4 DEF TreeFits, AccountsFit, Kept
    <3>5. QED BY <2>3, <3>3, <3>4 DEF Answers
  <2>4. QED BY <2>2, <2>3
<1>4. QED BY <1>1, <1>2, <1>3

LEMMA TreeRefreshed ==
  ASSUME IInv, TreeFits, Refresh
  PROVE  TreeFits'
<1>1. UNCHANGED <<file, generation, active, tree, slot>>
  BY DEF Refresh
<1>2. CASE file = NoFile
  BY <1>1, <1>2 DEF Refresh, TreeFits, AccountsFit
<1>3. CASE file # NoFile
  <2>1. PICK v \in Answers(read) :
          /\ read' = After(read, "app", TRUE, v, NoAccount, order, 0)
          /\ unread' = (unread \/ v # "started")
          /\ read = NoRead
    BY <1>3 DEF Refresh
  <2>2. /\ AccountsFit(read')
        /\ Coming' /\ read'.kind = "result" => Coming /\ read' = read
    BY <1>1, <2>1, AfterTook, TookKeeps DEF TreeFits
  <2>3. CASE v = "started"
    <3>1. read' = Started("app", NoAccount, order, 0)
      BY <2>1, <2>3 DEF After
    <3>2. Coming'
      BY <1>1, <3>1 DEF Started, Coming, NoRead
    <3>3. QED BY <1>1, <2>1, <2>2, <3>2 DEF TreeFits, AccountsFit, Coming
  <2>4. CASE v # "started"
    BY <1>1, <2>1, <2>2, <2>4 DEF TreeFits, AccountsFit, Coming
  <2>5. QED BY <2>3, <2>4
<1>4. QED BY <1>2, <1>3

LEMMA TreeSetUp ==
  ASSUME TreeFits, NEW a \in Accounts, SetUp(a)
  PROVE  TreeFits'
  BY DEF SetUp, wayVars, TreeFits, AccountsFit

LEMMA TreeAwaited ==
  ASSUME IInv, TreeFits, Clone \/ ReadRows
  PROVE  TreeFits'
<1>1. /\ read.stage \in {"started", "working"}
      /\ UNCHANGED <<file, generation, active, tree, unread, due, slot>>
  BY DEF Clone, ReadRows, storageVars
<1>2. read # NoRead /\ read \in ReadRuns
  BY <1>1 DEF IInv, Types, NoRead
<1>3. read.by \in {"app", "dialog"} => read.kind = "failed"
  BY <1>1, <1>2 DEF TreeFits, AccountsFit
<1>4. \/ \E stage \in {"working", "ended"} : read' = [read EXCEPT !.stage = stage]
      \/ read.by \in {"tx", "so"} /\ read'.by = read.by
      \/ /\ read.by \in {"app", "dialog"}
         /\ \E kind \in {"result", "notfound"} :
              /\ kind = "notfound" => \A a \in Accounts : HomeOf[a] # read.on
              /\ read' = [read EXCEPT !.stage = "ended", !.kind = kind,
                                      !.shown = Kept(read.on)]
  <2>1. CASE Clone
    BY <2>1 DEF Clone
  <2>2. CASE ReadRows
    BY <1>2, <2>2 DEF ReadRows, ReadRuns
  <2>3. QED BY <2>1, <2>2
<1>5. CASE \E stage \in {"working", "ended"} : read' = [read EXCEPT !.stage = stage]
  <2>1. /\ read'.by = read.by /\ read'.kind = read.kind /\ read'.since = read.since
        /\ read'.shown = read.shown
    BY <1>2, <1>5 DEF ReadRuns
  <2>2. read' # NoRead
    BY <1>2, <1>5 DEF ReadRuns, NoRead
  <2>3. QED BY <1>1, <1>2, <1>3, <2>1, <2>2 DEF TreeFits, AccountsFit, Coming, Kept
<1>6. CASE read.by \in {"tx", "so"} /\ read'.by = read.by
  BY <1>1, <1>6 DEF TreeFits, AccountsFit, Coming, Kept
<1>7. CASE /\ read.by \in {"app", "dialog"}
           /\ \E kind \in {"result", "notfound"} :
                /\ kind = "notfound" => \A a \in Accounts : HomeOf[a] # read.on
                /\ read' = [read EXCEPT !.stage = "ended", !.kind = kind,
                                        !.shown = Kept(read.on)]
  <2>1. PICK kind \in {"result", "notfound"} :
          /\ kind = "notfound" => \A a \in Accounts : HomeOf[a] # read.on
          /\ read' = [read EXCEPT !.stage = "ended", !.kind = kind, !.shown = Kept(read.on)]
    BY <1>7
  <2>2. /\ read'.by = read.by /\ read'.kind = kind /\ read'.since = read.since
        /\ read'.shown = Kept(read.on) /\ read'.stage = "ended" /\ read'.on = read.on
    <3> DEFINE shown == Kept(read.on)
    <3>1. read' = [read EXCEPT !.stage = "ended", !.kind = kind, !.shown = shown]
      BY <2>1
    <3> HIDE DEF shown
    <3>2. /\ read'.by = read.by /\ read'.kind = kind /\ read'.since = read.since
          /\ read'.shown = shown /\ read'.stage = "ended" /\ read'.on = read.on
      BY <1>2, <3>1 DEF ReadRuns
    <3>3. QED BY <3>2 DEF shown
  <2>3. AccountsFit(read')
    BY <2>1, <2>2 DEF AccountsFit, Kept
  <2>4. read' # NoRead
    BY <2>2 DEF NoRead
  <2>5. read.since = generation => read.on = file
    BY <1>2 DEF IInv, Session
  <2>6. /\ Coming => Coming'
        /\ Coming' => read'.shown = Kept(file)
    BY <1>1, <1>2, <1>7, <2>2, <2>4, <2>5 DEF Coming
  <2>7. QED BY <1>1, <2>3, <2>6 DEF TreeFits, AccountsFit, Kept
<1>8. QED BY <1>4, <1>5, <1>6, <1>7

LEMMA TreeHandedOn ==
  ASSUME IInv, Connected, TreeFits, HandOn
  PROVE  TreeFits'
<1>1. /\ toHear = {} /\ slot = "none" /\ read.stage = "ended" /\ read' = NoRead
      /\ UNCHANGED <<file, generation, active, due, slot>>
  BY DEF HandOn, InEventLoop
<1>2. read # NoRead /\ read \in ReadRuns /\ read.by \in Readers
  BY <1>1 DEF IInv, Types, NoRead, ReadRuns
<1>3. takers # {} <=> read.by \in {"app", "dialog"}
  BY <1>1, <1>2 DEF Connected, IInv, Owned, Out, Told, Readers
<1>4. AccountsFit(read)'
  BY <1>1 DEF AccountsFit
<1>5. read.since = generation => read.on = file
  BY <1>2 DEF IInv, Session
<1>6. CASE read.since = generation /\ read.kind = "result" /\ takers # {}
  <2>1. tree' = read.shown /\ ~unread'
    BY <1>6 DEF HandOn, SetItems
  <2>2. \A a \in tree' : HomeOf[a] = file
    BY <1>2, <1>3, <1>5, <1>6, <2>1 DEF TreeFits, AccountsFit
  <2>3. file # NoFile => tree' = Kept(file) \/ due
    BY <1>2, <1>3, <1>6, <2>1 DEF TreeFits, Coming
  <2>4. QED BY <1>1, <1>4, <2>1, <2>2, <2>3 DEF TreeFits, Coming, Kept
<1>7. CASE ~(read.since = generation /\ read.kind = "result" /\ takers # {})
  <2>1. /\ tree' = tree
        /\ ~unread' => ~unread /\ ~(/\ read.since = generation /\ read.kind = "failed"
                                    /\ read.by \in {"app", "dialog"})
    BY <1>7 DEF HandOn
  <2>2. ~unread' /\ Coming /\ file # NoFile => tree = Kept(file)
    <3>1. SUFFICES ASSUME ~unread', Coming, file # NoFile PROVE tree = Kept(file)
      OBVIOUS
    <3>2. read.kind = "notfound"
      BY <1>2, <1>3, <1>7, <2>1, <3>1 DEF Coming, ReadRuns
    <3>3. \A a \in Accounts : HomeOf[a] # file
      BY <1>2, <1>5, <3>1, <3>2 DEF Coming, TreeFits, AccountsFit
    <3>4. tree = {} /\ Kept(file) = {}
      BY <3>1, <3>3 DEF TreeFits, Kept, IInv, Types
    <3>5. QED BY <3>4
  <2>3. Kept(file)' = Kept(file)
    BY <1>1 DEF Kept
  <2>4. QED BY <1>1, <1>4, <2>1, <2>2, <2>3 DEF TreeFits, Coming
<1>8. QED BY <1>6, <1>7

LEMMA TreeInvariance == Spec => []TreeFits
<1>1. Init => TreeFits
  BY DEF Init, TreeFits, AccountsFit
<1>2. IInv /\ Connected /\ TreeFits /\ [Next]_vars => TreeFits'
  BY TreeAsked, TreeOfSession, TreeRefreshed, TreeSetUp, TreeAwaited, TreeHandedOn
     DEF Next, Choices, Orders
<1>3. QED BY <1>1, <1>2, Invariance, PTL DEF Spec

(* Once the event loop is quiet and no request is out or put off, the tree *)
(* shows the accounts kept in the open file, unless reading them failed    *)
(* since it was filled; the standing orders are of the chosen account;     *)
(* and where no fetch has left anything unsaid, the bookings shown are the *)
(* first ones the file holds of it - however the choices, the orders, the  *)
(* wizard, the fetches and the connections came and went before.           *)
THEOREM NothingStale == Spec => []NothingStaleAtRest
<1>1. ASSUME IInv, Quietness, Undisturbed, written = "shown"
      PROVE  BookingsShown
  <2> DEFINE n == holding[account]
             h == InOrder(account, order, n)
  <2>1. /\ tx \in TxTable /\ Shape(tx, account, order) /\ Going(tx, account)
        /\ order \in Orders /\ account \in Accounts /\ n \in 0..MaxBookings /\ n \in Nat
    BY <1>1, AtHand DEF Undisturbed, Choices
  <2>2. Fresh(tx, account, order, read, n)
    BY <1>1 DEF Quietness, Undisturbed, InEventLoop, Current, IInv, FreshIfCurrent
  <2>3. ~tx.previous /\ ~tx.pending /\ ~tx.deferred /\ ~tx.failed
    BY <1>1, <2>1 DEF Quietness, Undisturbed, Going
  <2>4. /\ tx.rows \in Seq(Bookings) /\ tx.loaded \in Nat /\ Len(tx.rows) = tx.loaded
        /\ tx.loaded <= n
        /\ \A i \in 1..tx.loaded :
             tx.rows[i] = Booking(account, IF order = "newest" THEN n + 1 - i ELSE i)
    BY <2>1, <2>2, <2>3 DEF Shape, TxTable, Fresh, RowsAgree
  <2>5. /\ h \in Seq(Bookings) /\ Len(h) = n
        /\ \A i \in 1..n : h[i] = Booking(account, IF order = "newest" THEN n + 1 - i ELSE i)
    BY <2>1, HoldingInOrder
  <2> DEFINE first == SubSeq(h, 1, tx.loaded)
  <2>6. tx.rows = first
    <3> HIDE DEF h
    <3>1. /\ first \in Seq(Bookings) /\ Len(first) = tx.loaded
          /\ \A i \in 1..tx.loaded : first[i] = h[i]
      <4>1. \A i \in 1..tx.loaded : i \in 1..Len(h)
        BY <2>1, <2>4, <2>5
      <4>2. QED BY <2>1, <2>4, <2>5, <4>1, SubSeqProperties
    <3> HIDE DEF first
    <3>2. \A i \in 1..tx.loaded : tx.rows[i] = first[i]
      BY <2>1, <2>4, <2>5, <3>1
    <3>3. QED BY <2>4, <3>1, <3>2, SeqEqual
  <2>7. /\ tx.loaded > 0 \/ tx.atEnd
        /\ tx.atEnd => tx.loaded = n
    BY <2>2, <2>3 DEF Fresh
  <2>8. QED BY <2>6, <2>7 DEF BookingsShown
<1>2. ASSUME IInv, TreeFits, Quietness, file # NoFile, ~unread
      PROVE  tree = Kept(file)
  BY <1>2 DEF Quietness, InEventLoop, TreeFits, Coming
<1>3. IInv => so.rows \in {account, NoAccount}
  BY DEF IInv, OrdersFit, SoFits
<1>4. IInv /\ TreeFits => NothingStaleAtRest
  BY <1>1, <1>2, <1>3 DEF NothingStaleAtRest
<1>5. QED BY <1>4, Invariance, TreeInvariance, PTL
=============================================================================
