------------------------------ MODULE BooksProofs ------------------------------
(***************************************************************************)
(* What the four record keepers that post to the ledger guarantee for any  *)
(* number of documents, claims, returns and pay runs and for all amounts:  *)
(* subledgers, expense claims, GST returns and payroll.                    *)
(*                                                                         *)
(* Three of them are about money in two places, the rows of a table and    *)
(* the account the journals post to.  Each is proved the same way: the     *)
(* account equals a sum over ALL rows, to which a row adds zero while it   *)
(* does not count, so that a step that writes one row moves both by the    *)
(* same amount; that the sum over the rows that count is the same one      *)
(* comes last.                                                             *)
(***************************************************************************)
EXTENDS Subledger, GstReturns, Payroll, ExpenseClaims, SumTheorems

-----------------------------------------------------------------------------
(* Subledgers: invoices, bills, foreign slices and revaluations.           *)

\* The statuses of a document that has a journal, and the row of a document.
PostedStatus == {"POSTED", "PARTIALLY_PAID", "PAID"}

Document == [status : {"NONE", "DRAFT"} \cup PostedStatus, date : BookDates \cup {0}, lines : Seq(Int),
             total : Int, paid : Int, withheld : Int, tax : Int, deposited : Int, foreign : Int,
             gst : Int, itc : BOOLEAN]

\* The rows are well formed, the four accounts the properties read are numbers.
SubledgerTypeOK ==
  /\ docs \in [Documents -> Document]
  /\ relieved \in [Documents -> [count : Nat, foreign : Int, base : Int]]
  /\ idle \in [{"TCS", "TDS"} -> Int]
  /\ DOMAIN balance = Accounts
  /\ \A a \in {"AR", "AP", "TCS", "TDS"} : balance[a] \in Int
  /\ DOMAIN revalued = BookDates
  /\ \A t \in BookDates : DOMAIN revalued[t] = {"status", "open", "adjustment"}

\* Nothing was paid, withheld or deposited before a document is posted.
FreshUntilPosted ==
  \A d \in Documents : docs[d].status \notin PostedStatus =>
    /\ docs[d].paid = 0 /\ docs[d].withheld = 0 /\ docs[d].tax = 0 /\ docs[d].deposited = 0
    /\ relieved[d] = [count |-> 0, foreign |-> 0, base |-> 0]
    /\ docs[d].status = "NONE" => docs[d].foreign = 0

\* What a document adds to its control account, and its tax to the liability.
Owed(doc) == IF doc.status \in PostedStatus THEN Outstanding(doc) ELSE 0
Due(doc) == doc.tax - doc.deposited
OwedIn(table, S) == SumFunctionOnSet([d \in Documents |-> Owed(table[d])], S)
DueIn(table, S) == SumFunctionOnSet([d \in Documents |-> Due(table[d])], S)

\* Each account is what its documents, posted or not, add to it.
AccountsTied ==
  /\ balance["AR"] = OwedIn(docs, Sales)
  /\ balance["AP"] = 0 - OwedIn(docs, Bills)
  /\ balance["TCS"] = idle["TCS"] - DueIn(docs, Sales)
  /\ balance["TDS"] = idle["TDS"] - DueIn(docs, Bills)
  /\ \A d \in Documents : Due(docs[d]) >= 0

\* The lines of a posted run are open as recorded, hence of documents created.
RunsDescribe ==
  \A t \in BookDates : revalued[t].status = "POSTED" =>
    /\ DOMAIN revalued[t].open = DOMAIN revalued[t].adjustment
    /\ \A d \in DOMAIN revalued[t].open :
         /\ d \in Documents /\ docs[d].status # "NONE"
         /\ revalued[t].open[d] = OpenForeign(d)

\* k slices that add up to x of the foreign amount F relieved b of the base
\* amount B: each its floor, less than one unit short.
Floored(B, F, k, x, b) ==
  /\ b * F <= B * x /\ B * x <= b * F + k * (F - 1)
  /\ k = 0 => x = 0 /\ b = 0

SlicesFloored ==
  \A d \in Documents : LET doc == docs[d]
                           rel == relieved[d] IN
    /\ doc.foreign >= 0
    /\ doc.foreign > 0 =>
         /\ rel.foreign <= doc.foreign
         /\ rel.foreign < doc.foreign => Floored(Net(doc), doc.foreign, rel.count, rel.foreign, rel.base)
         /\ rel.foreign = doc.foreign =>
              LET left == Net(doc) - rel.base
              IN left >= 0 /\ left <= IF rel.count > 2 THEN rel.count - 2 ELSE 0

\* What every step of the subledgers preserves.
SubledgerInv == SubledgerTypeOK /\ FreshUntilPosted /\ AccountsTied /\ RunsDescribe /\ SlicesFloored

-----------------------------------------------------------------------------
(* Operators. *)

\* The amounts of a row are numbers.
LEMMA DocumentFields ==
  ASSUME NEW doc \in Document
  PROVE  /\ doc.total \in Int /\ doc.paid \in Int /\ doc.withheld \in Int
         /\ doc.tax \in Int /\ doc.deposited \in Int /\ doc.foreign \in Int
         /\ doc.lines \in Seq(Int) /\ doc.gst \in Int
BY DEF Document

\* Rounding half up stays among the integers and above zero.
LEMMA HalfUpInt ==
  ASSUME NEW n \in Int, NEW k \in Nat \ {0}
  PROVE  HalfUp(n, k) \in Int /\ (n >= 0 => HalfUp(n, k) >= 0)
BY DEF HalfUp

\* The total of lines is a number.
LEMMA SeqSumInt ==
  ASSUME NEW lines, IsFiniteSet(DOMAIN lines), \A i \in DOMAIN lines : lines[i] \in Int
  PROVE  SumFunction(lines) \in Int
BY SumInt DEF SumFunction

\* So is the net amount of a document.
LEMMA NetInt ==
  ASSUME NEW lines \in Seq(Int)
  PROVE  IsFiniteSet(DOMAIN lines) /\ SumFunction(lines) \in Int
<1>1. DOMAIN lines = 1 .. Len(lines) /\ Len(lines) \in Nat /\ \A i \in DOMAIN lines : lines[i] \in Int
  OBVIOUS
<1>2. IsFiniteSet(DOMAIN lines)
  BY <1>1, FS_Interval
<1> QED
  BY <1>1, <1>2, SeqSumInt

\* The net and the tax of a document are numbers, whatever is recoverable.
LEMMA GstInt ==
  ASSUME NEW doc \in Document
  PROVE  Net(doc) \in Int /\ Gst(doc) \in Int
<1>1. doc.lines \in Seq(Int) /\ doc.gst \in Int
  BY DEF Document
<1>2. IsFiniteSet(DOMAIN doc.lines) /\ SumFunction(doc.lines) \in Int
  BY <1>1, NetInt
<1> DEFINE tax == [i \in DOMAIN doc.lines |-> HalfUp(doc.lines[i] * doc.gst, 10000)]
<1>3. \A i \in DOMAIN tax : tax[i] \in Int
  <2> SUFFICES ASSUME NEW i \in DOMAIN doc.lines PROVE HalfUp(doc.lines[i] * doc.gst, 10000) \in Int
    OBVIOUS
  <2>1. doc.lines[i] \in Int
    BY <1>1
  <2>2. doc.lines[i] * doc.gst \in Int
    BY <1>1, <2>1
  <2> QED
    BY <2>2, HalfUpInt
<1>4. SumFunction(tax) \in Int
  <2>1. DOMAIN tax = DOMAIN doc.lines
    OBVIOUS
  <2> HIDE DEF tax
  <2> QED
    BY <1>2, <1>3, <2>1, SeqSumInt
<1> QED
  BY <1>2, <1>4 DEF Net, Gst

\* What is withheld from a document is a number.
LEMMA WithholdingInt ==
  ASSUME NEW doc \in Document, NEW bps \in Withholdings
  PROVE  Withholding(doc, bps) \in Int /\ bps \in Int /\ bps >= 0
<1>1. bps \in Int /\ bps >= 0
  BY SubledgerAssumption
<1> QED
  BY <1>1, GstInt, HalfUpInt DEF Withholding

\* Converting the lines at the rate of the booking yields lines of integers.
LEMMA ConvertLinesSeq ==
  ASSUME NEW foreign \in Seq(Nat \ {0})
  PROVE  ConvertLines(foreign) \in Seq(Int)
<1>1. foreign \in Seq(Int) /\ DOMAIN foreign = 1 .. Len(foreign) /\ Len(foreign) \in Nat
  OBVIOUS
<1>2. BookRate.num \in Nat \ {0} /\ BookRate.den \in Nat \ {0}
  BY SubledgerAssumption
<1> DEFINE floors == [i \in DOMAIN foreign |-> (foreign[i] * BookRate.num) \div BookRate.den]
           left == Convert(SumFunction(foreign), BookRate) - SumFunction(floors)
           before(i) == {j \in DOMAIN foreign :
                           \/ (foreign[j] * BookRate.num) % BookRate.den > (foreign[i] * BookRate.num) % BookRate.den
                           \/ /\ (foreign[j] * BookRate.num) % BookRate.den = (foreign[i] * BookRate.num) % BookRate.den
                              /\ j < i}
           lines == [i \in DOMAIN foreign |-> floors[i] + (IF Cardinality(before(i)) < left THEN 1 ELSE 0)]
<1>3. \A i \in DOMAIN foreign : floors[i] \in Int
  BY <1>1, <1>2
<1>4. ConvertLines(foreign) = lines
  BY DEF ConvertLines
<1>5. \A i \in DOMAIN foreign : lines[i] \in Int
  <2> HIDE DEF floors, left, before
  <2> QED
    BY <1>3
<1>6. lines = [i \in 1 .. Len(foreign) |-> lines[i]]
  BY <1>1
<1> HIDE DEF lines
<1> QED
  BY <1>1, <1>4, <1>5, <1>6

\* Converting an amount at any of the rates yields an integer.
LEMMA ConvertInt ==
  ASSUME NEW n \in Int, NEW r \in {BookRate} \cup Settlements \cup CloseRates
  PROVE  Convert(n, r) \in Int
<1>1. r.num \in Nat \ {0} /\ r.den \in Nat \ {0}
  BY SubledgerAssumption
<1>2. n * r.num \in Int
  BY <1>1
<1> QED
  BY <1>1, <1>2, HalfUpInt DEF Convert

\* The row of a document that was not created yet is well formed.
LEMMA NewDocument == NoDocument \in Document
<1>1. <<>> \in Seq(Int)
  OBVIOUS
<1> QED
  BY <1>1 DEF NoDocument, Document

\* Invoices and bills are finitely many and disjoint.
LEMMA FiniteIds == IsFiniteSet(Sales) /\ IsFiniteSet(Bills) /\ Sales \cap Bills = {} /\ Documents = Sales \cup Bills
BY SubledgerAssumption DEF Documents

-----------------------------------------------------------------------------
\* Posting lines adds each to its account and leaves the others alone.
LEMMA JournalEffect ==
  ASSUME SubledgerTypeOK, NEW date, NEW lines, Journal(date, lines)
  PROVE  /\ DOMAIN balance' = Accounts
         /\ \A a \in Accounts : balance'[a] = balance[a] + (IF a \in DOMAIN lines THEN lines[a] ELSE 0)
BY DEF Journal

\* The books start empty: the invariant holds.
LEMMA InvInit == SubledgerInit => SubledgerInv
<1> SUFFICES ASSUME SubledgerInit PROVE SubledgerInv
  OBVIOUS
<1>1. SubledgerTypeOK
  BY NewDocument DEF SubledgerInit, SubledgerTypeOK, Accounts, NoRun
<1>2. FreshUntilPosted
  BY DEF SubledgerInit, FreshUntilPosted, NoDocument
<1>3. AccountsTied
  <2> DEFINE owed == [d \in Documents |-> Owed(docs[d])]
             due == [d \in Documents |-> Due(docs[d])]
  <2>1. \A d \in Documents : owed[d] = 0 /\ due[d] = 0
    BY DEF SubledgerInit, NoDocument, Owed, Due, PostedStatus
  <2> HIDE DEF owed, due
  <2>2. \A S \in {Sales, Bills} : SumFunctionOnSet(owed, S) = 0 /\ SumFunctionOnSet(due, S) = 0
    BY <2>1, FiniteIds, SumZero
  <2>3. OwedIn(docs, Sales) = 0 /\ OwedIn(docs, Bills) = 0 /\ DueIn(docs, Sales) = 0 /\ DueIn(docs, Bills) = 0
    BY <2>2 DEF OwedIn, DueIn, owed, due
  <2>4. balance["AR"] = 0 /\ balance["AP"] = 0 /\ balance["TCS"] = 0 /\ balance["TDS"] = 0
    BY DEF SubledgerInit, Accounts
  <2>5. \A d \in Documents : Due(docs[d]) >= 0
    BY <2>1 DEF due
  <2>6. idle["TCS"] = 0 /\ idle["TDS"] = 0
    BY DEF SubledgerInit
  <2> QED
    BY <2>3, <2>4, <2>5, <2>6 DEF AccountsTied
<1>4. RunsDescribe
  BY DEF SubledgerInit, RunsDescribe, NoRun
<1>5. SlicesFloored
  BY DEF SubledgerInit, SlicesFloored, NoDocument
<1> QED
  BY <1>1, <1>2, <1>3, <1>4, <1>5 DEF SubledgerInv

-----------------------------------------------------------------------------
(* The steps by what they change: a draft is written, a document posted or *)
(* settled, a deposit allocated, a run posted or reversed, a period moved. *)

\* What a document adds to its accounts is a number.
LEMMA FiguresInt ==
  ASSUME NEW doc \in Document
  PROVE  Owed(doc) \in Int /\ Due(doc) \in Int
BY DocumentFields DEF Owed, Due, Outstanding

\* Writing one row changes the sums by what that row changes.
LEMMA OwedEffect ==
  ASSUME docs \in [Documents -> Document], NEW d \in Documents, NEW row \in Document,
         docs' = [docs EXCEPT ![d] = row], NEW S \in SUBSET Documents, IsFiniteSet(S)
  PROVE  /\ OwedIn(docs', S) = OwedIn(docs, S) + (IF d \in S THEN Owed(row) - Owed(docs[d]) ELSE 0)
         /\ DueIn(docs', S) = DueIn(docs, S) + (IF d \in S THEN Due(row) - Due(docs[d]) ELSE 0)
<1>1. \A doc \in Document : Owed(doc) \in Int /\ Due(doc) \in Int
  BY FiguresInt
<1> DEFINE f == [e \in Documents |-> Owed(docs[e])]
           g == [e \in Documents |-> Owed(docs'[e])]
           h == [e \in Documents |-> Due(docs[e])]
           k == [e \in Documents |-> Due(docs'[e])]
           m == Owed(row) - Owed(docs[d])
           n == Due(row) - Due(docs[d])
<1>2. /\ m \in Int /\ \A e \in Documents : f[e] \in Int
      /\ g[d] = f[d] + m /\ \A e \in Documents : e # d => g[e] = f[e]
  BY <1>1
<1>3. /\ n \in Int /\ \A e \in Documents : h[e] \in Int
      /\ k[d] = h[d] + n /\ \A e \in Documents : e # d => k[e] = h[e]
  BY <1>1
<1> HIDE DEF f, g, h, k, m, n
<1>4. SumFunctionOnSet(g, S) = SumFunctionOnSet(f, S) + (IF d \in S THEN m ELSE 0)
  BY <1>2, SumEffect
<1>5. SumFunctionOnSet(k, S) = SumFunctionOnSet(h, S) + (IF d \in S THEN n ELSE 0)
  BY <1>3, SumEffect
<1>6. OwedIn(docs, S) = SumFunctionOnSet(f, S) /\ OwedIn(docs', S) = SumFunctionOnSet(g, S)
  BY DEF OwedIn, f, g
<1>7. DueIn(docs, S) = SumFunctionOnSet(h, S) /\ DueIn(docs', S) = SumFunctionOnSet(k, S)
  BY DEF DueIn, h, k
<1> QED
  BY <1>4, <1>5, <1>6, <1>7 DEF m, n

\* The sums over documents are numbers.
LEMMA SumsInt ==
  ASSUME docs \in [Documents -> Document], NEW S \in SUBSET Documents, IsFiniteSet(S)
  PROVE  OwedIn(docs, S) \in Int /\ DueIn(docs, S) \in Int
<1>1. \A doc \in Document : Owed(doc) \in Int /\ Due(doc) \in Int
  BY FiguresInt
<1> DEFINE f == [e \in Documents |-> Owed(docs[e])]
           h == [e \in Documents |-> Due(docs[e])]
<1>2. \A e \in S : f[e] \in Int /\ h[e] \in Int
  BY <1>1
<1> HIDE DEF f, h
<1>3. SumFunctionOnSet(f, S) \in Int /\ SumFunctionOnSet(h, S) \in Int
  BY <1>2, SumInt
<1> QED
  BY <1>3 DEF OwedIn, DueIn, f, h

-----------------------------------------------------------------------------
\* A step that writes one row and moves the control and tax accounts by the same amounts
\* keeps them tied.
LEMMA RowTies ==
  ASSUME SubledgerTypeOK, AccountsTied, NEW d \in Documents, NEW row \in Document,
         docs' = [docs EXCEPT ![d] = row], Due(row) >= 0,
         idle' \in [{"TCS", "TDS"} -> Int],
         \A a \in {"AR", "AP", "TCS", "TDS"} : balance'[a] \in Int,
         balance'["AR"] = balance["AR"] + (IF d \in Sales THEN Owed(row) - Owed(docs[d]) ELSE 0),
         balance'["AP"] = balance["AP"] - (IF d \in Bills THEN Owed(row) - Owed(docs[d]) ELSE 0),
         balance'["TCS"] - idle'["TCS"] = balance["TCS"] - idle["TCS"] - (IF d \in Sales THEN Due(row) - Due(docs[d]) ELSE 0),
         balance'["TDS"] - idle'["TDS"] = balance["TDS"] - idle["TDS"] - (IF d \in Bills THEN Due(row) - Due(docs[d]) ELSE 0)
  PROVE  AccountsTied'
<1>1. docs \in [Documents -> Document] /\ \A a \in {"AR", "AP", "TCS", "TDS"} : balance[a] \in Int
  BY DEF SubledgerTypeOK
<1>2. idle["TCS"] \in Int /\ idle["TDS"] \in Int /\ idle'["TCS"] \in Int /\ idle'["TDS"] \in Int
  BY DEF SubledgerTypeOK
<1>3. Sales \in SUBSET Documents /\ Bills \in SUBSET Documents
  BY FiniteIds
<1>4. /\ OwedIn(docs', Sales) = OwedIn(docs, Sales) + (IF d \in Sales THEN Owed(row) - Owed(docs[d]) ELSE 0)
      /\ DueIn(docs', Sales) = DueIn(docs, Sales) + (IF d \in Sales THEN Due(row) - Due(docs[d]) ELSE 0)
  BY <1>1, <1>3, FiniteIds, OwedEffect
<1>5. /\ OwedIn(docs', Bills) = OwedIn(docs, Bills) + (IF d \in Bills THEN Owed(row) - Owed(docs[d]) ELSE 0)
      /\ DueIn(docs', Bills) = DueIn(docs, Bills) + (IF d \in Bills THEN Due(row) - Due(docs[d]) ELSE 0)
  BY <1>1, <1>3, FiniteIds, OwedEffect
<1>6. /\ OwedIn(docs, Sales) \in Int /\ DueIn(docs, Sales) \in Int
      /\ OwedIn(docs, Bills) \in Int /\ DueIn(docs, Bills) \in Int
  BY <1>1, <1>3, FiniteIds, SumsInt
<1>7. Owed(row) \in Int /\ Due(row) \in Int /\ Owed(docs[d]) \in Int /\ Due(docs[d]) \in Int
  BY <1>1, FiguresInt
<1>8. \A e \in Documents : Due(docs'[e]) >= 0
  <2>1. \A e \in Documents : docs'[e] = IF e = d THEN row ELSE docs[e]
    BY <1>1
  <2> QED
    BY <2>1 DEF AccountsTied
<1>9. balance'["AR"] = OwedIn(docs', Sales)
  BY <1>1, <1>4, <1>6, <1>7 DEF AccountsTied
<1>10. balance'["AP"] = 0 - OwedIn(docs', Bills)
  BY <1>1, <1>5, <1>6, <1>7 DEF AccountsTied
<1>11. balance'["TCS"] = idle'["TCS"] - DueIn(docs', Sales)
  BY <1>1, <1>2, <1>4, <1>6, <1>7 DEF AccountsTied
<1>12. balance'["TDS"] = idle'["TDS"] - DueIn(docs', Bills)
  <2>1. balance["TDS"] = idle["TDS"] - DueIn(docs, Bills)
    BY DEF AccountsTied
  <2> QED
    BY <1>1, <1>2, <1>5, <1>6, <1>7, <2>1
<1> QED
  BY <1>8, <1>9, <1>10, <1>11, <1>12 DEF AccountsTied, OwedIn, DueIn

\* The same for an invoice, which moves the receivable side alone.
LEMMA SaleTies ==
  ASSUME SubledgerTypeOK, AccountsTied, NEW d \in Sales, NEW row \in Document,
         docs' = [docs EXCEPT ![d] = row], Due(row) >= 0,
         idle' \in [{"TCS", "TDS"} -> Int],
         \A a \in {"AR", "AP", "TCS", "TDS"} : balance'[a] \in Int,
         balance'["AR"] = balance["AR"] + Owed(row) - Owed(docs[d]),
         balance'["TCS"] - idle'["TCS"] = balance["TCS"] - idle["TCS"] + Due(docs[d]) - Due(row),
         balance'["AP"] = balance["AP"], balance'["TDS"] = balance["TDS"], idle'["TDS"] = idle["TDS"]
  PROVE  AccountsTied'
<1>1. d \in Documents /\ d \notin Bills
  BY FiniteIds
<1>2. Owed(row) \in Int /\ Due(row) \in Int /\ Owed(docs[d]) \in Int /\ Due(docs[d]) \in Int
  BY <1>1, FiguresInt DEF SubledgerTypeOK
<1>3. /\ \A a \in {"AR", "AP", "TCS", "TDS"} : balance[a] \in Int
      /\ idle["TCS"] \in Int /\ idle["TDS"] \in Int /\ idle'["TCS"] \in Int
  BY DEF SubledgerTypeOK
<1>4. balance'["AR"] = balance["AR"] + (IF d \in Sales THEN Owed(row) - Owed(docs[d]) ELSE 0)
  BY <1>2, <1>3
<1>5. balance'["AP"] = balance["AP"] - (IF d \in Bills THEN Owed(row) - Owed(docs[d]) ELSE 0)
  BY <1>1, <1>3
<1>6. balance'["TCS"] - idle'["TCS"] = balance["TCS"] - idle["TCS"] - (IF d \in Sales THEN Due(row) - Due(docs[d]) ELSE 0)
  BY <1>2, <1>3
<1>7. balance'["TDS"] - idle'["TDS"] = balance["TDS"] - idle["TDS"] - (IF d \in Bills THEN Due(row) - Due(docs[d]) ELSE 0)
  BY <1>1, <1>3
<1> QED
  BY <1>1, <1>4, <1>5, <1>6, <1>7, RowTies

\* The same for a bill, which moves the payable side alone.
LEMMA BillTies ==
  ASSUME SubledgerTypeOK, AccountsTied, NEW d \in Bills, NEW row \in Document,
         docs' = [docs EXCEPT ![d] = row], Due(row) >= 0,
         idle' \in [{"TCS", "TDS"} -> Int],
         \A a \in {"AR", "AP", "TCS", "TDS"} : balance'[a] \in Int,
         balance'["AP"] = balance["AP"] + Owed(docs[d]) - Owed(row),
         balance'["TDS"] - idle'["TDS"] = balance["TDS"] - idle["TDS"] + Due(docs[d]) - Due(row),
         balance'["AR"] = balance["AR"], balance'["TCS"] = balance["TCS"], idle'["TCS"] = idle["TCS"]
  PROVE  AccountsTied'
<1>1. d \in Documents /\ d \notin Sales
  BY FiniteIds
<1>2. Owed(row) \in Int /\ Due(row) \in Int /\ Owed(docs[d]) \in Int /\ Due(docs[d]) \in Int
  BY <1>1, FiguresInt DEF SubledgerTypeOK
<1>3. /\ \A a \in {"AR", "AP", "TCS", "TDS"} : balance[a] \in Int
      /\ idle["TCS"] \in Int /\ idle["TDS"] \in Int /\ idle'["TDS"] \in Int
  BY DEF SubledgerTypeOK
<1>4. balance'["AR"] = balance["AR"] + (IF d \in Sales THEN Owed(row) - Owed(docs[d]) ELSE 0)
  BY <1>1, <1>3
<1>5. balance'["AP"] = balance["AP"] - (IF d \in Bills THEN Owed(row) - Owed(docs[d]) ELSE 0)
  BY <1>2, <1>3
<1>6. balance'["TCS"] - idle'["TCS"] = balance["TCS"] - idle["TCS"] - (IF d \in Sales THEN Due(row) - Due(docs[d]) ELSE 0)
  BY <1>1, <1>3
<1>7. balance'["TDS"] - idle'["TDS"] = balance["TDS"] - idle["TDS"] - (IF d \in Bills THEN Due(row) - Due(docs[d]) ELSE 0)
  BY <1>2, <1>3
<1> QED
  BY <1>1, <1>4, <1>5, <1>6, <1>7, RowTies

\* Writing a posted row without touching its lines or its slices keeps the other parts.
LEMMA RowKeeps ==
  ASSUME SubledgerInv, NEW d \in Documents, NEW row \in Document,
         docs' = [docs EXCEPT ![d] = row], row.status \in PostedStatus,
         docs[d].status # "NONE", row.lines = docs[d].lines, row.foreign = docs[d].foreign,
         UNCHANGED <<relieved, revalued>>
  PROVE  FreshUntilPosted' /\ RunsDescribe' /\ SlicesFloored'
<1>1. /\ docs \in [Documents -> Document]
      /\ \A e \in Documents : docs'[e] = IF e = d THEN row ELSE docs[e]
  BY DEF SubledgerInv, SubledgerTypeOK
<1>2. \A e \in Documents : docs'[e].lines = docs[e].lines /\ docs'[e].foreign = docs[e].foreign
  BY <1>1
<1>3. FreshUntilPosted'
  BY <1>1 DEF SubledgerInv, FreshUntilPosted
<1>4. RunsDescribe'
  BY <1>1, <1>2 DEF SubledgerInv, RunsDescribe, OpenForeign, PostedStatus
<1>5. SlicesFloored'
  BY <1>1, <1>2 DEF SubledgerInv, SlicesFloored, Net
<1> QED
  BY <1>3, <1>4, <1>5


\* The balances of a journal with the lines the three document commands write.
LEMMA JournalNumbers ==
  ASSUME SubledgerTypeOK, NEW date, NEW lines, Journal(date, lines),
         \A a \in DOMAIN lines : lines[a] \in Int
  PROVE  /\ DOMAIN balance' = Accounts
         /\ \A a \in {"AR", "AP", "TCS", "TDS"} : balance'[a] \in Int
<1>1. \A a \in {"AR", "AP", "TCS", "TDS"} : a \in Accounts /\ balance[a] \in Int
  BY DEF SubledgerTypeOK, Accounts
<1> QED
  BY <1>1, JournalEffect

\* Creating a draft keeps the invariant: it owes nothing yet and has no slices.
LEMMA DraftStep ==
  ASSUME SubledgerInv, NEW d \in Documents, NEW p \in Payloads, Draft(d, p)
  PROVE  SubledgerInv'
<1> DEFINE lines == IF p.fx THEN ConvertLines(p.lines) ELSE p.lines
           foreign == IF p.fx THEN SumFunction(p.lines) ELSE 0
           row == [NoDocument EXCEPT !.status = "DRAFT", !.date = p.date, !.lines = lines,
                     !.total = SumFunction(lines), !.gst = p.gst, !.itc = p.itc, !.foreign = foreign]
<1>1. WellFormed(p)
  BY SubledgerAssumption
<1>2. lines \in Seq(Int) /\ SumFunction(lines) \in Int /\ SumFunction(p.lines) \in Int /\ SumFunction(p.lines) >= 0
  <2>1. p.lines \in Seq(Nat \ {0}) /\ p.lines \in Seq(Int)
    BY <1>1 DEF WellFormed
  <2>2. lines \in Seq(Int)
    BY <2>1, ConvertLinesSeq
  <2>3. IsFiniteSet(DOMAIN p.lines) /\ SumFunction(p.lines) \in Int
    BY <2>1, NetInt
  <2>4. \A i \in DOMAIN p.lines : p.lines[i] \in Nat
    BY <2>1
  <2>5. SumFunction(p.lines) >= 0
    BY <2>3, <2>4, SumNat DEF SumFunction
  <2> HIDE DEF lines
  <2> QED
    BY <2>2, <2>3, <2>5, NetInt
<1>3. /\ docs \in [Documents -> Document] /\ docs[d].status = "NONE"
      /\ docs' = [docs EXCEPT ![d] = row]
      /\ UNCHANGED <<relieved, revalued, idle, balance, closed>>
  BY DEF SubledgerInv, SubledgerTypeOK, Draft
<1>4. /\ row \in Document /\ row.status = "DRAFT" /\ row.paid = 0 /\ row.withheld = 0 /\ row.tax = 0
      /\ row.deposited = 0 /\ row.foreign \in Int /\ row.foreign >= 0
  <2>1. p.date \in BookDates /\ p.gst \in Int
    BY <1>1 DEF WellFormed
  <2>2. p.itc \in BOOLEAN
    BY <1>1 DEF WellFormed
  <2>3. foreign \in Int /\ foreign >= 0
    <3> HIDE DEF lines
    <3> QED
      BY <1>2
  <2> HIDE DEF lines, foreign
  <2>4. row \in Document /\ row.status = "DRAFT" /\ row.foreign = foreign
    BY <1>2, <2>1, <2>2, <2>3, NewDocument DEF Document
  <2>5. row.paid = 0 /\ row.withheld = 0 /\ row.tax = 0 /\ row.deposited = 0
    BY DEF NoDocument
  <2> QED
    BY <2>3, <2>4, <2>5
<1> HIDE DEF row
<1>5. SubledgerTypeOK'
  BY <1>3, <1>4 DEF SubledgerInv, SubledgerTypeOK
<1>6. \A e \in Documents : docs'[e] = IF e = d THEN row ELSE docs[e]
  BY <1>3
<1>7. FreshUntilPosted'
  BY <1>3, <1>4, <1>6 DEF SubledgerInv, FreshUntilPosted, PostedStatus
<1>8. /\ docs[d].tax = 0 /\ docs[d].deposited = 0
      /\ relieved[d] = [count |-> 0, foreign |-> 0, base |-> 0]
  BY <1>3 DEF SubledgerInv, FreshUntilPosted, PostedStatus
<1>9. AccountsTied'
  <2>1. Owed(row) = 0 /\ Owed(docs[d]) = 0 /\ Due(row) = 0 /\ Due(docs[d]) = 0
    BY <1>3, <1>4, <1>8 DEF Owed, Due, PostedStatus
  <2>2. \A a \in {"AR", "AP", "TCS", "TDS"} : balance[a] \in Int
    BY DEF SubledgerInv, SubledgerTypeOK
  <2>3. idle["TCS"] \in Int /\ idle["TDS"] \in Int
    BY DEF SubledgerInv, SubledgerTypeOK
  <2>4. idle' \in [{"TCS", "TDS"} -> Int]
    BY <1>3 DEF SubledgerInv, SubledgerTypeOK
  <2>5. /\ balance'["AR"] = balance["AR"] + (IF d \in Sales THEN Owed(row) - Owed(docs[d]) ELSE 0)
        /\ balance'["AP"] = balance["AP"] - (IF d \in Bills THEN Owed(row) - Owed(docs[d]) ELSE 0)
    BY <1>3, <2>1, <2>2
  <2>6. /\ balance'["TCS"] - idle'["TCS"]
             = balance["TCS"] - idle["TCS"] - (IF d \in Sales THEN Due(row) - Due(docs[d]) ELSE 0)
        /\ balance'["TDS"] - idle'["TDS"]
             = balance["TDS"] - idle["TDS"] - (IF d \in Bills THEN Due(row) - Due(docs[d]) ELSE 0)
    BY <1>3, <2>1, <2>2, <2>3
  <2>7. \A a \in {"AR", "AP", "TCS", "TDS"} : balance'[a] \in Int
    BY <1>3, <2>2
  <2>8. Due(row) >= 0 /\ SubledgerTypeOK /\ AccountsTied
    BY <2>1 DEF SubledgerInv
  <2> QED
    BY <1>3, <1>4, <2>4, <2>5, <2>6, <2>7, <2>8, RowTies
<1>10. RunsDescribe'
  <2>1. \A e \in Documents : docs[e].status # "NONE" => docs'[e] = docs[e]
    BY <1>3, <1>6
  <2> QED
    BY <1>3, <2>1 DEF SubledgerInv, RunsDescribe, OpenForeign
<1>11. SlicesFloored'
  <2> SUFFICES ASSUME NEW e \in Documents
               PROVE  SlicesFloored!(e)'
    BY DEF SlicesFloored
  <2>1. CASE e # d
    BY <1>3, <1>6, <2>1 DEF SubledgerInv, SlicesFloored, Net
  <2>2. CASE e = d
    <3>1. Net(row) \in Int
      BY <1>4, GstInt
    <3>2. docs'[d] = row /\ relieved'[d] = [count |-> 0, foreign |-> 0, base |-> 0]
      BY <1>3, <1>6, <1>8
    <3>3. Floored(Net(row), row.foreign, 0, 0, 0)
      BY <1>4, <3>1 DEF Floored
    <3> QED
      BY <1>4, <2>2, <3>1, <3>2, <3>3
  <2> QED
    BY <2>1, <2>2
<1> QED
  BY <1>5, <1>7, <1>9, <1>10, <1>11 DEF SubledgerInv


\* Posting an invoice keeps it: the receivable grows by what the row owes.
LEMMA PostInvoiceStep ==
  ASSUME SubledgerInv, NEW d \in Documents, NEW bps \in Withholdings, PostInvoice(d, bps)
  PROVE  SubledgerInv'
<1> DEFINE doc == docs[d]
           net == Net(doc)
           gst == Gst(doc)
           tcs == Withholding(doc, bps)
           total == net + gst + tcs
           row == [doc EXCEPT !.status = "POSTED", !.total = total, !.tax = tcs]
           entries == [AR |-> total, Income |-> -net, OutputGst |-> -gst, TCS |-> -tcs]
<1>1. /\ SubledgerTypeOK /\ AccountsTied /\ docs \in [Documents -> Document] /\ doc \in Document
      /\ \A a \in {"AR", "AP", "TCS", "TDS"} : balance[a] \in Int
      /\ idle \in [{"TCS", "TDS"} -> Int] /\ idle["TCS"] \in Int /\ idle["TDS"] \in Int
  BY DEF SubledgerInv, SubledgerTypeOK
<1>2. /\ d \in Sales /\ d \notin Bills /\ doc.status = "DRAFT"
      /\ docs' = [docs EXCEPT ![d] = row]
      /\ Journal(doc.date, entries)
      /\ (bps > 0 => tcs > 0)
      /\ UNCHANGED <<relieved, revalued, idle, closed>>
  BY FiniteIds DEF PostInvoice
<1>3. net \in Int /\ gst \in Int /\ tcs \in Int /\ total \in Int /\ bps \in Int /\ bps >= 0
  BY <1>1, GstInt, WithholdingInt
<1>4. tcs >= 0
  <2>1. CASE bps > 0
    BY <1>2, <1>3, <2>1
  <2>2. CASE bps = 0
    BY <1>3, <2>2 DEF Withholding, HalfUp
  <2> QED
    BY <1>3, <2>1, <2>2
<1>5. doc.paid = 0 /\ doc.withheld = 0 /\ doc.tax = 0 /\ doc.deposited = 0
  BY <1>2 DEF SubledgerInv, FreshUntilPosted, PostedStatus
<1> HIDE DEF net, gst, tcs, total
<1>6. /\ row \in Document /\ row.status = "POSTED" /\ row.total = total /\ row.tax = tcs
      /\ row.paid = 0 /\ row.withheld = 0 /\ row.deposited = 0
      /\ row.lines = doc.lines /\ row.foreign = doc.foreign
  BY <1>1, <1>3, <1>5 DEF Document, PostedStatus
<1> HIDE DEF row
<1>7. Owed(row) = total /\ Owed(doc) = 0 /\ Due(row) = tcs /\ Due(doc) = 0
  BY <1>2, <1>3, <1>5, <1>6 DEF Owed, Due, Outstanding, PostedStatus
<1>8. /\ DOMAIN balance' = Accounts
      /\ balance'["AR"] = balance["AR"] + total /\ balance'["AP"] = balance["AP"]
      /\ balance'["TCS"] = balance["TCS"] - tcs /\ balance'["TDS"] = balance["TDS"]
  <2>1. {"AR", "AP", "TCS", "TDS"} \subseteq Accounts
    BY DEF Accounts
  <2>2. \A a \in Accounts : balance'[a] = balance[a] + (IF a \in DOMAIN entries THEN entries[a] ELSE 0)
    BY <1>1, <1>2, JournalEffect
  <2> QED
    BY <1>1, <1>2, <1>3, <2>1, <2>2, JournalEffect
<1> HIDE DEF entries, doc
<1>9. SubledgerTypeOK'
  BY <1>1, <1>2, <1>3, <1>6, <1>8 DEF SubledgerTypeOK
<1>10. AccountsTied'
  <2>1. /\ \A a \in {"AR", "AP", "TCS", "TDS"} : balance'[a] \in Int
        /\ idle' \in [{"TCS", "TDS"} -> Int] /\ idle'["TDS"] = idle["TDS"]
    BY <1>1, <1>2, <1>3, <1>8
  <2>2. balance'["AR"] = balance["AR"] + Owed(row) - Owed(doc)
    BY <1>1, <1>3, <1>7, <1>8
  <2>3. balance'["TCS"] - idle'["TCS"] = balance["TCS"] - idle["TCS"] + Due(doc) - Due(row)
    BY <1>1, <1>2, <1>3, <1>7, <1>8
  <2>4. Due(row) >= 0
    BY <1>4, <1>7
  <2> QED
    BY <1>1, <1>2, <1>6, <1>8, <2>1, <2>2, <2>3, <2>4, SaleTies DEF doc
<1>11. FreshUntilPosted' /\ RunsDescribe' /\ SlicesFloored'
  BY <1>2, <1>6, RowKeeps DEF doc, PostedStatus
<1> QED
  BY <1>9, <1>10, <1>11 DEF SubledgerInv


\* The status after an allocation is one of the posted ones.
LEMMA SettledStatus ==
  ASSUME NEW total \in Int, NEW settled \in Int
  PROVE  Settled(total, settled) \in PostedStatus
BY DEF Settled, PostedStatus

\* Posting a bill keeps it: what is withheld leaves the payable for the TDS liability.
LEMMA PostBillStep ==
  ASSUME SubledgerInv, NEW d \in Documents, NEW bps \in Withholdings, PostBill(d, bps)
  PROVE  SubledgerInv'
<1> DEFINE doc == docs[d]
           gst == Gst(doc)
           gross == Net(doc) + gst
           tds == Withholding(doc, bps)
           input == IF doc.itc THEN gst ELSE 0
           row == [doc EXCEPT !.status = Settled(gross, tds), !.total = gross, !.withheld = tds, !.tax = tds]
           entries == [Expense |-> gross - input, InputGst |-> input, AP |-> tds - gross, TDS |-> -tds]
<1>1. /\ SubledgerTypeOK /\ AccountsTied /\ docs \in [Documents -> Document] /\ doc \in Document
      /\ \A a \in {"AR", "AP", "TCS", "TDS"} : balance[a] \in Int
      /\ idle \in [{"TCS", "TDS"} -> Int] /\ idle["TCS"] \in Int /\ idle["TDS"] \in Int
  BY DEF SubledgerInv, SubledgerTypeOK
<1>2. /\ d \in Bills /\ d \notin Sales /\ doc.status = "DRAFT"
      /\ docs' = [docs EXCEPT ![d] = row]
      /\ Journal(doc.date, entries)
      /\ (bps > 0 => tds > 0)
      /\ UNCHANGED <<relieved, revalued, idle, closed>>
  BY FiniteIds DEF PostBill
<1>3. gross \in Int /\ tds \in Int /\ bps \in Int /\ bps >= 0
  BY <1>1, GstInt, WithholdingInt
<1>4. tds >= 0
  <2>1. CASE bps > 0
    BY <1>2, <1>3, <2>1
  <2>2. CASE bps = 0
    <3>1. Net(doc) \in Int
      BY <1>1, GstInt
    <3> QED
      BY <2>2, <3>1 DEF Withholding, HalfUp
  <2> QED
    BY <1>3, <2>1, <2>2
<1>5. doc.paid = 0 /\ doc.withheld = 0 /\ doc.tax = 0 /\ doc.deposited = 0
  BY <1>2 DEF SubledgerInv, FreshUntilPosted, PostedStatus
<1> HIDE DEF gst, gross, tds, input
<1>6. /\ row \in Document /\ row.status \in PostedStatus /\ row.total = gross /\ row.tax = tds
      /\ row.paid = 0 /\ row.withheld = tds /\ row.deposited = 0
      /\ row.lines = doc.lines /\ row.foreign = doc.foreign
  BY <1>1, <1>3, <1>5, SettledStatus DEF Document
<1> HIDE DEF row
<1>7. Owed(row) = gross - tds /\ Owed(doc) = 0 /\ Due(row) = tds /\ Due(doc) = 0
  BY <1>2, <1>3, <1>5, <1>6 DEF Owed, Due, Outstanding, PostedStatus
<1>8. /\ DOMAIN balance' = Accounts
      /\ balance'["AP"] = balance["AP"] + tds - gross /\ balance'["AR"] = balance["AR"]
      /\ balance'["TDS"] = balance["TDS"] - tds /\ balance'["TCS"] = balance["TCS"]
  <2>1. {"AR", "AP", "TCS", "TDS"} \subseteq Accounts
    BY DEF Accounts
  <2>2. \A a \in Accounts : balance'[a] = balance[a] + (IF a \in DOMAIN entries THEN entries[a] ELSE 0)
    BY <1>1, <1>2, JournalEffect
  <2> QED
    BY <1>1, <1>2, <1>3, <2>1, <2>2, JournalEffect
<1> HIDE DEF entries, doc
<1>9. SubledgerTypeOK'
  BY <1>1, <1>2, <1>3, <1>6, <1>8 DEF SubledgerTypeOK
<1>10. AccountsTied'
  <2>1. /\ \A a \in {"AR", "AP", "TCS", "TDS"} : balance'[a] \in Int
        /\ idle' \in [{"TCS", "TDS"} -> Int] /\ idle'["TCS"] = idle["TCS"]
    BY <1>1, <1>2, <1>3, <1>8
  <2>2. balance'["AP"] = balance["AP"] + Owed(doc) - Owed(row)
    BY <1>1, <1>3, <1>7, <1>8
  <2>3. balance'["TDS"] - idle'["TDS"] = balance["TDS"] - idle["TDS"] + Due(doc) - Due(row)
    BY <1>1, <1>2, <1>3, <1>7, <1>8
  <2>4. Due(row) >= 0
    BY <1>4, <1>7
  <2> QED
    BY <1>1, <1>2, <1>6, <1>8, <2>1, <2>2, <2>3, <2>4, BillTies DEF doc
<1>11. FreshUntilPosted' /\ RunsDescribe' /\ SlicesFloored'
  BY <1>2, <1>6, RowKeeps DEF doc
<1> QED
  BY <1>9, <1>10, <1>11 DEF SubledgerInv

\* What an allocation, in base currency or foreign, does to the row and the accounts.
LEMMA SettleEffect ==
  ASSUME SubledgerInv, NEW d \in Documents, NEW date, NEW bank \in Int, NEW carrying \in Int,
         Settle(d, date, bank, carrying), idle' = idle
  PROVE  /\ docs[d].status \in PostedStatus
         /\ DOMAIN balance' = Accounts /\ \A a \in {"AR", "AP", "TCS", "TDS"} : balance'[a] \in Int
         /\ AccountsTied'
         /\ \E row \in Document : /\ docs' = [docs EXCEPT ![d] = row] /\ row.status \in PostedStatus
                                  /\ row.lines = docs[d].lines /\ row.foreign = docs[d].foreign
<1> DEFINE doc == docs[d]
           paid == doc.paid + carrying
           row == [doc EXCEPT !.paid = paid, !.status = Settled(doc.total, paid + doc.withheld)]
           sale == [Bank |-> bank, AR |-> -carrying, Realized |-> carrying - bank]
           purchase == [Bank |-> -bank, AP |-> carrying, Realized |-> bank - carrying]
<1>1. /\ SubledgerTypeOK /\ AccountsTied /\ docs \in [Documents -> Document] /\ doc \in Document
      /\ \A a \in {"AR", "AP", "TCS", "TDS"} : balance[a] \in Int
      /\ idle \in [{"TCS", "TDS"} -> Int] /\ idle["TCS"] \in Int /\ idle["TDS"] \in Int
      /\ idle' = idle
  BY DEF SubledgerInv, SubledgerTypeOK
<1>2. /\ doc.status \in PostedStatus
      /\ docs' = [docs EXCEPT ![d] = row]
      /\ Journal(date, IF d \in Sales THEN sale ELSE purchase)
  BY DEF Settle, NewPaid, PostedStatus
<1>3. doc.total \in Int /\ doc.paid \in Int /\ doc.withheld \in Int /\ paid \in Int
  BY <1>1, DocumentFields
<1>4. Settled(doc.total, paid + doc.withheld) \in PostedStatus
  BY <1>3, SettledStatus
<1> HIDE DEF paid
<1>5. /\ row \in Document /\ row.status \in PostedStatus /\ row.total = doc.total /\ row.tax = doc.tax
      /\ row.paid = paid /\ row.withheld = doc.withheld /\ row.deposited = doc.deposited
      /\ row.lines = doc.lines /\ row.foreign = doc.foreign
  BY <1>1, <1>3, <1>4 DEF Document
<1> HIDE DEF row
<1>6. Owed(row) = Owed(doc) - carrying /\ Due(row) = Due(doc)
  BY <1>2, <1>3, <1>5 DEF Owed, Due, Outstanding, paid
<1>7. /\ Due(row) >= 0 /\ Due(row) \in Int /\ Owed(row) \in Int /\ Owed(doc) \in Int
  BY <1>1, <1>5, <1>6, FiguresInt DEF AccountsTied
<1>8. {"AR", "AP", "TCS", "TDS"} \subseteq Accounts
  BY DEF Accounts
<1>9. CASE d \in Sales
  <2>1. /\ DOMAIN balance' = Accounts
        /\ \A a \in Accounts : balance'[a] = balance[a] + (IF a \in DOMAIN sale THEN sale[a] ELSE 0)
    BY <1>1, <1>2, <1>9, JournalEffect
  <2>2. /\ balance'["AR"] = balance["AR"] - carrying /\ balance'["AP"] = balance["AP"]
        /\ balance'["TCS"] = balance["TCS"] /\ balance'["TDS"] = balance["TDS"]
    BY <1>1, <1>8, <2>1
  <2>3. \A a \in {"AR", "AP", "TCS", "TDS"} : balance'[a] \in Int
    BY <1>1, <2>2
  <2>4. balance'["AR"] = balance["AR"] + Owed(row) - Owed(doc)
    BY <1>1, <1>6, <1>7, <2>2
  <2>5. balance'["TCS"] - idle'["TCS"] = balance["TCS"] - idle["TCS"] + Due(doc) - Due(row)
    BY <1>1, <1>6, <1>7, <2>2
  <2>6. AccountsTied'
    BY <1>1, <1>2, <1>5, <1>7, <1>9, <2>2, <2>3, <2>4, <2>5, SaleTies DEF doc
  <2> QED
    BY <1>2, <1>5, <2>1, <2>3, <2>6
<1>10. CASE d \notin Sales
  <2>1. /\ DOMAIN balance' = Accounts
        /\ \A a \in Accounts : balance'[a] = balance[a] + (IF a \in DOMAIN purchase THEN purchase[a] ELSE 0)
    BY <1>1, <1>2, <1>10, JournalEffect
  <2>2. /\ balance'["AP"] = balance["AP"] + carrying /\ balance'["AR"] = balance["AR"]
        /\ balance'["TCS"] = balance["TCS"] /\ balance'["TDS"] = balance["TDS"]
    BY <1>1, <1>8, <2>1
  <2>3. \A a \in {"AR", "AP", "TCS", "TDS"} : balance'[a] \in Int
    BY <1>1, <2>2
  <2>4. balance'["AP"] = balance["AP"] + Owed(doc) - Owed(row)
    BY <1>1, <1>6, <1>7, <2>2
  <2>5. balance'["TDS"] - idle'["TDS"] = balance["TDS"] - idle["TDS"] + Due(doc) - Due(row)
    BY <1>1, <1>6, <1>7, <2>2
  <2>6. d \in Bills
    BY <1>10, FiniteIds
  <2>7. AccountsTied'
    BY <1>1, <1>2, <1>5, <1>7, <2>2, <2>3, <2>4, <2>5, <2>6, BillTies DEF doc
  <2> QED
    BY <1>2, <1>5, <2>1, <2>3, <2>7
<1> QED
  BY <1>9, <1>10

\* An allocation in base currency keeps the invariant.
LEMMA AllocateBaseStep ==
  ASSUME SubledgerInv, NEW d \in Documents, NEW date, NEW amount \in Int, AllocateBase(d, date, amount)
  PROVE  SubledgerInv'
<1>1. Settle(d, date, amount, amount) /\ UNCHANGED <<relieved, revalued, idle, closed>>
  BY DEF AllocateBase
<1>2. /\ docs[d].status # "NONE"
      /\ DOMAIN balance' = Accounts /\ \A a \in {"AR", "AP", "TCS", "TDS"} : balance'[a] \in Int
      /\ AccountsTied'
  BY <1>1, SettleEffect DEF PostedStatus
<1>3. PICK row \in Document : /\ docs' = [docs EXCEPT ![d] = row] /\ row.status \in PostedStatus
                              /\ row.lines = docs[d].lines /\ row.foreign = docs[d].foreign
  BY <1>1, SettleEffect
<1>4. SubledgerTypeOK'
  BY <1>1, <1>2, <1>3 DEF SubledgerInv, SubledgerTypeOK
<1>5. FreshUntilPosted' /\ RunsDescribe' /\ SlicesFloored'
  BY <1>1, <1>2, <1>3, RowKeeps
<1> QED
  BY <1>2, <1>4, <1>5 DEF SubledgerInv

\* A deposit of withheld tax keeps it: the liability and what is due shrink together.
LEMMA DepositStep ==
  ASSUME SubledgerInv, NEW d \in Documents, NEW date, NEW amount \in Int, NEW n \in Int,
         Deposit(d, date, n, amount)
  PROVE  SubledgerInv'
<1> DEFINE doc == docs[d]
           deposited == doc.deposited + n
           row == [doc EXCEPT !.deposited = deposited]
           sale == [TCS |-> amount, Bank |-> -amount]
           purchase == [TDS |-> amount, Bank |-> -amount]
<1>1. /\ SubledgerTypeOK /\ AccountsTied /\ docs \in [Documents -> Document] /\ doc \in Document
      /\ \A a \in {"AR", "AP", "TCS", "TDS"} : balance[a] \in Int
      /\ idle \in [{"TCS", "TDS"} -> Int] /\ idle["TCS"] \in Int /\ idle["TDS"] \in Int
  BY DEF SubledgerInv, SubledgerTypeOK
<1>2. /\ doc.tax > 0 /\ n <= doc.tax - doc.deposited
      /\ docs' = [docs EXCEPT ![d] = row]
      /\ Journal(date, IF d \in Sales THEN sale ELSE purchase)
      /\ idle' = [idle EXCEPT ![TaxOf(d)] = idle[TaxOf(d)] + amount - n]
      /\ UNCHANGED <<relieved, revalued, closed>>
  BY <1>1 DEF Deposit, EventOutstanding
<1>3. /\ doc.total \in Int /\ doc.paid \in Int /\ doc.withheld \in Int
      /\ doc.tax \in Int /\ doc.deposited \in Int /\ deposited \in Int
  BY <1>1, DocumentFields
<1> HIDE DEF deposited
<1>4. /\ row \in Document /\ row.status = doc.status /\ row.total = doc.total /\ row.tax = doc.tax
      /\ row.paid = doc.paid /\ row.withheld = doc.withheld /\ row.deposited = deposited
      /\ row.lines = doc.lines /\ row.foreign = doc.foreign
  BY <1>1, <1>3 DEF Document
<1>5. doc.status \in PostedStatus
  BY <1>2 DEF SubledgerInv, FreshUntilPosted
<1> HIDE DEF row
<1>6. Owed(row) = Owed(doc) /\ Due(row) = Due(doc) - n /\ Due(row) >= 0
  BY <1>2, <1>3, <1>4 DEF Owed, Due, Outstanding, deposited
<1>7. Due(row) \in Int /\ Due(doc) \in Int /\ Owed(row) \in Int
  BY <1>1, <1>4, FiguresInt
<1>8. {"AR", "AP", "TCS", "TDS"} \subseteq Accounts
  BY DEF Accounts
<1>9. AccountsTied' /\ DOMAIN balance' = Accounts /\ \A a \in {"AR", "AP", "TCS", "TDS"} : balance'[a] \in Int
  <2>1. CASE d \in Sales
    <3>1. /\ DOMAIN balance' = Accounts
          /\ \A a \in Accounts : balance'[a] = balance[a] + (IF a \in DOMAIN sale THEN sale[a] ELSE 0)
      BY <1>1, <1>2, <2>1, JournalEffect
    <3>2. /\ balance'["TCS"] = balance["TCS"] + amount /\ balance'["AP"] = balance["AP"]
          /\ balance'["AR"] = balance["AR"] /\ balance'["TDS"] = balance["TDS"]
      BY <1>1, <1>8, <3>1
    <3>3. \A a \in {"AR", "AP", "TCS", "TDS"} : balance'[a] \in Int
      BY <1>1, <3>2
    <3>4. idle' = [idle EXCEPT !["TCS"] = idle["TCS"] + amount - n]
      BY <1>2, <2>1 DEF TaxOf
    <3>5. idle' \in [{"TCS", "TDS"} -> Int] /\ idle'["TDS"] = idle["TDS"] /\ idle'["TCS"] = idle["TCS"] + amount - n
      BY <1>1, <3>4
    <3>6. balance'["TCS"] - idle'["TCS"] = balance["TCS"] - idle["TCS"] + Due(doc) - Due(row)
      BY <1>1, <1>6, <1>7, <3>2, <3>5
    <3>7. balance'["AR"] = balance["AR"] + Owed(row) - Owed(doc)
      BY <1>1, <1>6, <1>7, <3>2
    <3>8. AccountsTied'
      BY <1>1, <1>2, <1>4, <1>6, <2>1, <3>2, <3>3, <3>5, <3>6, <3>7, SaleTies DEF doc
    <3> QED
      BY <3>1, <3>3, <3>8
  <2>2. CASE d \notin Sales
    <3>1. /\ DOMAIN balance' = Accounts
          /\ \A a \in Accounts : balance'[a] = balance[a] + (IF a \in DOMAIN purchase THEN purchase[a] ELSE 0)
      BY <1>1, <1>2, <2>2, JournalEffect
    <3>2. /\ balance'["TDS"] = balance["TDS"] + amount /\ balance'["AP"] = balance["AP"]
          /\ balance'["AR"] = balance["AR"] /\ balance'["TCS"] = balance["TCS"]
      BY <1>1, <1>8, <3>1
    <3>3. \A a \in {"AR", "AP", "TCS", "TDS"} : balance'[a] \in Int
      BY <1>1, <3>2
    <3>4. idle' = [idle EXCEPT !["TDS"] = idle["TDS"] + amount - n]
      BY <1>2, <2>2 DEF TaxOf
    <3>5. idle' \in [{"TCS", "TDS"} -> Int] /\ idle'["TCS"] = idle["TCS"] /\ idle'["TDS"] = idle["TDS"] + amount - n
      BY <1>1, <3>4
    <3>6. balance'["TDS"] - idle'["TDS"] = balance["TDS"] - idle["TDS"] + Due(doc) - Due(row)
      BY <1>1, <1>6, <1>7, <3>2, <3>5
    <3>7. balance'["AP"] = balance["AP"] + Owed(doc) - Owed(row)
      BY <1>1, <1>6, <1>7, <3>2
    <3>8. d \in Bills
      BY <2>2, FiniteIds
    <3>9. AccountsTied'
      BY <1>1, <1>2, <1>4, <1>6, <3>2, <3>3, <3>5, <3>6, <3>7, <3>8, BillTies DEF doc
    <3> QED
      BY <3>1, <3>3, <3>9
  <2> QED
    BY <2>1, <2>2
<1>10. idle' \in [{"TCS", "TDS"} -> Int]
  BY <1>1, <1>2 DEF TaxOf
<1>11. SubledgerTypeOK'
  BY <1>1, <1>2, <1>4, <1>9, <1>10 DEF SubledgerTypeOK
<1>12. FreshUntilPosted' /\ RunsDescribe' /\ SlicesFloored'
  BY <1>2, <1>4, <1>5, RowKeeps DEF doc, PostedStatus
<1> QED
  BY <1>9, <1>11, <1>12 DEF SubledgerInv


-----------------------------------------------------------------------------
(* Slices. *)

\* A floor is at most the quotient and less than one unit short of it.
LEMMA FloorBounds ==
  ASSUME NEW a \in Int, NEW n \in Nat \ {0}
  PROVE  /\ a \div n \in Int
         /\ (a \div n) * n <= a /\ a < (a \div n) * n + n
OBVIOUS

\* A product that is positive has a positive factor.
LEMMA FactorPositive ==
  ASSUME NEW m \in Int, NEW n \in Nat \ {0}, m * n > 0
  PROVE  m > 0
OBVIOUS

\* One more floored slice loses less than one more unit.
LEMMA SliceFloored ==
  ASSUME NEW B \in Int, NEW F \in Nat \ {0}, NEW k \in Nat, NEW x \in Int, NEW b \in Int, NEW s \in Int,
         Floored(B, F, k, x, b)
  PROVE  Floored(B, F, k + 1, x + s, b + ((B * s) \div F))
<1> DEFINE q == (B * s) \div F
<1>1. B * s \in Int
  OBVIOUS
<1>2. q \in Int /\ q * F <= B * s /\ B * s < q * F + F
  BY <1>1, FloorBounds
<1> HIDE DEF q
<1>3. B * (x + s) = B * x + B * s /\ (b + q) * F = b * F + q * F /\ (k + 1) * (F - 1) = k * (F - 1) + F - 1
  BY <1>2
<1>4. b * F <= B * x /\ B * x <= b * F + k * (F - 1)
  BY DEF Floored
<1>5. B * x \in Int /\ b * F \in Int /\ q * F \in Int /\ k * (F - 1) \in Int
  BY <1>2
<1>6. (b + q) * F <= B * (x + s) /\ B * (x + s) <= (b + q) * F + (k + 1) * (F - 1)
  BY <1>1, <1>2, <1>3, <1>4, <1>5
<1> QED
  BY <1>6 DEF Floored, q

\* The slice that completes the foreign amount takes what the floors have left, but for
\* at most one unit for each slice before the last two.
LEMMA SliceCompletes ==
  ASSUME NEW B \in Int, NEW F \in Nat \ {0}, NEW k \in Nat, NEW x \in Int, NEW b \in Int,
         Floored(B, F, k, x, b)
  PROVE  LET left == B - (b + (B - ((B * x) \div F)))
         IN left >= 0 /\ left <= IF k + 1 > 2 THEN (k + 1) - 2 ELSE 0
<1> DEFINE q == (B * x) \div F
<1>1. B * x \in Int /\ b * F \in Int /\ k * (F - 1) \in Int
  OBVIOUS
<1>2. q \in Int /\ q * F <= B * x /\ B * x < q * F + F
  BY <1>1, FloorBounds
<1>3. b * F <= B * x /\ B * x <= b * F + k * (F - 1) /\ (k = 0 => x = 0 /\ b = 0)
  BY DEF Floored
<1>4. CASE k = 0
  <2>1. B * x = 0
    BY <1>3, <1>4
  <2>2. q = 0
    BY <2>1
  <2> HIDE DEF q
  <2> QED
    BY <1>2, <1>3, <1>4, <2>2 DEF q
<1>5. CASE k > 0
  <2> HIDE DEF q
  <2>1. (q + 1 - b) * F = q * F + F - b * F /\ q * F \in Int
    BY <1>2
  <2>2. (q + 1 - b) * F > 0
    BY <1>1, <1>2, <1>3, <2>1
  <2>3. q + 1 - b > 0
    BY <1>2, <2>2, FactorPositive
  <2>4. (b + k - q) * F = b * F + k * F - q * F /\ k * (F - 1) = k * F - k /\ k * F \in Int
    BY <1>2
  <2>5. (b + k - q) * F > 0
    BY <1>1, <1>2, <1>3, <1>5, <2>1, <2>4
  <2>6. b + k - q > 0
    BY <1>2, <2>5, FactorPositive
  <2>7. B - (b + (B - q)) = q - b
    BY <1>2
  <2> QED
    BY <1>2, <1>5, <2>3, <2>6, <2>7 DEF q
<1> QED
  BY <1>4, <1>5


\* A foreign slice keeps the invariant, floored or completing.
LEMMA AllocateForeignStep ==
  ASSUME SubledgerInv, NEW d \in Documents, NEW date, NEW slice \in Nat \ {0}, NEW r \in Settlements,
         AllocateForeign(d, date, slice, r)
  PROVE  SubledgerInv'
<1> DEFINE prior == relieved[d]
           B == Net(docs[d])
           F == docs[d].foreign
           carrying == ProportionalCarrying(B, F, prior.foreign, slice)
<1>1. /\ docs[d] \in Document /\ docs \in [Documents -> Document]
      /\ relieved \in [Documents -> [count : Nat, foreign : Int, base : Int]]
      /\ prior.count \in Nat /\ prior.foreign \in Int /\ prior.base \in Int
  BY DEF SubledgerInv, SubledgerTypeOK
<1>2. B \in Int /\ F \in Int
  BY <1>1, GstInt, DocumentFields
<1>3. /\ ~Revalued(d) /\ F > 0 /\ prior.foreign + slice <= F
      /\ Settle(d, date, Convert(slice, r), carrying)
      /\ relieved' = [relieved EXCEPT ![d] = [count |-> prior.count + 1, foreign |-> prior.foreign + slice,
                                              base |-> prior.base + carrying]]
      /\ UNCHANGED <<revalued, idle, closed>>
  BY <1>1 DEF AllocateForeign
<1>4. carrying \in Int /\ Convert(slice, r) \in Int
  <2>1. B * slice \in Int /\ B * prior.foreign \in Int /\ F \in Nat \ {0}
    BY <1>1, <1>2, <1>3
  <2>2. (B * slice) \div F \in Int /\ (B * prior.foreign) \div F \in Int
    BY <2>1, FloorBounds
  <2> HIDE DEF B, F, prior
  <2>3. carrying \in Int
    BY <1>2, <2>2 DEF ProportionalCarrying
  <2> QED
    BY <2>3, ConvertInt
<1>5. /\ docs[d].status \in PostedStatus
      /\ DOMAIN balance' = Accounts /\ \A a \in {"AR", "AP", "TCS", "TDS"} : balance'[a] \in Int
      /\ AccountsTied'
  BY <1>3, <1>4, SettleEffect
<1>6. PICK row \in Document : /\ docs' = [docs EXCEPT ![d] = row] /\ row.status \in PostedStatus
                              /\ row.lines = docs[d].lines /\ row.foreign = docs[d].foreign
  BY <1>3, <1>4, SettleEffect
<1>7. \A e \in Documents :
        /\ docs'[e] = (IF e = d THEN row ELSE docs[e])
        /\ docs'[e].lines = docs[e].lines /\ docs'[e].foreign = docs[e].foreign
        /\ e # d => relieved'[e] = relieved[e]
  BY <1>1, <1>3, <1>6
<1>8. SubledgerTypeOK'
  <2>1. docs' \in [Documents -> Document]
    BY <1>1, <1>6
  <2>2. relieved' \in [Documents -> [count : Nat, foreign : Int, base : Int]]
    BY <1>1, <1>3, <1>4
  <2> QED
    BY <1>3, <1>5, <2>1, <2>2 DEF SubledgerInv, SubledgerTypeOK
<1>9. FreshUntilPosted'
  BY <1>6, <1>7 DEF SubledgerInv, FreshUntilPosted
<1>10. RunsDescribe'
  <2> SUFFICES ASSUME NEW t \in BookDates, revalued[t].status = "POSTED"
               PROVE  /\ DOMAIN revalued[t].open = DOMAIN revalued[t].adjustment
                      /\ \A e \in DOMAIN revalued[t].open :
                           /\ e \in Documents /\ docs'[e].status # "NONE"
                           /\ revalued[t].open[e] = docs'[e].foreign - relieved'[e].foreign
    BY <1>3 DEF RunsDescribe, OpenForeign
  <2>1. /\ DOMAIN revalued[t].open = DOMAIN revalued[t].adjustment
        /\ \A e \in DOMAIN revalued[t].open :
             /\ e \in Documents /\ docs[e].status # "NONE"
             /\ revalued[t].open[e] = docs[e].foreign - relieved[e].foreign
    BY DEF SubledgerInv, RunsDescribe, OpenForeign
  <2>2. d \notin DOMAIN revalued[t].open
    BY <1>3, <2>1 DEF Revalued
  <2> QED
    BY <1>7, <2>1, <2>2
<1>11. SlicesFloored'
  <2> SUFFICES ASSUME NEW e \in Documents
               PROVE  SlicesFloored!(e)'
    BY DEF SlicesFloored
  <2>1. CASE e # d
    BY <1>7, <2>1 DEF SubledgerInv, SlicesFloored, Net
  <2>2. CASE e = d
    <3> DEFINE k == prior.count
               x == prior.foreign
               b == prior.base
    <3>1. Net(docs'[d]) = B /\ docs'[d].foreign = F
      BY <1>7 DEF Net
    <3>2. /\ relieved'[d].count = k + 1 /\ relieved'[d].foreign = x + slice
          /\ relieved'[d].base = b + carrying
      BY <1>1, <1>3
    <3>3. x < F /\ Floored(B, F, k, x, b)
      <4>1. x < F
        BY <1>1, <1>2, <1>3
      <4> QED
        BY <1>3, <4>1 DEF SubledgerInv, SlicesFloored
    <3>4. k \in Nat /\ x \in Int /\ b \in Int /\ F \in Nat \ {0} /\ slice \in Int
      BY <1>1, <1>2, <1>3
    <3>5. CASE x + slice = F
      <4>1. carrying = B - ((B * x) \div F)
        BY <3>5 DEF ProportionalCarrying
      <4>2. LET left == B - (b + carrying) IN left >= 0 /\ left <= IF k + 1 > 2 THEN (k + 1) - 2 ELSE 0
        BY <1>2, <3>3, <3>4, <4>1, SliceCompletes
      <4> HIDE DEF B, F, k, x, b, carrying, prior
      <4> QED
        BY <1>2, <1>3, <2>2, <3>1, <3>2, <3>4, <3>5, <4>2 DEF x
    <3>6. CASE x + slice # F
      <4>1. carrying = (B * slice) \div F
        BY <3>6 DEF ProportionalCarrying
      <4>2. Floored(B, F, k + 1, x + slice, b + carrying)
        BY <1>2, <3>3, <3>4, <4>1, SliceFloored
      <4> HIDE DEF B, F, k, x, b, carrying, prior
      <4> QED
        BY <1>2, <1>3, <2>2, <3>1, <3>2, <3>4, <3>6, <4>2 DEF x
    <3> QED
      BY <3>5, <3>6
  <2> QED
    BY <2>1, <2>2
<1> QED
  BY <1>5, <1>8, <1>9, <1>10, <1>11 DEF SubledgerInv

\* Journals of a revaluation touch neither the control accounts nor the documents.
LEMMA RevaluationKeeps ==
  ASSUME SubledgerInv, NEW date, NEW adjustment, Journal(date, RevaluationLines(adjustment)),
         UNCHANGED <<docs, relieved, idle>>
  PROVE  /\ DOMAIN balance' = Accounts
         /\ \A a \in {"AR", "AP", "TCS", "TDS"} : balance'[a] = balance[a] /\ balance'[a] \in Int
         /\ FreshUntilPosted' /\ AccountsTied' /\ SlicesFloored'
<1> DEFINE entries == RevaluationLines(adjustment)
<1>1. \A a \in {"AR", "AP", "TCS", "TDS"} : a \in Accounts /\ balance[a] \in Int /\ a \notin DOMAIN entries
  BY DEF SubledgerInv, SubledgerTypeOK, Accounts, RevaluationLines
<1> HIDE DEF entries
<1>2. /\ DOMAIN balance' = Accounts
      /\ \A a \in Accounts : balance'[a] = balance[a] + (IF a \in DOMAIN entries THEN entries[a] ELSE 0)
  BY JournalEffect DEF SubledgerInv, entries
<1>3. \A a \in {"AR", "AP", "TCS", "TDS"} : balance'[a] = balance[a] /\ balance'[a] \in Int
  BY <1>1, <1>2
<1>4. FreshUntilPosted' /\ SlicesFloored'
  BY DEF SubledgerInv, FreshUntilPosted, SlicesFloored
<1>5. AccountsTied'
  BY <1>3 DEF SubledgerInv, AccountsTied
<1> QED
  BY <1>2, <1>3, <1>4, <1>5

\* Posting a revaluation records the open amounts as they are.
LEMMA PostRevaluationStep ==
  ASSUME SubledgerInv, NEW date \in BookDates, NEW r \in CloseRates, PostRevaluation(date, r)
  PROVE  SubledgerInv'
<1> DEFINE chosen == ToRevalue(r)
           adjustment == [d \in chosen |-> Adjustment(d, r)]
           run == [status |-> "POSTED", adjustment |-> adjustment, open |-> [d \in chosen |-> OpenForeign(d)]]
<1>1. /\ Journal(date, RevaluationLines(adjustment))
      /\ revalued' = [revalued EXCEPT ![date] = run]
      /\ UNCHANGED <<docs, relieved, idle, closed>>
  BY DEF PostRevaluation
<1>2. \A d \in chosen : d \in Documents /\ docs[d].status # "NONE"
  <2>1. \A d \in chosen : d \in Documents /\ OpenForeign(d) > 0
    BY DEF ToRevalue
  <2>2. \A d \in Documents : docs[d].status = "NONE" => OpenForeign(d) = 0
    BY DEF SubledgerInv, FreshUntilPosted, PostedStatus, OpenForeign
  <2> QED
    BY <2>1, <2>2
<1> HIDE DEF chosen, adjustment
<1>3. /\ run.status = "POSTED" /\ DOMAIN run = {"status", "open", "adjustment"}
      /\ DOMAIN run.open = chosen /\ DOMAIN run.adjustment = chosen
      /\ \A d \in chosen : run.open[d] = OpenForeign(d)
  BY DEF adjustment
<1> HIDE DEF run
<1>4. /\ DOMAIN balance' = Accounts
      /\ \A a \in {"AR", "AP", "TCS", "TDS"} : balance'[a] = balance[a] /\ balance'[a] \in Int
      /\ FreshUntilPosted' /\ AccountsTied' /\ SlicesFloored'
  BY <1>1, RevaluationKeeps
<1>5. DOMAIN revalued' = BookDates /\ \A t \in BookDates : revalued'[t] = IF t = date THEN run ELSE revalued[t]
  BY <1>1 DEF SubledgerInv, SubledgerTypeOK
<1>6. SubledgerTypeOK'
  BY <1>1, <1>3, <1>4, <1>5 DEF SubledgerInv, SubledgerTypeOK
<1>7. RunsDescribe'
  BY <1>1, <1>2, <1>3, <1>5 DEF SubledgerInv, RunsDescribe, OpenForeign
<1> QED
  BY <1>4, <1>6, <1>7 DEF SubledgerInv

\* Reversing one takes its run out of the posted ones.
LEMMA ReverseRevaluationStep ==
  ASSUME SubledgerInv, NEW run \in BookDates, NEW date \in BookDates, ReverseRevaluation(run, date)
  PROVE  SubledgerInv'
<1>1. /\ Journal(date, RevaluationLines(revalued[run].adjustment))
      /\ revalued' = [revalued EXCEPT ![run].status = "REVERSED"]
      /\ UNCHANGED <<docs, relieved, idle, closed>>
  BY DEF ReverseRevaluation
<1>2. /\ DOMAIN balance' = Accounts
      /\ \A a \in {"AR", "AP", "TCS", "TDS"} : balance'[a] = balance[a] /\ balance'[a] \in Int
      /\ FreshUntilPosted' /\ AccountsTied' /\ SlicesFloored'
  BY <1>1, RevaluationKeeps
<1>3. /\ DOMAIN revalued' = BookDates
      /\ \A t \in BookDates : revalued'[t] = IF t = run THEN [revalued[run] EXCEPT !.status = "REVERSED"] ELSE revalued[t]
  BY <1>1 DEF SubledgerInv, SubledgerTypeOK
<1>4. DOMAIN revalued'[run] = {"status", "open", "adjustment"} /\ revalued'[run].status = "REVERSED"
  BY <1>3 DEF SubledgerInv, SubledgerTypeOK
<1>5. SubledgerTypeOK'
  BY <1>1, <1>2, <1>3, <1>4 DEF SubledgerInv, SubledgerTypeOK
<1>6. RunsDescribe'
  BY <1>1, <1>3, <1>4 DEF SubledgerInv, RunsDescribe, OpenForeign
<1> QED
  BY <1>2, <1>5, <1>6 DEF SubledgerInv

\* Steps of the other tables keep the invariant.
LEMMA QuietStep ==
  ASSUME SubledgerInv, UNCHANGED <<docs, relieved, revalued, idle, balance>>
  PROVE  SubledgerInv'
BY DEF SubledgerInv, SubledgerTypeOK, FreshUntilPosted, AccountsTied, RunsDescribe, SlicesFloored, OpenForeign

\* Every allocation is one of the cases above.
LEMMA AllocateStep ==
  ASSUME SubledgerInv, NEW d \in Documents, NEW date \in BookDates, Allocate(d, date)
  PROVE  SubledgerInv'
<1>1. docs[d].total \in Int /\ docs[d].foreign \in Int
  BY DocumentFields DEF SubledgerInv, SubledgerTypeOK
<1>2. CASE \E n \in 1 .. docs[d].total : AllocateBase(d, date, n)
  <2>1. PICK n \in 1 .. docs[d].total : AllocateBase(d, date, n)
    BY <1>2
  <2>2. n \in Int
    BY <1>1
  <2> QED
    BY <2>1, <2>2, AllocateBaseStep
<1>3. CASE \E n \in 1 .. docs[d].foreign, r \in Settlements : AllocateForeign(d, date, n, r)
  <2>1. PICK n \in 1 .. docs[d].foreign, r \in Settlements : AllocateForeign(d, date, n, r)
    BY <1>3
  <2>2. n \in Nat \ {0}
    BY <1>1
  <2> QED
    BY <2>1, <2>2, AllocateForeignStep
<1> QED
  BY <1>2, <1>3 DEF Allocate

\* Every step of the subledgers keeps the invariant.
LEMMA SubledgerStep == SubledgerInv /\ [SubledgerNext]_subledgerVars => SubledgerInv'
<1> SUFFICES ASSUME SubledgerInv, [SubledgerNext]_subledgerVars PROVE SubledgerInv'
  OBVIOUS
<1>1. CASE \E d \in Documents, p \in Payloads : CreateInvoice(d, p) \/ CreateBill(d, p)
  BY <1>1, DraftStep DEF CreateInvoice, CreateBill
<1>2. CASE \E d \in Documents, bps \in Withholdings : PostInvoice(d, bps) \/ PostBill(d, bps)
  BY <1>2, PostInvoiceStep, PostBillStep
<1>3. CASE \E d \in Documents, date \in BookDates : RecordReceipt(d, date) \/ RecordPayment(d, date)
  BY <1>3, AllocateStep DEF RecordReceipt, RecordPayment
<1>4. CASE \E d \in Documents, date \in BookDates, amount \in 1 .. MaxDeposit :
             \E n \in 1 .. amount : Deposit(d, date, n, amount)
  <2>1. PICK d \in Documents, date \in BookDates, amount \in 1 .. MaxDeposit :
               \E n \in 1 .. amount : Deposit(d, date, n, amount)
    BY <1>4
  <2>2. PICK n \in 1 .. amount : Deposit(d, date, n, amount)
    BY <2>1
  <2>3. amount \in Int /\ n \in Int
    OBVIOUS
  <2> QED
    BY <2>2, <2>3, DepositStep
<1>5. CASE \E date \in BookDates, r \in CloseRates : PostRevaluation(date, r)
  BY <1>5, PostRevaluationStep
<1>6. CASE \E run, date \in BookDates : ReverseRevaluation(run, date)
  BY <1>6, ReverseRevaluationStep
<1>7. CASE \E date \in BookDates : MovePeriod(date)
  BY <1>7, QuietStep DEF MovePeriod
<1>8. CASE UNCHANGED subledgerVars
  BY <1>8, QuietStep DEF subledgerVars
<1> QED
  BY <1>1, <1>2, <1>3, <1>4, <1>5, <1>6, <1>7, <1>8 DEF SubledgerNext

\* The invariant holds in every reachable state of invoices, bills and revaluations.
THEOREM SubledgerHolds == SubledgerSpec => []SubledgerInv
<1>1. SubledgerInit => SubledgerInv
  BY InvInit
<1>2. SubledgerInv /\ [SubledgerNext]_subledgerVars => SubledgerInv'
  BY SubledgerStep
<1> QED
  BY <1>1, <1>2, PTL DEF SubledgerSpec

\* Summing the posted documents is summing what each document owes.
LEMMA PostedOwes ==
  ASSUME docs \in [Documents -> Document], NEW S \in SUBSET Documents, IsFiniteSet(S)
  PROVE  OutstandingOf(S) = OwedIn(docs, S)
<1> DEFINE f == [d \in Documents |-> Outstanding(docs[d])]
           g == [d \in Documents |-> Owed(docs[d])]
<1>1. \A d \in Posted(S) : g[d] = f[d]
  BY DEF Posted, Owed, PostedStatus
<1>2. \A d \in S : g[d] \in Int /\ (d \notin Posted(S) => g[d] = 0)
  BY FiguresInt DEF Posted, Owed, PostedStatus
<1>3. Posted(S) \subseteq S
  BY DEF Posted
<1> HIDE DEF f, g
<1>4. IsFiniteSet(Posted(S))
  BY <1>3, FS_Subset
<1>5. SumFunctionOnSet(g, S) = SumFunctionOnSet(g, Posted(S))
  BY <1>2, <1>3, SumSupport
<1>6. SumFunctionOnSet(g, Posted(S)) = SumFunctionOnSet(f, Posted(S))
  BY <1>1, <1>2, <1>3, <1>4, SumEqual
<1> QED
  BY <1>5, <1>6 DEF OutstandingOf, OwedIn, f, g

\* The receivable and payable accounts of the journal equal what the documents still owe,
\* after any sequence of postings, allocations and deposits.
THEOREM ControlAccountsHold == SubledgerSpec => []ControlAccountsAgree
<1>1. SubledgerInv => ControlAccountsAgree
  <2> SUFFICES ASSUME SubledgerInv PROVE ControlAccountsAgree
    OBVIOUS
  <2>1. OutstandingOf(Sales) = OwedIn(docs, Sales) /\ OutstandingOf(Bills) = OwedIn(docs, Bills)
    BY FiniteIds, PostedOwes DEF SubledgerInv, SubledgerTypeOK
  <2>2. OwedIn(docs, Bills) \in Int
    BY FiniteIds, SumsInt DEF SubledgerInv, SubledgerTypeOK
  <2>3. 0 - OwedIn(docs, Bills) = -OwedIn(docs, Bills)
    BY <2>2
  <2> QED
    BY <2>1, <2>3 DEF SubledgerInv, AccountsTied, ControlAccountsAgree
<1> QED
  BY <1>1, SubledgerHolds, PTL

\* What slices strand of a foreign document that is settled in full: at most one minor
\* unit for each slice but the first and the last, and never less than nothing.
ResidueBounded ==
  \A d \in Documents : LET left == Net(docs[d]) - relieved[d].base
                       IN docs[d].foreign > 0 /\ OpenForeign(d) = 0
                            => left >= 0 /\ left <= IF relieved[d].count > 2 THEN relieved[d].count - 2 ELSE 0

\* The contracts want no unit dropped at all (accounting-contracts.md:1483-1485, which
\* run FxSettlement refutes); this is how much proportionalCarryingBase drops at most,
\* for all amounts and rates.
THEOREM ResidueHolds == SubledgerSpec => []ResidueBounded
<1>1. SubledgerInv => ResidueBounded
  <2> SUFFICES ASSUME SubledgerInv, NEW d \in Documents, docs[d].foreign > 0, OpenForeign(d) = 0
               PROVE  LET left == Net(docs[d]) - relieved[d].base
                      IN left >= 0 /\ left <= IF relieved[d].count > 2 THEN relieved[d].count - 2 ELSE 0
    BY DEF ResidueBounded
  <2>1. docs[d].foreign \in Int /\ relieved[d].foreign \in Int
    BY DocumentFields DEF SubledgerInv, SubledgerTypeOK
  <2>2. relieved[d].foreign = docs[d].foreign
    BY <2>1 DEF OpenForeign
  <2> QED
    BY <2>2 DEF SubledgerInv, SlicesFloored
<1> QED
  BY <1>1, SubledgerHolds, PTL

\* The foreign amounts a posted revaluation was computed from are still open: no foreign
\* slice settles past it.  An allocation in base currency does, see FxSettlement.
THEOREM RunsHold == SubledgerSpec => []RevaluedSlicesStayOpen
<1>1. SubledgerInv => RevaluedSlicesStayOpen
  BY DEF SubledgerInv, RunsDescribe, RevaluedSlicesStayOpen
<1> QED
  BY <1>1, SubledgerHolds, PTL

\* The withholding register ties to the liability accounts of the journal.
THEOREM RegisterHolds == SubledgerSpec => []RegisterTiesToLiability
<1>1. SubledgerInv => RegisterTiesToLiability
  BY DEF SubledgerInv, AccountsTied, DueIn, Due, RegisterTiesToLiability
<1> QED
  BY <1>1, SubledgerHolds, PTL

-----------------------------------------------------------------------------
(* Expense claims: advances, offsets and reimbursements.                   *)

\* The statuses of a claim that has a journal, and the rows of claims and advances.
BookedStatus == {"POSTED", "PARTIALLY_SETTLED", "SETTLED"}

Claim == [status : {"NONE", "DRAFT", "SUBMITTED", "APPROVED", "REJECTED"} \cup BookedStatus,
          claimant : Claimants \cup {""}, creator : Reviewers \cup {""}, lines : ClaimLines \cup {<<>>}]
Advance == [status : {"NONE", "OPEN", "PARTIALLY_SETTLED", "SETTLED"}, claimant : Claimants \cup {""}, amount : Nat]

\* The rows are well formed, the two accounts of open items are numbers.
ExpenseTypeOK ==
  /\ claims \in [ClaimIds -> Claim]
  /\ advances \in [AdvanceIds -> Advance]
  /\ setOff \in [AdvanceIds \X ClaimIds -> Nat]
  /\ repaid \in [AdvanceIds -> Nat]
  /\ reimbursed \in [ClaimIds -> Nat]
  /\ DOMAIN bookBalance = ExpenseAccounts
  /\ bookBalance["Advances"] \in Int /\ bookBalance["Reimbursable"] \in Int

\* What a claim still asks for once it is booked.
Rest(c) == IF claims[c].status \in BookedStatus THEN Payable(c) ELSE 0

\* What the lines of a claim themselves put on the advance account once it is booked.
Charged(c) == IF claims[c].status \in BookedStatus THEN ChargedTo(claims[c], "Advances") ELSE 0

\* The sums over every advance and every claim, open or not.
AdvanceSum == SumFunctionOnSet([a \in AdvanceIds |-> Unsettled(a)], AdvanceIds)
ClaimSum == SumFunctionOnSet([c \in ClaimIds |-> Rest(c)], ClaimIds)
ChargeSum == SumFunctionOnSet([c \in ClaimIds |-> Charged(c)], ClaimIds)

\* Each account is what its rows add to it.
ItemsTied ==
  /\ bookBalance["Advances"] = AdvanceSum + ChargeSum
  /\ bookBalance["Reimbursable"] = 0 - ClaimSum

\* Nothing is overdrawn and the status of an advance follows its amounts.
AdvancesSettle ==
  \A a \in AdvanceIds :
    /\ Unsettled(a) >= 0
    /\ advances[a].status = "NONE" <=> advances[a].amount = 0
    /\ advances[a].status = "SETTLED" <=> advances[a].amount > 0 /\ Unsettled(a) = 0

\* Nor is a claim overpaid, and only a booked one was paid at all.
ClaimsSettle ==
  \A c \in ClaimIds :
    /\ Rest(c) >= 0
    /\ claims[c].status = "SETTLED" => Rest(c) = 0
    /\ claims[c].status \notin BookedStatus =>
         reimbursed[c] = 0 /\ \A a \in AdvanceIds : setOff[<<a, c>>] = 0

\* What every step of the expense claims preserves.
ExpenseInv == ExpenseTypeOK /\ ItemsTied /\ AdvancesSettle /\ ClaimsSettle
-----------------------------------------------------------------------------
\* The lines of a claim are a finite sequence of natural business shares on known accounts.
LEMMA LinesOfClaim ==
  ASSUME NEW claim \in Claim
  PROVE  /\ IsFiniteSet(DOMAIN claim.lines)
         /\ \A i \in DOMAIN claim.lines : claim.lines[i].business \in Nat /\ claim.lines[i].account \in ExpenseAccounts
<1> DEFINE lines == claim.lines
           Line == [business : Nat, personal : Nat, account : ExpenseAccounts]
<1>1. lines \in Seq(Line)
  <2>1. lines \in ClaimLines \/ lines = <<>>
    BY DEF Claim
  <2> HIDE DEF lines
  <2>2. CASE lines \in ClaimLines
    BY <2>2, ExpenseAssumption
  <2>3. CASE lines = <<>>
    BY <2>3
  <2> QED
    BY <2>1, <2>2, <2>3
<1> HIDE DEF lines
<1>2. IsFiniteSet(DOMAIN lines)
  <2>1. DOMAIN lines = 1 .. Len(lines) /\ Len(lines) \in Nat
    BY <1>1
  <2> QED
    BY <2>1, FS_Interval
<1>3. \A i \in DOMAIN lines : lines[i] \in Line
  <2> HIDE DEF Line
  <2> QED
    BY <1>1
<1> QED
  BY <1>2, <1>3 DEF lines

\* The business part of a claim, in all and on one account, is a natural number.
LEMMA BusinessNat ==
  ASSUME NEW claim \in Claim, NEW k
  PROVE  BusinessTotal(claim) \in Nat /\ ChargedTo(claim, k) \in Nat
<1> DEFINE lines == claim.lines
           f == [i \in DOMAIN lines |-> lines[i].business]
           g == [i \in DOMAIN lines |-> IF lines[i].account = k THEN lines[i].business ELSE 0]
<1>1. IsFiniteSet(DOMAIN lines) /\ \A i \in DOMAIN lines : f[i] \in Nat /\ g[i] \in Nat
  BY LinesOfClaim
<1>2. DOMAIN f = DOMAIN lines /\ DOMAIN g = DOMAIN lines
  OBVIOUS
<1> HIDE DEF f, g
<1>3. SumFunctionOnSet(f, DOMAIN lines) \in Nat /\ SumFunctionOnSet(g, DOMAIN lines) \in Nat
  BY <1>1, SumNat
<1> QED
  BY <1>2, <1>3 DEF BusinessTotal, ChargedTo, SumFunction, f, g

\* Posting admits no line with a business share on the liability: nothing is charged to it.
LEMMA NothingOnLiability ==
  ASSUME NEW claim \in Claim,
         \A i \in DOMAIN claim.lines : claim.lines[i].business > 0 => Chargeable(claim.lines[i].account)
  PROVE  ChargedTo(claim, "Reimbursable") = 0
<1> DEFINE lines == claim.lines
           g == [i \in DOMAIN lines |-> IF lines[i].account = "Reimbursable" THEN lines[i].business ELSE 0]
<1>1. ~Chargeable("Reimbursable")
  BY DEF Chargeable, AccountType
<1>2. IsFiniteSet(DOMAIN lines) /\ \A i \in DOMAIN lines : g[i] = 0
  BY <1>1, LinesOfClaim
<1>3. DOMAIN g = DOMAIN lines
  OBVIOUS
<1> HIDE DEF g
<1>4. SumFunctionOnSet(g, DOMAIN lines) = 0
  BY <1>2, SumZero
<1> QED
  BY <1>3, <1>4 DEF ChargedTo, SumFunction, g

\* What was set off for a claim, and what it still asks for, are numbers.
LEMMA UsedForNat ==
  ASSUME ExpenseTypeOK, NEW c \in ClaimIds
  PROVE  /\ UsedFor(c) \in Nat /\ Payable(c) \in Int /\ Rest(c) \in Int
         /\ BusinessTotal(claims[c]) \in Nat /\ Charged(c) \in Int
<1>1. IsFiniteSet(AdvanceIds \X {c})
  BY ExpenseAssumption, FS_Product, FS_Singleton
<1>2. \A x \in AdvanceIds \X {c} : setOff[x] \in Nat
  BY DEF ExpenseTypeOK
<1>3. UsedFor(c) \in Nat
  BY <1>1, <1>2, SumNat DEF UsedFor
<1>4. BusinessTotal(claims[c]) \in Nat /\ ChargedTo(claims[c], "Advances") \in Nat
  BY BusinessNat DEF ExpenseTypeOK
<1>5. reimbursed[c] \in Nat
  BY DEF ExpenseTypeOK
<1> QED
  BY <1>3, <1>4, <1>5 DEF Payable, Rest, Charged

\* What was used of an advance, and what is left of it, are numbers.
LEMMA UsedOfNat ==
  ASSUME ExpenseTypeOK, NEW a \in AdvanceIds
  PROVE  UsedOf(a) \in Nat /\ Unsettled(a) \in Int /\ advances[a].amount \in Nat /\ repaid[a] \in Nat
<1>1. IsFiniteSet({a} \X ClaimIds)
  BY ExpenseAssumption, FS_Product, FS_Singleton
<1>2. \A x \in {a} \X ClaimIds : setOff[x] \in Nat
  BY DEF ExpenseTypeOK
<1>3. UsedOf(a) \in Nat
  BY <1>1, <1>2, SumNat DEF UsedOf
<1>4. advances[a].amount \in Nat /\ repaid[a] \in Nat
  BY DEF ExpenseTypeOK, Advance
<1> QED
  BY <1>3, <1>4 DEF Unsettled

\* One advance changes: the sum of the unsettled amounts changes with it.
LEMMA AdvanceSumEffect ==
  ASSUME ExpenseTypeOK, NEW a \in AdvanceIds, NEW n \in Int, Unsettled(a)' = Unsettled(a) + n,
         \A b \in AdvanceIds : b # a => Unsettled(b)' = Unsettled(b)
  PROVE  AdvanceSum' = AdvanceSum + n
<1> DEFINE f == [b \in AdvanceIds |-> Unsettled(b)]
           g == [b \in AdvanceIds |-> Unsettled(b)']
<1>1. \A b \in AdvanceIds : f[b] \in Int /\ (b # a => g[b] = f[b])
  BY UsedOfNat
<1>2. g[a] = f[a] + n
  OBVIOUS
<1> HIDE DEF f, g
<1>3. SumFunctionOnSet(g, AdvanceIds) = SumFunctionOnSet(f, AdvanceIds) + n
  BY <1>1, <1>2, ExpenseAssumption, SumChange
<1> QED
  BY <1>3 DEF AdvanceSum, f, g

\* One claim changes: the sum of what claims still ask for changes with it.
LEMMA ClaimSumEffect ==
  ASSUME ExpenseTypeOK, NEW c \in ClaimIds, NEW n \in Int, Rest(c)' = Rest(c) + n,
         \A e \in ClaimIds : e # c => Rest(e)' = Rest(e)
  PROVE  ClaimSum' = ClaimSum + n
<1> DEFINE f == [e \in ClaimIds |-> Rest(e)]
           g == [e \in ClaimIds |-> Rest(e)']
<1>1. \A e \in ClaimIds : f[e] \in Int /\ (e # c => g[e] = f[e])
  BY UsedForNat
<1>2. g[c] = f[c] + n
  OBVIOUS
<1> HIDE DEF f, g
<1>3. SumFunctionOnSet(g, ClaimIds) = SumFunctionOnSet(f, ClaimIds) + n
  BY <1>1, <1>2, ExpenseAssumption, SumChange
<1> QED
  BY <1>3 DEF ClaimSum, f, g

\* One claim is booked: what claims charge to the advance account grows by its lines.
LEMMA ChargeSumEffect ==
  ASSUME ExpenseTypeOK, NEW c \in ClaimIds, NEW n \in Int, Charged(c)' = Charged(c) + n,
         \A e \in ClaimIds : e # c => Charged(e)' = Charged(e)
  PROVE  ChargeSum' = ChargeSum + n
<1> DEFINE f == [e \in ClaimIds |-> Charged(e)]
           g == [e \in ClaimIds |-> Charged(e)']
<1>1. \A e \in ClaimIds : f[e] \in Int /\ (e # c => g[e] = f[e])
  BY UsedForNat
<1>2. g[c] = f[c] + n
  OBVIOUS
<1> HIDE DEF f, g
<1>3. SumFunctionOnSet(g, ClaimIds) = SumFunctionOnSet(f, ClaimIds) + n
  BY <1>1, <1>2, ExpenseAssumption, SumChange
<1> QED
  BY <1>3 DEF ChargeSum, f, g

\* The sums are numbers.
LEMMA SumsAreInt ==
  ASSUME ExpenseTypeOK
  PROVE  AdvanceSum \in Int /\ ClaimSum \in Int /\ ChargeSum \in Int
<1> DEFINE f == [a \in AdvanceIds |-> Unsettled(a)]
           g == [c \in ClaimIds |-> Rest(c)]
           h == [c \in ClaimIds |-> Charged(c)]
<1>1. (\A a \in AdvanceIds : f[a] \in Int) /\ (\A c \in ClaimIds : g[c] \in Int /\ h[c] \in Int)
  BY UsedOfNat, UsedForNat
<1> HIDE DEF f, g, h
<1>2. /\ SumFunctionOnSet(f, AdvanceIds) \in Int
      /\ SumFunctionOnSet(g, ClaimIds) \in Int /\ SumFunctionOnSet(h, ClaimIds) \in Int
  BY <1>1, ExpenseAssumption, SumInt
<1> QED
  BY <1>2 DEF AdvanceSum, ClaimSum, ChargeSum, f, g, h

\* Posting lines adds each to its account.
LEMMA PostLinesEffect ==
  ASSUME ExpenseTypeOK, NEW lines, PostLines(lines)
  PROVE  /\ DOMAIN bookBalance' = ExpenseAccounts
         /\ \A k \in {"Advances", "Reimbursable"} :
              bookBalance'[k] = bookBalance[k] + (IF k \in DOMAIN lines THEN lines[k] ELSE 0)
BY DEF PostLines, ExpenseAccounts, AccountType

\* No claim and no advance: the invariant holds at the start.
LEMMA ExpenseStarts == ExpenseInit => ExpenseInv
<1> SUFFICES ASSUME ExpenseInit PROVE ExpenseInv
  OBVIOUS
<1>1. ExpenseTypeOK
  <2>1. NoClaim \in Claim /\ NoAdvance \in Advance
    BY DEF NoClaim, NoAdvance, Claim, Advance
  <2> QED
    BY <2>1 DEF ExpenseInit, ExpenseTypeOK, ExpenseAccounts, AccountType
<1>2. \A a \in AdvanceIds : UsedOf(a) = 0 /\ Unsettled(a) = 0 /\ advances[a] = NoAdvance
  <2> SUFFICES ASSUME NEW a \in AdvanceIds PROVE UsedOf(a) = 0 /\ Unsettled(a) = 0 /\ advances[a] = NoAdvance
    OBVIOUS
  <2>1. IsFiniteSet({a} \X ClaimIds) /\ \A x \in {a} \X ClaimIds : setOff[x] = 0
    BY ExpenseAssumption, FS_Product, FS_Singleton DEF ExpenseInit
  <2>2. UsedOf(a) = 0
    BY <2>1, SumZero DEF UsedOf
  <2>3. advances[a] = NoAdvance /\ repaid[a] = 0
    BY DEF ExpenseInit
  <2>4. NoAdvance.amount = 0
    BY DEF NoAdvance
  <2> QED
    BY <2>2, <2>3, <2>4 DEF Unsettled
<1>3. \A c \in ClaimIds : Rest(c) = 0 /\ Charged(c) = 0 /\ claims[c].status = "NONE"
  BY DEF ExpenseInit, NoClaim, Rest, Charged, BookedStatus
<1>4. ItemsTied
  <2> DEFINE f == [a \in AdvanceIds |-> Unsettled(a)]
             g == [c \in ClaimIds |-> Rest(c)]
             h == [c \in ClaimIds |-> Charged(c)]
  <2>1. (\A a \in AdvanceIds : f[a] = 0) /\ (\A c \in ClaimIds : g[c] = 0 /\ h[c] = 0)
    BY <1>2, <1>3
  <2> HIDE DEF f, g, h
  <2>2. /\ SumFunctionOnSet(f, AdvanceIds) = 0
        /\ SumFunctionOnSet(g, ClaimIds) = 0 /\ SumFunctionOnSet(h, ClaimIds) = 0
    BY <2>1, ExpenseAssumption, SumZero
  <2>3. AdvanceSum = 0 /\ ClaimSum = 0 /\ ChargeSum = 0
    BY <2>2 DEF AdvanceSum, ClaimSum, ChargeSum, f, g, h
  <2> QED
    BY <2>3 DEF ItemsTied, ExpenseInit, ExpenseAccounts, AccountType
<1>5. AdvancesSettle
  <2>1. NoAdvance.amount = 0 /\ NoAdvance.status = "NONE"
    BY DEF NoAdvance
  <2> QED
    BY <1>2, <2>1 DEF AdvancesSettle
<1>6. ClaimsSettle
  BY <1>3 DEF ClaimsSettle, ExpenseInit, BookedStatus
<1> QED
  BY <1>1, <1>4, <1>5, <1>6 DEF ExpenseInv

\* A claim that is written or reviewed: nothing is booked.
LEMMA ClaimMoves ==
  ASSUME ExpenseInv, NEW c \in ClaimIds, NEW row \in Claim, claims' = [claims EXCEPT ![c] = row],
         claims[c].status \notin BookedStatus, row.status \notin BookedStatus,
         UNCHANGED <<advances, setOff, repaid, reimbursed, bookBalance>>
  PROVE  ExpenseInv'
<1>1. claims \in [ClaimIds -> Claim] /\ ExpenseTypeOK
  BY DEF ExpenseInv, ExpenseTypeOK
<1>2. \A e \in ClaimIds : claims'[e] = IF e = c THEN row ELSE claims[e]
  BY <1>1
<1>3. ExpenseTypeOK'
  BY <1>1 DEF ExpenseTypeOK
<1>4. \A a \in AdvanceIds : Unsettled(a)' = Unsettled(a)
  BY DEF Unsettled, UsedOf
<1>5. \A e \in ClaimIds : Rest(e)' = Rest(e) /\ Charged(e)' = Charged(e) /\ (e # c => claims'[e] = claims[e])
  BY <1>2 DEF Rest, Charged, Payable, UsedFor
<1>6. AdvanceSum' = AdvanceSum /\ ClaimSum' = ClaimSum /\ ChargeSum' = ChargeSum
  BY <1>4, <1>5 DEF AdvanceSum, ClaimSum, ChargeSum
<1>7. ItemsTied'
  BY <1>6 DEF ExpenseInv, ItemsTied
<1>8. AdvancesSettle'
  BY <1>4 DEF ExpenseInv, AdvancesSettle
<1>9. ClaimsSettle'
  <2> SUFFICES ASSUME NEW e \in ClaimIds
               PROVE  /\ Rest(e)' >= 0
                      /\ claims'[e].status = "SETTLED" => Rest(e)' = 0
                      /\ claims'[e].status \notin BookedStatus =>
                           reimbursed'[e] = 0 /\ \A a \in AdvanceIds : setOff'[<<a, e>>] = 0
    BY DEF ClaimsSettle
  <2> QED
    BY <1>2, <1>5 DEF ExpenseInv, ClaimsSettle, BookedStatus
<1> QED
  BY <1>3, <1>7, <1>8, <1>9 DEF ExpenseInv

\* Issuing an advance keeps the invariant.
LEMMA IssueAdvanceStep ==
  ASSUME ExpenseInv, NEW a \in AdvanceIds, NEW p \in Claimants, NEW n \in AdvanceAmounts, IssueAdvance(a, p, n)
  PROVE  ExpenseInv'
<1> DEFINE row == [status |-> "OPEN", claimant |-> p, amount |-> n]
<1>1. /\ ExpenseTypeOK /\ advances[a].status = "NONE" /\ n \in Nat /\ n > 0
      /\ PostLines([Advances |-> n, BankPaid |-> -n])
      /\ advances' = [advances EXCEPT ![a] = row]
      /\ UNCHANGED <<claimants, claims, setOff, repaid, reimbursed>>
  BY DEF ExpenseInv, IssueAdvance, AdvanceAmounts
<1>2. /\ DOMAIN bookBalance' = ExpenseAccounts
      /\ bookBalance'["Advances"] = bookBalance["Advances"] + n
      /\ bookBalance'["Reimbursable"] = bookBalance["Reimbursable"] + 0
  BY <1>1, PostLinesEffect
<1>3. row \in Advance /\ row.amount = n /\ row.status = "OPEN"
  BY <1>1 DEF Advance
<1> HIDE DEF row
<1>4. \A b \in AdvanceIds : advances'[b] = IF b = a THEN row ELSE advances[b]
  BY <1>1 DEF ExpenseTypeOK
<1>5. ExpenseTypeOK'
  BY <1>1, <1>2, <1>3 DEF ExpenseTypeOK
<1>6. advances[a].amount = 0 /\ Unsettled(a) = 0
  <2>1. advances[a].amount = 0 /\ Unsettled(a) >= 0
    BY <1>1 DEF ExpenseInv, AdvancesSettle
  <2> QED
    BY <1>1, <2>1, UsedOfNat DEF Unsettled
<1>7. Unsettled(a)' = n
  <2>1. UsedOf(a) + repaid[a] = 0
    BY <1>1, <1>6, UsedOfNat DEF Unsettled
  <2>2. Unsettled(a)' = n - UsedOf(a) - repaid[a]
    BY <1>1, <1>3, <1>4 DEF Unsettled, UsedOf
  <2> QED
    BY <1>1, <2>1, <2>2, UsedOfNat
<1>8. \A b \in AdvanceIds : b # a => Unsettled(b)' = Unsettled(b)
  BY <1>1, <1>4 DEF Unsettled, UsedOf
<1>9. AdvanceSum' = AdvanceSum + n
  BY <1>1, <1>6, <1>7, <1>8, AdvanceSumEffect
<1>10. \A e \in ClaimIds : Rest(e)' = Rest(e) /\ Charged(e)' = Charged(e)
  BY <1>1 DEF Rest, Charged, Payable, UsedFor
<1>11. ClaimSum' = ClaimSum /\ ChargeSum' = ChargeSum
  BY <1>10 DEF ClaimSum, ChargeSum
<1>12. ItemsTied'
  BY <1>1, <1>2, <1>9, <1>11, SumsAreInt DEF ExpenseInv, ExpenseTypeOK, ItemsTied
<1>13. AdvancesSettle'
  BY <1>1, <1>3, <1>4, <1>7, <1>8 DEF ExpenseInv, AdvancesSettle
<1>14. ClaimsSettle'
  BY <1>1, <1>10 DEF ExpenseInv, ClaimsSettle
<1> QED
  BY <1>5, <1>12, <1>13, <1>14 DEF ExpenseInv

\* Repaying one keeps it: the account and the unsettled amount shrink together.
LEMMA RepayAdvanceStep ==
  ASSUME ExpenseInv, NEW a \in AdvanceIds, NEW n \in AdvanceAmounts, RepayAdvance(a, n)
  PROVE  ExpenseInv'
<1> DEFINE status == SettledOr(Unsettled(a) - n)
           row == [advances[a] EXCEPT !.status = status]
<1>1. /\ ExpenseTypeOK /\ advances[a].status # "NONE" /\ n \in Nat /\ n > 0 /\ n <= Unsettled(a)
      /\ PostLines([BankPaid |-> n, Advances |-> -n])
      /\ repaid' = [repaid EXCEPT ![a] = repaid[a] + n]
      /\ advances' = [advances EXCEPT ![a] = row]
      /\ UNCHANGED <<claimants, claims, setOff, reimbursed>>
  BY DEF ExpenseInv, RepayAdvance, AdvanceAmounts
<1>2. /\ DOMAIN bookBalance' = ExpenseAccounts
      /\ bookBalance'["Advances"] = bookBalance["Advances"] - n
      /\ bookBalance'["Reimbursable"] = bookBalance["Reimbursable"]
  <2>1. /\ DOMAIN bookBalance' = ExpenseAccounts
        /\ bookBalance'["Advances"] = bookBalance["Advances"] + (-n)
        /\ bookBalance'["Reimbursable"] = bookBalance["Reimbursable"] + 0
    BY <1>1, PostLinesEffect
  <2>2. bookBalance["Advances"] \in Int /\ bookBalance["Reimbursable"] \in Int /\ n \in Int
    BY <1>1 DEF ExpenseTypeOK
  <2> QED
    BY <2>1, <2>2
<1>3. /\ status = (IF Unsettled(a) - n = 0 THEN "SETTLED" ELSE "PARTIALLY_SETTLED")
      /\ status \in {"PARTIALLY_SETTLED", "SETTLED"}
  BY DEF SettledOr
<1>4. advances[a] \in Advance /\ advances \in [AdvanceIds -> Advance] /\ repaid \in [AdvanceIds -> Nat]
  BY <1>1 DEF ExpenseTypeOK
<1> HIDE DEF status
<1>5. row \in Advance /\ row.status = status /\ row.amount = advances[a].amount
  BY <1>3, <1>4 DEF Advance
<1> HIDE DEF row
<1>6. \A b \in AdvanceIds : /\ advances'[b] = (IF b = a THEN row ELSE advances[b])
                            /\ repaid'[b] = (IF b = a THEN repaid[a] + n ELSE repaid[b])
  BY <1>1, <1>4
<1>7. ExpenseTypeOK'
  <2>1. repaid' \in [AdvanceIds -> Nat] /\ advances' \in [AdvanceIds -> Advance]
    BY <1>1, <1>4, <1>5
  <2> QED
    BY <1>1, <1>2, <2>1 DEF ExpenseTypeOK
<1>8. Unsettled(a)' = Unsettled(a) - n /\ Unsettled(a) \in Int
  BY <1>1, <1>5, <1>6, UsedOfNat DEF Unsettled, UsedOf
<1>9. \A b \in AdvanceIds : b # a => Unsettled(b)' = Unsettled(b)
  BY <1>1, <1>6 DEF Unsettled, UsedOf
<1>10. AdvanceSum' = AdvanceSum + (-n)
  BY <1>1, <1>8, <1>9, AdvanceSumEffect
<1>11. \A e \in ClaimIds : Rest(e)' = Rest(e) /\ Charged(e)' = Charged(e)
  BY <1>1 DEF Rest, Charged, Payable, UsedFor
<1>12. ClaimSum' = ClaimSum /\ ChargeSum' = ChargeSum
  BY <1>11 DEF ClaimSum, ChargeSum
<1>13. ItemsTied'
  BY <1>1, <1>2, <1>10, <1>12, SumsAreInt DEF ExpenseInv, ExpenseTypeOK, ItemsTied
<1>14. AdvancesSettle'
  <2>1. advances[a].amount > 0
    BY <1>1, UsedOfNat DEF ExpenseInv, AdvancesSettle
  <2>2. \A b \in AdvanceIds : b # a => /\ advances'[b] = advances[b]
                                        /\ Unsettled(b)' = Unsettled(b)
    BY <1>6, <1>9
  <2>3. /\ Unsettled(a)' >= 0 /\ advances'[a].amount = advances[a].amount
        /\ advances'[a].status # "NONE"
        /\ advances'[a].status = "SETTLED" <=> Unsettled(a)' = 0
    BY <1>1, <1>3, <1>5, <1>6, <1>8
  <2> QED
    BY <2>1, <2>2, <2>3 DEF ExpenseInv, AdvancesSettle
<1>15. ClaimsSettle'
  BY <1>1, <1>11 DEF ExpenseInv, ClaimsSettle
<1> QED
  BY <1>7, <1>13, <1>14, <1>15 DEF ExpenseInv

\* Reimbursing a claim keeps it.
LEMMA ReimbursementStep ==
  ASSUME ExpenseInv, NEW c \in ClaimIds, NEW n \in Nat \ {0}, RecordReimbursement(c, n)
  PROVE  ExpenseInv'
<1> DEFINE status == SettledOr(Payable(c) - n)
           row == [claims[c] EXCEPT !.status = status]
<1>1. /\ ExpenseTypeOK /\ claims[c].status \in {"POSTED", "PARTIALLY_SETTLED"} /\ n <= Payable(c)
      /\ PostLines([Reimbursable |-> n, BankPaid |-> -n])
      /\ reimbursed' = [reimbursed EXCEPT ![c] = reimbursed[c] + n]
      /\ claims' = [claims EXCEPT ![c] = row]
      /\ UNCHANGED <<claimants, advances, setOff, repaid>>
  BY DEF ExpenseInv, RecordReimbursement
<1>2. /\ DOMAIN bookBalance' = ExpenseAccounts
      /\ bookBalance'["Advances"] = bookBalance["Advances"]
      /\ bookBalance'["Reimbursable"] = bookBalance["Reimbursable"] + n
  <2>1. /\ DOMAIN bookBalance' = ExpenseAccounts
        /\ bookBalance'["Advances"] = bookBalance["Advances"] + 0
        /\ bookBalance'["Reimbursable"] = bookBalance["Reimbursable"] + n
    BY <1>1, PostLinesEffect
  <2> QED
    BY <1>1, <2>1 DEF ExpenseTypeOK
<1>3. /\ status = (IF Payable(c) - n = 0 THEN "SETTLED" ELSE "PARTIALLY_SETTLED")
      /\ status \in BookedStatus
  BY DEF SettledOr, BookedStatus
<1>4. claims[c] \in Claim /\ claims \in [ClaimIds -> Claim] /\ reimbursed \in [ClaimIds -> Nat]
  BY <1>1 DEF ExpenseTypeOK
<1> HIDE DEF status
<1>5. row \in Claim /\ row.status = status /\ row.lines = claims[c].lines
  BY <1>3, <1>4 DEF Claim
<1> HIDE DEF row
<1>6. \A e \in ClaimIds : /\ claims'[e] = (IF e = c THEN row ELSE claims[e])
                          /\ reimbursed'[e] = (IF e = c THEN reimbursed[c] + n ELSE reimbursed[e])
  BY <1>1, <1>4
<1>7. ExpenseTypeOK'
  <2>1. reimbursed' \in [ClaimIds -> Nat] /\ claims' \in [ClaimIds -> Claim]
    BY <1>1, <1>4, <1>5
  <2> QED
    BY <1>1, <1>2, <2>1 DEF ExpenseTypeOK
<1>8. BusinessTotal(row) = BusinessTotal(claims[c]) /\ ChargedTo(row, "Advances") = ChargedTo(claims[c], "Advances")
  BY <1>5 DEF BusinessTotal, ChargedTo
<1>9. /\ Payable(c)' = Payable(c) - n /\ Payable(c) \in Int
  <2>1. Payable(c)' = BusinessTotal(row) - UsedFor(c) - (reimbursed[c] + n)
    BY <1>1, <1>6 DEF Payable, UsedFor
  <2>2. reimbursed[c] \in Nat
    BY <1>4
  <2> QED
    BY <1>1, <1>8, <2>1, <2>2, UsedForNat DEF Payable
<1>10. Rest(c) = Payable(c) /\ Rest(c)' = Payable(c)' /\ Charged(c)' = Charged(c)
  BY <1>1, <1>3, <1>5, <1>6, <1>8 DEF Rest, Charged, BookedStatus
<1>11. \A e \in ClaimIds : e # c => Rest(e)' = Rest(e) /\ Charged(e)' = Charged(e)
  BY <1>1, <1>6 DEF Rest, Charged, Payable, UsedFor
<1>12. ClaimSum' = ClaimSum + (-n)
  BY <1>1, <1>9, <1>10, <1>11, ClaimSumEffect
<1>13. \A a \in AdvanceIds : Unsettled(a)' = Unsettled(a)
  BY <1>1 DEF Unsettled, UsedOf
<1>14. AdvanceSum' = AdvanceSum /\ ChargeSum' = ChargeSum
  BY <1>10, <1>11, <1>13 DEF AdvanceSum, ChargeSum
<1>15. ItemsTied'
  BY <1>1, <1>2, <1>12, <1>14, SumsAreInt DEF ExpenseInv, ExpenseTypeOK, ItemsTied
<1>16. AdvancesSettle'
  BY <1>1, <1>13 DEF ExpenseInv, AdvancesSettle
<1>17. ClaimsSettle'
  <2>1. /\ Rest(c)' >= 0 /\ claims'[c].status \in BookedStatus
        /\ claims'[c].status = "SETTLED" => Rest(c)' = 0
    BY <1>1, <1>3, <1>5, <1>6, <1>9, <1>10
  <2>2. \A e \in ClaimIds : e # c => /\ Rest(e)' = Rest(e) /\ claims'[e] = claims[e]
                                     /\ reimbursed'[e] = reimbursed[e]
    BY <1>6, <1>11
  <2> QED
    BY <1>1, <2>1, <2>2 DEF ExpenseInv, ClaimsSettle
<1> QED
  BY <1>7, <1>15, <1>16, <1>17 DEF ExpenseInv

\* A claim nothing was set off for takes this of the advances in S.
Offsets(c, S, offset) ==
  /\ \A a \in AdvanceIds : setOff[<<a, c>>] = 0
  /\ \A a \in AdvanceIds, e \in ClaimIds :
       setOff'[<<a, e>>] = IF a \in S /\ e = c THEN offset[a] ELSE setOff[<<a, e>>]

\* What an offset sets off against the advances it names, by claim and by advance.
LEMMA OffsetEffect ==
  ASSUME ExpenseTypeOK, ExpenseTypeOK', NEW c \in ClaimIds, NEW S \in SUBSET AdvanceIds,
         NEW offset \in [S -> Nat \ {0}], Offsets(c, S, offset)
  PROVE  /\ UsedFor(c) = 0 /\ UsedFor(c)' = SumFunction(offset) /\ SumFunction(offset) \in Nat
         /\ \A e \in ClaimIds : e # c => UsedFor(e)' = UsedFor(e)
         /\ \A a \in AdvanceIds : UsedOf(a)' = UsedOf(a) + (IF a \in S THEN offset[a] ELSE 0)
<1>1. /\ IsFiniteSet(S) /\ DOMAIN offset = S /\ \A a \in S : offset[a] \in Nat
      /\ \A e \in ClaimIds : IsFiniteSet(AdvanceIds \X {e})
      /\ \A a \in AdvanceIds : IsFiniteSet({a} \X ClaimIds)
  <2>1. IsFiniteSet(S)
    BY ExpenseAssumption, FS_Subset
  <2> QED
    BY <2>1, ExpenseAssumption, FS_Product, FS_Singleton
<1>2. \A x \in AdvanceIds \X ClaimIds : setOff[x] \in Nat /\ setOff'[x] \in Nat
  BY DEF ExpenseTypeOK
<1>3. SumFunctionOnSet(offset, S) \in Nat /\ SumFunction(offset) = SumFunctionOnSet(offset, S)
  BY <1>1, SumNat DEF SumFunction
<1>4. UsedFor(c) = 0
  <2>1. \A x \in AdvanceIds \X {c} : setOff[x] = 0
    BY DEF Offsets
  <2> QED
    BY <1>1, <2>1, SumZero DEF UsedFor
<1>5. UsedFor(c)' = SumFunctionOnSet(offset, S)
  <2> DEFINE D == AdvanceIds \X {c}
             T == S \X {c}
             pair == [a \in S |-> <<a, c>>]
  <2>1. T \in SUBSET D /\ \A x \in D : setOff'[x] \in Int
    BY <1>2
  <2>2. \A x \in D \ T : setOff'[x] = 0
    BY DEF Offsets
  <2>3. SumFunctionOnSet(setOff', D) = SumFunctionOnSet(setOff', T)
    <3> HIDE DEF D, T
    <3> QED
      BY <1>1, <2>1, <2>2, SumSupport DEF D
  <2>4. T = {pair[a] : a \in S}
    <3>1. \A x \in T : \E a \in S : x = pair[a]
      OBVIOUS
    <3>2. \A a \in S : pair[a] \in T
      OBVIOUS
    <3> HIDE DEF T, pair
    <3> QED
      BY <3>1, <3>2
  <2>5. \A a \in S : offset[a] \in Int /\ setOff'[pair[a]] = offset[a]
    BY <1>1 DEF Offsets
  <2>6. \A a, b \in S : pair[a] = pair[b] => a = b
    OBVIOUS
  <2>7. SumFunctionOnSet(setOff', {pair[a] : a \in S}) = SumFunctionOnSet(offset, S)
    <3> HIDE DEF pair
    <3> QED
      BY <1>1, <2>5, <2>6, SumRename
  <2> QED
    BY <2>3, <2>4, <2>7 DEF UsedFor
<1>6. ASSUME NEW e \in ClaimIds, e # c
      PROVE  UsedFor(e)' = UsedFor(e)
  <2>1. \A x \in AdvanceIds \X {e} : setOff[x] \in Int /\ setOff[x] = setOff'[x]
    BY <1>2, <1>6 DEF Offsets
  <2> QED
    BY <1>1, <2>1, SumEqual DEF UsedFor
<1>7. ASSUME NEW a \in AdvanceIds
      PROVE  UsedOf(a)' = UsedOf(a) + (IF a \in S THEN offset[a] ELSE 0)
  <2> DEFINE D == {a} \X ClaimIds
             n == IF a \in S THEN offset[a] ELSE 0
  <2>1. /\ n \in Int /\ <<a, c>> \in D /\ \A x \in D : setOff[x] \in Int
        /\ setOff'[<<a, c>>] = setOff[<<a, c>>] + n
    BY <1>1, <1>2 DEF Offsets
  <2>2. \A x \in D : x # <<a, c>> => setOff'[x] = setOff[x]
    BY DEF Offsets
  <2> HIDE DEF D, n
  <2>3. SumFunctionOnSet(setOff', D) = SumFunctionOnSet(setOff, D) + n
    <3>1. IsFiniteSet(D)
      BY <1>1 DEF D
    <3> QED
      BY <2>1, <2>2, <3>1, SumChange
  <2> QED
    BY <2>3 DEF UsedOf, D, n
<1> QED
  BY <1>3, <1>4, <1>5, <1>6, <1>7


\* Posting a claim with its offsets keeps it: each advance it names loses what the claim
\* takes from it, and both accounts move by their sum.
LEMMA PostClaimStep ==
  ASSUME ExpenseInv, NEW c \in ClaimIds, NEW S \in SUBSET AdvanceIds, NEW offset \in [S -> AdvanceAmounts],
         PostClaim(c, offset)
  PROVE  ExpenseInv'
<1> DEFINE total == BusinessTotal(claims[c])
           covered == SumFunction(offset)
           status == IF covered = 0 THEN "POSTED" ELSE SettledOr(total - covered)
           row == [claims[c] EXCEPT !.status = status]
           left(a) == SettledOr(Unsettled(a) - offset[a])
           taken == [a \in AdvanceIds |-> IF a \in S THEN offset[a] ELSE 0]
           charged == ChargedTo(claims[c], "Advances")
<1>1. /\ ExpenseTypeOK /\ claims[c].status = "APPROVED" /\ total > 0 /\ covered <= total
      /\ DOMAIN offset = S
      /\ \A a \in S : offset[a] \in 1 .. Unsettled(a)
      /\ \A i \in DOMAIN claims[c].lines :
           claims[c].lines[i].business > 0 => Chargeable(claims[c].lines[i].account)
      /\ PostLines([k \in ExpenseAccounts |-> ChargedTo(claims[c], k)
                      - (CASE k = "Advances" -> covered [] k = "Reimbursable" -> total - covered [] OTHER -> 0)])
      /\ claims' = [claims EXCEPT ![c] = row]
      /\ UNCHANGED <<claimants, repaid, reimbursed>>
  BY DEF ExpenseInv, PostClaim
<1>2. /\ setOff' = [x \in AdvanceIds \X ClaimIds |-> IF x[1] \in S /\ x[2] = c THEN offset[x[1]] ELSE setOff[x]]
      /\ advances' = [a \in AdvanceIds |->
                        IF a \in S THEN [advances[a] EXCEPT !.status = left(a)] ELSE advances[a]]
  <2>1. DOMAIN setOff = AdvanceIds \X ClaimIds
    BY <1>1 DEF ExpenseTypeOK
  <2> QED
    BY <1>1, <2>1 DEF PostClaim
<1>3. offset \in [S -> Nat \ {0}]
  BY DEF AdvanceAmounts
<1>4. /\ claims \in [ClaimIds -> Claim] /\ claims[c] \in Claim
      /\ advances \in [AdvanceIds -> Advance] /\ setOff \in [AdvanceIds \X ClaimIds -> Nat]
      /\ repaid \in [AdvanceIds -> Nat] /\ reimbursed \in [ClaimIds -> Nat]
      /\ bookBalance["Advances"] \in Int /\ bookBalance["Reimbursable"] \in Int
  BY <1>1 DEF ExpenseTypeOK
<1>5. /\ reimbursed[c] = 0 /\ \A a \in AdvanceIds : setOff[<<a, c>>] = 0
  BY <1>1 DEF ExpenseInv, ClaimsSettle, BookedStatus
<1>6. status \in BookedStatus /\ (status = "SETTLED" => total - covered = 0)
  BY DEF SettledOr, BookedStatus
<1>7. \A a \in S : /\ left(a) \in {"PARTIALLY_SETTLED", "SETTLED"}
                   /\ left(a) = "SETTLED" <=> Unsettled(a) - offset[a] = 0
  BY DEF SettledOr
<1> HIDE DEF status, left
<1>8. row \in Claim /\ row.status = status /\ row.lines = claims[c].lines
  BY <1>4, <1>6 DEF Claim
<1> HIDE DEF row
<1>9. \A a \in AdvanceIds : /\ advances'[a] \in Advance /\ advances'[a].amount = advances[a].amount
                            /\ a \in S => advances'[a].status = left(a)
                            /\ a \notin S => advances'[a] = advances[a]
  <2> SUFFICES ASSUME NEW a \in AdvanceIds
               PROVE  /\ advances'[a] \in Advance /\ advances'[a].amount = advances[a].amount
                      /\ a \in S => advances'[a].status = left(a)
                      /\ a \notin S => advances'[a] = advances[a]
    OBVIOUS
  <2>1. advances[a] \in Advance
    BY <1>4
  <2>2. CASE a \in S
    <3>1. advances'[a] = [advances[a] EXCEPT !.status = left(a)] /\ left(a) \in {"PARTIALLY_SETTLED", "SETTLED"}
      BY <1>2, <1>7, <2>2
    <3> QED
      BY <2>1, <2>2, <3>1 DEF Advance
  <2>3. CASE a \notin S
    BY <1>2, <2>1, <2>3
  <2> QED
    BY <2>2, <2>3
<1>10. \A a \in AdvanceIds, e \in ClaimIds :
         setOff'[<<a, e>>] = IF a \in S /\ e = c THEN offset[a] ELSE setOff[<<a, e>>]
  BY <1>2
<1>11. setOff' \in [AdvanceIds \X ClaimIds -> Nat]
  <2>1. \A a \in AdvanceIds, e \in ClaimIds : setOff'[<<a, e>>] \in Nat
    BY <1>3, <1>4, <1>10
  <2>2. setOff' = [x \in AdvanceIds \X ClaimIds |-> setOff'[x]]
    BY <1>2
  <2> QED
    BY <2>1, <2>2
<1>12. /\ covered \in Int /\ total \in Int /\ charged \in Nat /\ DOMAIN bookBalance' = ExpenseAccounts
       /\ bookBalance'["Advances"] = bookBalance["Advances"] + charged - covered
       /\ bookBalance'["Reimbursable"] = bookBalance["Reimbursable"] + covered - total
  <2> DEFINE lines == [k \in ExpenseAccounts |-> ChargedTo(claims[c], k)
                        - (CASE k = "Advances" -> covered [] k = "Reimbursable" -> total - covered [] OTHER -> 0)]
  <2>1. total \in Int /\ charged \in Nat /\ ChargedTo(claims[c], "Reimbursable") = 0
    BY <1>1, <1>4, BusinessNat, NothingOnLiability
  <2>2. covered \in Int
    <3>1. IsFiniteSet(S) /\ \A a \in S : offset[a] \in Int
      BY <1>3, ExpenseAssumption, FS_Subset
    <3> QED
      BY <1>1, <3>1, SumInt DEF SumFunction
  <2>3. /\ DOMAIN lines = ExpenseAccounts /\ {"Advances", "Reimbursable"} \subseteq ExpenseAccounts
        /\ lines["Advances"] = charged - covered
        /\ lines["Reimbursable"] = ChargedTo(claims[c], "Reimbursable") - (total - covered)
    BY DEF ExpenseAccounts, AccountType
  <2> HIDE DEF total, covered, charged, lines
  <2>4. /\ DOMAIN bookBalance' = ExpenseAccounts
        /\ bookBalance'["Advances"] = bookBalance["Advances"] + (charged - covered)
        /\ bookBalance'["Reimbursable"] = bookBalance["Reimbursable"] + (0 - (total - covered))
    <3>1. PostLines(lines)
      BY <1>1 DEF lines, total, covered
    <3>2. /\ DOMAIN bookBalance' = ExpenseAccounts
          /\ \A k \in {"Advances", "Reimbursable"} :
               bookBalance'[k] = bookBalance[k] + (IF k \in DOMAIN lines THEN lines[k] ELSE 0)
      BY <1>1, <3>1, PostLinesEffect
    <3> QED
      BY <2>1, <2>3, <3>2
  <2> QED
    BY <1>4, <2>1, <2>2, <2>4
<1>12a. ExpenseTypeOK'
  <2> HIDE DEF total, covered, charged
  <2>1. bookBalance'["Advances"] \in Int /\ bookBalance'["Reimbursable"] \in Int
    BY <1>4, <1>12
  <2>2. claims' \in [ClaimIds -> Claim] /\ advances' \in [AdvanceIds -> Advance]
    BY <1>1, <1>2, <1>4, <1>8, <1>9
  <2> QED
    BY <1>1, <1>4, <1>11, <1>12, <2>1, <2>2 DEF ExpenseTypeOK
<1>13. /\ UsedFor(c) = 0 /\ UsedFor(c)' = covered /\ covered \in Nat
       /\ \A e \in ClaimIds : e # c => UsedFor(e)' = UsedFor(e)
       /\ \A a \in AdvanceIds : UsedOf(a)' = UsedOf(a) + (IF a \in S THEN offset[a] ELSE 0)
  <2>1. ExpenseTypeOK /\ \A a \in AdvanceIds : setOff[<<a, c>>] = 0
    BY <1>1, <1>5
  <2>2. Offsets(c, S, offset)
    BY <1>10, <2>1 DEF Offsets
  <2> QED
    BY <1>3, <1>12a, <2>1, <2>2, OffsetEffect
<1>14. /\ total \in Nat /\ Rest(c) = 0 /\ Rest(c)' = total - covered
       /\ Charged(c) = 0 /\ Charged(c)' = charged
  <2>1. claims'[c] = row /\ BusinessTotal(row) = total /\ total \in Nat
    BY <1>1, <1>4, <1>8, UsedForNat DEF BusinessTotal
  <2>2. Rest(c) = 0 /\ Charged(c) = 0
    BY <1>1 DEF Rest, Charged, BookedStatus
  <2>4. Charged(c)' = charged
    BY <1>6, <1>8, <2>1 DEF Charged, ChargedTo
  <2>3. Rest(c)' = total - covered - 0
    BY <1>1, <1>5, <1>6, <1>8, <1>13, <2>1 DEF Rest, Payable
  <2> HIDE DEF total, covered, charged
  <2> QED
    BY <1>13, <2>1, <2>2, <2>3, <2>4
<1>15. \A e \in ClaimIds : e # c => claims'[e] = claims[e] /\ Rest(e)' = Rest(e) /\ Charged(e)' = Charged(e)
  BY <1>1, <1>4, <1>13 DEF Rest, Charged, Payable
<1>16. \A a \in AdvanceIds : /\ taken[a] \in Nat /\ Unsettled(a) \in Int
                             /\ Unsettled(a)' = Unsettled(a) - taken[a]
  <2> SUFFICES ASSUME NEW a \in AdvanceIds
               PROVE  taken[a] \in Nat /\ Unsettled(a) \in Int /\ Unsettled(a)' = Unsettled(a) - taken[a]
    OBVIOUS
  <2>1. /\ taken[a] \in Nat /\ UsedOf(a)' = UsedOf(a) + taken[a]
    BY <1>3, <1>13
  <2>2. UsedOf(a) \in Nat /\ advances[a].amount \in Nat /\ repaid[a] \in Nat
    BY <1>1, UsedOfNat
  <2>3. Unsettled(a)' = advances[a].amount - UsedOf(a)' - repaid[a]
    BY <1>1, <1>9 DEF Unsettled
  <2> HIDE DEF taken
  <2> QED
    BY <2>1, <2>2, <2>3 DEF Unsettled
<1>17. AdvanceSum' = AdvanceSum - covered
  <2> DEFINE f == [a \in AdvanceIds |-> Unsettled(a)]
             g == [a \in AdvanceIds |-> Unsettled(a)']
  <2>1. \A a \in AdvanceIds : f[a] \in Int /\ taken[a] \in Int /\ g[a] = f[a] - taken[a]
    BY <1>16
  <2>2. (\A a \in S : taken[a] = offset[a]) /\ (\A a \in AdvanceIds \ S : taken[a] = 0)
    OBVIOUS
  <2> HIDE DEF f, g, taken
  <2>3. SumFunctionOnSet(g, AdvanceIds) = SumFunctionOnSet(f, AdvanceIds) - SumFunctionOnSet(taken, AdvanceIds)
    BY <2>1, ExpenseAssumption, SumMinus
  <2>4. SumFunctionOnSet(taken, AdvanceIds) = SumFunctionOnSet(taken, S)
    BY <2>1, <2>2, ExpenseAssumption, SumSupport
  <2>5. SumFunctionOnSet(taken, S) = SumFunctionOnSet(offset, S)
    <3>1. IsFiniteSet(S) /\ \A a \in S : taken[a] \in Int
      BY <2>1, ExpenseAssumption, FS_Subset
    <3> QED
      BY <2>2, <3>1, SumEqual
  <2>6. SumFunctionOnSet(offset, S) = covered
    BY <1>1 DEF SumFunction
  <2> HIDE DEF covered
  <2> QED
    BY <2>3, <2>4, <2>5, <2>6 DEF AdvanceSum, f, g
<1> HIDE DEF total, covered, charged
<1>18. ClaimSum' = ClaimSum + (total - covered) /\ ChargeSum' = ChargeSum + charged
  <2>1. Charged(c)' = Charged(c) + charged /\ charged \in Int
    BY <1>12, <1>14
  <2> QED
    BY <1>1, <1>13, <1>14, <1>15, <2>1, ClaimSumEffect, ChargeSumEffect
<1>19. ItemsTied'
  <2>1. AdvanceSum \in Int /\ ClaimSum \in Int /\ ChargeSum \in Int
    BY <1>1, SumsAreInt
  <2> QED
    BY <1>4, <1>12, <1>17, <1>18, <2>1 DEF ExpenseInv, ItemsTied
<1>20. AdvancesSettle'
  <2> SUFFICES ASSUME NEW a \in AdvanceIds
               PROVE  /\ Unsettled(a)' >= 0
                      /\ advances'[a].status = "NONE" <=> advances'[a].amount = 0
                      /\ advances'[a].status = "SETTLED" <=> advances'[a].amount > 0 /\ Unsettled(a)' = 0
    BY DEF AdvancesSettle
  <2>1. /\ Unsettled(a) >= 0
        /\ advances[a].status = "NONE" <=> advances[a].amount = 0
        /\ advances[a].status = "SETTLED" <=> advances[a].amount > 0 /\ Unsettled(a) = 0
    BY DEF ExpenseInv, AdvancesSettle
  <2>2. CASE a \in S
    <3>1. taken[a] = offset[a] /\ offset[a] \in 1 .. Unsettled(a) /\ offset[a] \in Nat \ {0}
      BY <1>1, <1>3, <2>2
    <3> HIDE DEF taken
    <3>2. Unsettled(a)' >= 0 /\ (Unsettled(a)' = 0 <=> Unsettled(a) - offset[a] = 0) /\ Unsettled(a) > 0
      BY <1>16, <3>1
    <3>3. advances[a].amount > 0
      BY <1>1, <3>2, UsedOfNat DEF Unsettled
    <3> QED
      BY <1>7, <1>9, <2>2, <3>2, <3>3
  <2>3. CASE a \notin S
    <3>1. taken[a] = 0
      BY <2>3
    <3> HIDE DEF taken
    <3>2. Unsettled(a)' = Unsettled(a)
      BY <1>16, <3>1
    <3> QED
      BY <1>9, <2>1, <2>3, <3>2
  <2> QED
    BY <2>2, <2>3
<1>21. ClaimsSettle'
  <2> SUFFICES ASSUME NEW e \in ClaimIds
               PROVE  /\ Rest(e)' >= 0
                      /\ claims'[e].status = "SETTLED" => Rest(e)' = 0
                      /\ claims'[e].status \notin BookedStatus =>
                           reimbursed'[e] = 0 /\ \A a \in AdvanceIds : setOff'[<<a, e>>] = 0
    BY DEF ClaimsSettle
  <2>1. CASE e = c
    <3>1. claims'[c] = row
      BY <1>1, <1>4
    <3> QED
      BY <1>1, <1>6, <1>8, <1>13, <1>14, <2>1, <3>1
  <2>2. CASE e # c
    BY <1>1, <1>10, <1>15, <2>2 DEF ExpenseInv, ClaimsSettle
  <2> QED
    BY <2>1, <2>2
<1> QED
  BY <1>12a, <1>19, <1>20, <1>21 DEF ExpenseInv

\* A step that leaves the rows alone keeps the invariant.
LEMMA ExpenseQuiet ==
  ASSUME ExpenseInv, UNCHANGED <<claims, advances, setOff, repaid, reimbursed, bookBalance>>
  PROVE  ExpenseInv'
<1>1. \A a \in AdvanceIds : Unsettled(a)' = Unsettled(a)
  BY DEF Unsettled, UsedOf
<1>2. \A c \in ClaimIds : Rest(c)' = Rest(c) /\ Charged(c)' = Charged(c)
  BY DEF Rest, Charged, Payable, UsedFor
<1>3. AdvanceSum' = AdvanceSum /\ ClaimSum' = ClaimSum /\ ChargeSum' = ChargeSum
  BY <1>1, <1>2 DEF AdvanceSum, ClaimSum, ChargeSum
<1> QED
  BY <1>1, <1>2, <1>3 DEF ExpenseInv, ExpenseTypeOK, ItemsTied, AdvancesSettle, ClaimsSettle

\* Every step of the expense claims keeps the invariant.
LEMMA ExpenseStep == ExpenseInv /\ [ExpenseNext]_expenseVars => ExpenseInv'
<1> SUFFICES ASSUME ExpenseInv, [ExpenseNext]_expenseVars PROVE ExpenseInv'
  OBVIOUS
<1>0. claims \in [ClaimIds -> Claim] /\ ExpenseTypeOK
  BY DEF ExpenseInv, ExpenseTypeOK
<1>1. CASE \E p \in Claimants : CreateClaimant(p)
  BY <1>1, ExpenseQuiet DEF CreateClaimant
<1>2. ASSUME NEW c \in ClaimIds, NEW p \in Claimants, NEW r \in Reviewers, NEW lines \in ClaimLines,
             CreateClaim(c, p, r, lines)
      PROVE  ExpenseInv'
  <2> DEFINE row == [status |-> "DRAFT", claimant |-> p, creator |-> r, lines |-> lines]
  <2>1. row \in Claim /\ row.status \notin BookedStatus /\ claims[c].status \notin BookedStatus
    BY <1>2 DEF Claim, BookedStatus, CreateClaim
  <2> QED
    BY <1>2, <2>1, ClaimMoves DEF CreateClaim
<1>3. ASSUME NEW c \in ClaimIds, NEW s \in {"SUBMITTED", "APPROVED", "REJECTED"},
             claims[c].status \in {"DRAFT", "SUBMITTED"}, claims' = [claims EXCEPT ![c].status = s],
             UNCHANGED <<advances, setOff, repaid, reimbursed, bookBalance>>
      PROVE  ExpenseInv'
  <2> DEFINE row == [claims[c] EXCEPT !.status = s]
  <2>1. claims[c] \in Claim /\ claims' = [claims EXCEPT ![c] = row]
    BY <1>0, <1>3
  <2>2. row \in Claim /\ row.status = s
    BY <2>1 DEF Claim
  <2>3. row.status \notin BookedStatus /\ claims[c].status \notin BookedStatus
    BY <1>3, <2>2 DEF BookedStatus
  <2> HIDE DEF row
  <2> QED
    BY <1>3, <2>1, <2>2, <2>3, ClaimMoves
<1>4. CASE \E c \in ClaimIds : SubmitClaim(c)
  BY <1>3, <1>4 DEF SubmitClaim
<1>5. CASE \E c \in ClaimIds, r \in Reviewers, d \in {"APPROVED", "REJECTED"}, ok \in BOOLEAN : ReviewClaim(c, r, d, ok)
  BY <1>3, <1>5 DEF ReviewClaim
<1>6. CASE \E c \in ClaimIds, S \in SUBSET AdvanceIds : \E offset \in [S -> AdvanceAmounts] : PostClaim(c, offset)
  BY <1>6, PostClaimStep
<1>7. CASE \E a \in AdvanceIds, p \in Claimants, n \in AdvanceAmounts : IssueAdvance(a, p, n)
  BY <1>7, IssueAdvanceStep
<1>8. CASE \E a \in AdvanceIds, n \in AdvanceAmounts : RepayAdvance(a, n)
  BY <1>8, RepayAdvanceStep
<1>9. CASE \E c \in ClaimIds : \E n \in 1 .. Payable(c) : RecordReimbursement(c, n)
  <2>1. PICK c \in ClaimIds : \E n \in 1 .. Payable(c) : RecordReimbursement(c, n)
    BY <1>9
  <2>2. PICK n \in 1 .. Payable(c) : RecordReimbursement(c, n)
    BY <2>1
  <2>3. n \in Nat \ {0}
    BY <1>0, UsedForNat
  <2> QED
    BY <2>2, <2>3, ReimbursementStep
<1>10. CASE UNCHANGED expenseVars
  BY <1>10, ExpenseQuiet DEF expenseVars
<1> QED
  BY <1>1, <1>2, <1>4, <1>5, <1>6, <1>7, <1>8, <1>9, <1>10 DEF ExpenseNext

\* The invariant holds in every reachable state of advances and claims.
THEOREM ExpensesHold == ExpenseSpec => []ExpenseInv
<1>1. ExpenseInit => ExpenseInv
  BY ExpenseStarts
<1>2. ExpenseInv /\ [ExpenseNext]_expenseVars => ExpenseInv'
  BY ExpenseStep
<1> QED
  BY <1>1, <1>2, PTL DEF ExpenseSpec

\* Settled rows add nothing: the sums over all rows are those over the open ones.
LEMMA OpenItemsSum ==
  ASSUME ExpenseInv
  PROVE  /\ AdvanceSum = SumFunctionOnSet([a \in AdvanceIds |-> Unsettled(a)], OpenAdvances)
         /\ ClaimSum = SumFunctionOnSet([c \in ClaimIds |-> Payable(c)], OpenClaims)
         /\ ChargeSum = ChargedAdvances
<1> DEFINE f == [a \in AdvanceIds |-> Unsettled(a)]
           g == [c \in ClaimIds |-> Rest(c)]
           h == [c \in ClaimIds |-> Payable(c)]
           p == [c \in ClaimIds |-> Charged(c)]
           q == [c \in ClaimIds |-> ChargedTo(claims[c], "Advances")]
<1>1. ExpenseTypeOK /\ AdvancesSettle /\ ClaimsSettle
  BY DEF ExpenseInv
<1>2. /\ OpenAdvances \in SUBSET AdvanceIds /\ \A a \in AdvanceIds : f[a] \in Int
      /\ \A a \in AdvanceIds \ OpenAdvances : f[a] = 0
  BY <1>1, UsedOfNat DEF OpenAdvances, AdvancesSettle
<1>3. /\ OpenClaims \in SUBSET ClaimIds /\ IsFiniteSet(OpenClaims)
      /\ \A c \in ClaimIds : g[c] \in Int
  BY <1>1, UsedForNat, ExpenseAssumption, FS_Subset DEF OpenClaims
<1>4. \A c \in OpenClaims : g[c] = h[c]
  BY DEF OpenClaims, Rest, BookedStatus
<1>5. \A c \in ClaimIds \ OpenClaims : g[c] = 0
  <2> SUFFICES ASSUME NEW c \in ClaimIds, c \notin OpenClaims PROVE Rest(c) = 0
    OBVIOUS
  <2>1. CASE claims[c].status \in {"POSTED", "PARTIALLY_SETTLED"}
    <3>1. Rest(c) = Payable(c) /\ ~(Payable(c) > 0)
      BY <2>1 DEF OpenClaims, Rest, BookedStatus
    <3> QED
      BY <1>1, <3>1, UsedForNat DEF ClaimsSettle
  <2>2. CASE claims[c].status \notin {"POSTED", "PARTIALLY_SETTLED"}
    BY <1>1, <2>2 DEF ClaimsSettle, Rest, BookedStatus
  <2> QED
    BY <2>1, <2>2
<1>9. /\ BookedClaims \in SUBSET ClaimIds /\ IsFiniteSet(BookedClaims)
      /\ \A c \in ClaimIds : p[c] \in Int
      /\ \A c \in BookedClaims : p[c] = q[c]
      /\ \A c \in ClaimIds \ BookedClaims : p[c] = 0
  BY <1>1, UsedForNat, ExpenseAssumption, FS_Subset DEF BookedClaims, BookedStatus, Charged
<1> HIDE DEF f, g, h, p, q
<1>6. SumFunctionOnSet(f, AdvanceIds) = SumFunctionOnSet(f, OpenAdvances)
  BY <1>2, ExpenseAssumption, SumSupport
<1>7. SumFunctionOnSet(g, ClaimIds) = SumFunctionOnSet(g, OpenClaims)
  BY <1>3, <1>5, ExpenseAssumption, SumSupport
<1>8. SumFunctionOnSet(g, OpenClaims) = SumFunctionOnSet(h, OpenClaims)
  BY <1>3, <1>4, SumEqual
<1>10. SumFunctionOnSet(p, ClaimIds) = SumFunctionOnSet(p, BookedClaims)
  BY <1>9, ExpenseAssumption, SumSupport
<1>11. SumFunctionOnSet(p, BookedClaims) = SumFunctionOnSet(q, BookedClaims)
  BY <1>9, SumEqual
<1> QED
  BY <1>6, <1>7, <1>8, <1>10, <1>11 DEF AdvanceSum, ClaimSum, ChargeSum, ChargedAdvances, f, g, h, p, q

\* The advance account carries the open advances and what lines of posted claims put on it,
\* the reimbursable account what posted claims still ask for, whatever was set off, repaid
\* or reimbursed in between.
THEOREM OpenItemsHold == ExpenseSpec => []OpenItemsTieToTheBooks
<1>1. ExpenseInv => OpenItemsTieToTheBooks
  <2> SUFFICES ASSUME ExpenseInv PROVE OpenItemsTieToTheBooks
    OBVIOUS
  <2>1. ExpenseTypeOK /\ ItemsTied /\ AdvancesSettle
    BY DEF ExpenseInv
  <2>2. bookBalance["Advances"] = ChargedAdvances +
          SumFunctionOnSet([a \in AdvanceIds |-> advances[a].amount - UsedOf(a) - repaid[a]], OpenAdvances)
    <3>1. bookBalance["Advances"] = ChargeSum + AdvanceSum
      BY <2>1, SumsAreInt DEF ItemsTied
    <3> QED
      BY <3>1, OpenItemsSum DEF Unsettled
  <2>3. bookBalance["Reimbursable"] = -SumFunctionOnSet([c \in ClaimIds |-> Payable(c)], OpenClaims)
    <3>1. bookBalance["Reimbursable"] = 0 - ClaimSum /\ ClaimSum \in Int
      BY <2>1, SumsAreInt DEF ItemsTied
    <3>2. 0 - ClaimSum = -ClaimSum
      BY <3>1
    <3> QED
      BY <3>1, <3>2, OpenItemsSum
  <2>4. \A a \in AdvanceIds : advances[a].status = "SETTLED" <=> advances[a].amount > 0 /\ a \notin OpenAdvances
    BY <2>1, UsedOfNat DEF AdvancesSettle, OpenAdvances
  <2> QED
    BY <2>2, <2>3, <2>4 DEF OpenItemsTieToTheBooks
<1> QED
  BY <1>1, ExpensesHold, PTL

-----------------------------------------------------------------------------
(* GST returns: the snapshots of their versions.                           *)

\* Snapshots are appended, the rest of their fields is not read.
IsSequence(s) == \E S : s \in Seq(S)
Snapshot(snap) == DOMAIN snap = {"ids", "tax", "readiness", "exported"} /\ snap.ids \subseteq Invoices

\* The rows are well formed, a return has its versions in order.
GstTypeOK ==
  /\ DOMAIN facts = Invoices
  /\ DOMAIN supplies = Invoices
  /\ \A i \in Invoices : DOMAIN supplies[i] = {"status", "registration", "tax"}
  /\ DOMAIN returns = Registrations \X Periods
  /\ \A key \in DOMAIN returns :
       /\ DOMAIN returns[key] = {"bookSet", "snapshots"}
       /\ IsSequence(returns[key].snapshots)
       /\ \A v \in DOMAIN returns[key].snapshots : Snapshot(returns[key].snapshots[v])

\* What a snapshot is made of was posted, and asked for by the BookSet of the return.
SnapshotsArePosted ==
  \A key \in DOMAIN returns :
    /\ returns[key].bookSet = Absent => returns[key].snapshots = <<>>
    /\ \A v \in DOMAIN returns[key].snapshots : \A i \in returns[key].snapshots[v].ids :
         /\ supplies[i].status # "DRAFT"
         /\ InvoiceOf(i).bookSet = returns[key].bookSet
         /\ Covers(key[2], InvoiceOf(i).date)

\* What is still wholly unpaid stays in every later snapshot.
UnpaidStay ==
  \A key \in DOMAIN returns : \A m, n \in DOMAIN returns[key].snapshots :
    m < n => \A i \in returns[key].snapshots[m].ids :
               supplies[i].status = "POSTED" => i \in returns[key].snapshots[n].ids

\* A readiness of READY, shown or not, has line facts behind it.
ReadyIsBacked ==
  \A key \in DOMAIN returns : \A v \in DOMAIN returns[key].snapshots :
    returns[key].snapshots[v].readiness = "READY" =>
      \A i \in returns[key].snapshots[v].ids : facts[i] = "LINES"

\* What every step of the returns preserves.
GstInv == GstTypeOK /\ SnapshotsArePosted /\ UnpaidStay /\ ReadyIsBacked
-----------------------------------------------------------------------------
\* Appending keeps the old rows at their index.
LEMMA AppendToSequence ==
  ASSUME NEW s, IsSequence(s), NEW e
  PROVE  /\ IsSequence(Append(s, e))
         /\ Len(s) \in Nat /\ DOMAIN s = 1 .. Len(s) /\ DOMAIN Append(s, e) = 1 .. Len(s) + 1
         /\ Append(s, e)[Len(s) + 1] = e
         /\ \A k \in DOMAIN s : Append(s, e)[k] = s[k]
<1>1. PICK S : s \in Seq(S)
  BY DEF IsSequence
<1> DEFINE T == S \cup {e}
<1>2. s \in Seq(T) /\ e \in T
  BY <1>1
<1> HIDE DEF T
<1>3. Append(s, e) \in Seq(T)
  BY <1>2
<1> QED
  BY <1>2, <1>3 DEF IsSequence

\* Rewriting a row keeps the others.
LEMMA ChangeInSequence ==
  ASSUME NEW s, IsSequence(s), NEW v \in DOMAIN s, NEW e
  PROVE  /\ IsSequence([s EXCEPT ![v] = e])
         /\ DOMAIN [s EXCEPT ![v] = e] = DOMAIN s
         /\ \A k \in DOMAIN s : [s EXCEPT ![v] = e][k] = IF k = v THEN e ELSE s[k]
<1>1. PICK S : s \in Seq(S)
  BY DEF IsSequence
<1> DEFINE T == S \cup {e}
<1>2. s \in Seq(T) /\ e \in T
  BY <1>1
<1> HIDE DEF T
<1>3. [s EXCEPT ![v] = e] \in Seq(T)
  BY <1>2
<1> QED
  BY <1>2, <1>3 DEF IsSequence

\* The last row is the one at the length.
LEMMA LastOfSequence ==
  ASSUME NEW s, IsSequence(s), s # <<>>
  PROVE  Len(s) \in DOMAIN s /\ Last(s) = s[Len(s)]
BY DEF IsSequence, Last

\* No return and no facts: the invariant holds at the start.
LEMMA GstStarts == GstInit => GstInv
<1> SUFFICES ASSUME GstInit PROVE GstInv
  OBVIOUS
<1>1. IsSequence(<<>>) /\ DOMAIN <<>> = {}
  <2>1. <<>> \in Seq({})
    OBVIOUS
  <2> QED
    BY <2>1 DEF IsSequence
<1>2. \A key \in DOMAIN returns : returns[key] = NoReturn
  BY DEF GstInit
<1>3. NoReturn.snapshots = <<>> /\ DOMAIN NoReturn = {"bookSet", "snapshots"}
  BY DEF NoReturn
<1>4. GstTypeOK
  BY <1>1, <1>2, <1>3 DEF GstInit, GstTypeOK, Unposted
<1>5. SnapshotsArePosted /\ UnpaidStay /\ ReadyIsBacked
  BY <1>1, <1>2, <1>3 DEF SnapshotsArePosted, UnpaidStay, ReadyIsBacked
<1> QED
  BY <1>4, <1>5 DEF GstInv

\* Posting an invoice or receiving money for it: it never becomes POSTED again.
LEMMA SupplyMoves ==
  ASSUME GstInv, NEW i \in Invoices, NEW row, DOMAIN row = {"status", "registration", "tax"},
         row.status # "DRAFT", row.status = "POSTED" => supplies[i].status = "DRAFT",
         supplies' = [supplies EXCEPT ![i] = row], UNCHANGED <<facts, returns>>
  PROVE  GstInv'
<1>1. DOMAIN supplies' = Invoices /\ \A j \in Invoices : supplies'[j] = IF j = i THEN row ELSE supplies[j]
  BY DEF GstInv, GstTypeOK
<1>2. \A key \in DOMAIN returns : \A v \in DOMAIN returns[key].snapshots : returns[key].snapshots[v].ids \subseteq Invoices
  BY DEF GstInv, GstTypeOK, Snapshot
<1>3. GstTypeOK'
  BY <1>1 DEF GstInv, GstTypeOK
<1>4. SnapshotsArePosted'
  BY <1>1, <1>2 DEF GstInv, SnapshotsArePosted
<1>5. UnpaidStay'
  <2> SUFFICES ASSUME NEW key \in DOMAIN returns, NEW m \in DOMAIN returns[key].snapshots,
                      NEW n \in DOMAIN returns[key].snapshots, m < n,
                      NEW j \in returns[key].snapshots[m].ids, supplies'[j].status = "POSTED"
               PROVE  j \in returns[key].snapshots[n].ids
    BY DEF UnpaidStay
  <2>1. supplies[j].status # "DRAFT" /\ j \in Invoices
    BY <1>2 DEF GstInv, SnapshotsArePosted
  <2>2. supplies[j].status = "POSTED"
    BY <1>1, <2>1
  <2> QED
    BY <2>2 DEF GstInv, UnpaidStay
<1>6. ReadyIsBacked'
  BY DEF GstInv, ReadyIsBacked
<1> QED
  BY <1>3, <1>4, <1>5, <1>6 DEF GstInv

\* Recording facts keeps the invariant: only a draft takes them, and they are never withdrawn.
LEMMA FactsStep ==
  ASSUME GstInv, NEW i \in Invoices, NEW lines \in BOOLEAN, RecordOutwardFacts(i, lines)
  PROVE  GstInv'
<1>1. /\ facts[i] = "NONE" /\ facts' = [facts EXCEPT ![i] = IF lines THEN "LINES" ELSE "BARE"]
      /\ UNCHANGED <<supplies, returns>>
  BY DEF RecordOutwardFacts
<1>2. DOMAIN facts' = Invoices /\ \A j \in Invoices : facts[j] = "LINES" => facts'[j] = "LINES"
  BY <1>1 DEF GstInv, GstTypeOK
<1>3. GstTypeOK'
  BY <1>1, <1>2 DEF GstInv, GstTypeOK
<1>4. SnapshotsArePosted' /\ UnpaidStay'
  BY <1>1 DEF GstInv, SnapshotsArePosted, UnpaidStay
<1>5. ReadyIsBacked'
  BY <1>1, <1>2 DEF GstInv, GstTypeOK, ReadyIsBacked, Snapshot
<1> QED
  BY <1>3, <1>4, <1>5 DEF GstInv

\* Preparing a version keeps it: the new snapshot holds every invoice that is still posted.
LEMMA PrepareReturnStep ==
  ASSUME GstInv, NEW j \in Invoices, NEW r \in Registrations, NEW t \in Periods,
         PrepareReturn(InvoiceOf(j).bookSet, r, t)
  PROVE  GstInv'
<1> DEFINE b == InvoiceOf(j).bookSet
           key == <<r, t>>
           old == returns[key].snapshots
           snap == [ids |-> Sources(b, t), tax |-> TotalTax(Sources(b, t)), readiness |-> "NONE", exported |-> FALSE]
           row == [bookSet |-> b, snapshots |-> Append(old, snap)]
<1>1. /\ returns[key].bookSet \in {Absent, b} /\ b # Absent /\ key \in DOMAIN returns
      /\ returns' = [returns EXCEPT ![key] = row]
      /\ UNCHANGED <<supplies, facts>>
  BY GstAssumption DEF GstInv, GstTypeOK, PrepareReturn
<1>2. /\ Snapshot(snap) /\ snap.readiness = "NONE"
      /\ \A i \in Invoices : i \in snap.ids <=> /\ InvoiceOf(i).bookSet = b /\ supplies[i].status = "POSTED"
                                                /\ Covers(t, InvoiceOf(i).date)
  BY DEF Snapshot, Sources
<1> HIDE DEF snap
<1>3. /\ IsSequence(old) /\ Len(old) \in Nat /\ DOMAIN old = 1 .. Len(old)
      /\ IsSequence(Append(old, snap)) /\ DOMAIN Append(old, snap) = 1 .. Len(old) + 1
      /\ Append(old, snap)[Len(old) + 1] = snap
      /\ \A k \in DOMAIN old : Append(old, snap)[k] = old[k]
  <2>1. IsSequence(old)
    BY <1>1 DEF GstInv, GstTypeOK
  <2> HIDE DEF old
  <2> QED
    BY <2>1, AppendToSequence
<1> DEFINE new == Append(old, snap)
<1>4. /\ DOMAIN returns' = DOMAIN returns
      /\ \A k \in DOMAIN returns : k # key => returns'[k] = returns[k]
      /\ returns'[key].bookSet = b /\ returns'[key].snapshots = new
      /\ DOMAIN returns'[key] = {"bookSet", "snapshots"}
  BY <1>1
<1> HIDE DEF new, row
<1>5. \A v \in DOMAIN new : (v \in DOMAIN old /\ new[v] = old[v]) \/ (v = Len(old) + 1 /\ new[v] = snap)
  BY <1>3 DEF new
<1>6. /\ \A v \in DOMAIN old : Snapshot(old[v])
      /\ \A v \in DOMAIN old : \A i \in old[v].ids :
           i \in Invoices /\ supplies[i].status # "DRAFT" /\ Covers(t, InvoiceOf(i).date)
           /\ InvoiceOf(i).bookSet = returns[key].bookSet
      /\ \A v \in DOMAIN old : old[v].readiness = "READY" => \A i \in old[v].ids : facts[i] = "LINES"
      /\ returns[key].bookSet = Absent => old = <<>>
  BY <1>1 DEF GstInv, GstTypeOK, SnapshotsArePosted, ReadyIsBacked, Snapshot
<1>7. \A v \in DOMAIN old : returns[key].bookSet = b
  BY <1>1, <1>6
<1> HIDE DEF old, key
<1>8. GstTypeOK'
  <2>1. \A v \in DOMAIN new : Snapshot(new[v])
    BY <1>2, <1>5, <1>6
  <2>2. IsSequence(new)
    BY <1>3 DEF new
  <2> QED
    BY <1>1, <1>4, <2>1, <2>2 DEF GstInv, GstTypeOK
<1>9. SnapshotsArePosted'
  <2>1. \A v \in DOMAIN new : \A i \in new[v].ids :
          /\ supplies[i].status # "DRAFT" /\ InvoiceOf(i).bookSet = b /\ Covers(t, InvoiceOf(i).date)
    BY <1>2, <1>5, <1>6, <1>7 DEF Snapshot
  <2>2. key[2] = t
    BY DEF key
  <2> QED
    BY <1>1, <1>4, <2>1, <2>2 DEF GstInv, SnapshotsArePosted
<1>10. UnpaidStay'
  <2>1. ASSUME NEW m \in DOMAIN new, NEW n \in DOMAIN new, m < n, NEW i \in new[m].ids, supplies[i].status = "POSTED"
        PROVE  i \in new[n].ids
    <3>1. m \in DOMAIN old /\ new[m] = old[m]
      BY <1>3, <1>5, <2>1 DEF new
    <3>2. CASE n \in DOMAIN old /\ new[n] = old[n]
      BY <1>1, <2>1, <3>1, <3>2 DEF GstInv, UnpaidStay, old
    <3>3. CASE n = Len(old) + 1 /\ new[n] = snap
      BY <1>2, <1>6, <1>7, <2>1, <3>1, <3>3
    <3> QED
      BY <1>5, <3>2, <3>3
  <2> QED
    BY <1>1, <1>4, <2>1 DEF GstInv, UnpaidStay
<1>11. ReadyIsBacked'
  <2>1. \A v \in DOMAIN new : new[v].readiness = "READY" => \A i \in new[v].ids : facts[i] = "LINES"
    BY <1>2, <1>5, <1>6
  <2> QED
    BY <1>1, <1>4, <2>1 DEF GstInv, ReadyIsBacked
<1> QED
  BY <1>8, <1>9, <1>10, <1>11 DEF GstInv

\* A snapshot is validated or exported: its sources stay.
LEMMA SnapshotMarked ==
  ASSUME GstInv, NEW key \in DOMAIN returns, NEW v \in DOMAIN returns[key].snapshots, NEW snap,
         Snapshot(snap), snap.ids = returns[key].snapshots[v].ids,
         snap.readiness = "READY" => \A i \in snap.ids : facts[i] = "LINES",
         returns' = [returns EXCEPT ![key].snapshots[v] = snap],
         UNCHANGED <<supplies, facts>>
  PROVE  GstInv'
<1> DEFINE old == returns[key].snapshots
           new == [old EXCEPT ![v] = snap]
           row == [returns[key] EXCEPT !.snapshots = new]
<1>1. /\ IsSequence(old) /\ DOMAIN returns[key] = {"bookSet", "snapshots"}
      /\ \A k \in DOMAIN old : Snapshot(old[k])
  BY DEF GstInv, GstTypeOK
<1>2. /\ IsSequence(new) /\ DOMAIN new = DOMAIN old
      /\ \A k \in DOMAIN old : new[k] = IF k = v THEN snap ELSE old[k]
  BY <1>1, ChangeInSequence
<1> HIDE DEF new
<1>3. row.bookSet = returns[key].bookSet /\ row.snapshots = new /\ DOMAIN row = {"bookSet", "snapshots"}
  BY <1>1
<1>4. returns' = [returns EXCEPT ![key] = row]
  BY DEF new
<1> HIDE DEF row
<1>5. /\ DOMAIN returns' = DOMAIN returns /\ returns'[key] = row
      /\ \A k \in DOMAIN returns : k # key => returns'[k] = returns[k]
  BY <1>4
<1>6. \A k \in DOMAIN old : Snapshot(new[k]) /\ new[k].ids = old[k].ids
  BY <1>1, <1>2
<1>7. GstTypeOK'
  BY <1>2, <1>3, <1>5, <1>6 DEF GstInv, GstTypeOK
<1>8. SnapshotsArePosted'
  <2>1. returns[key].bookSet = Absent => new = <<>>
    <3>1. returns[key].bookSet # Absent
      BY DEF GstInv, SnapshotsArePosted
    <3> QED
      BY <3>1
  <2> QED
    BY <1>2, <1>3, <1>5, <1>6, <2>1 DEF GstInv, SnapshotsArePosted
<1>9. UnpaidStay'
  BY <1>2, <1>3, <1>5, <1>6 DEF GstInv, UnpaidStay
<1>10. ReadyIsBacked'
  BY <1>2, <1>3, <1>5, <1>6 DEF GstInv, ReadyIsBacked
<1> QED
  BY <1>7, <1>8, <1>9, <1>10 DEF GstInv

\* Validating a version keeps it: only what has its line facts is marked ready.
LEMMA ValidateStep ==
  ASSUME GstInv, NEW r \in Registrations, NEW t \in Periods, NEW v, NEW day, ValidateReturn(r, t, v, day)
  PROVE  GstInv'
<1> DEFINE key == <<r, t>>
           old == returns[key].snapshots[v]
           readiness == Readiness(r, old, day)
           snap == [old EXCEPT !.readiness = readiness]
<1>1. /\ key \in DOMAIN returns /\ v \in DOMAIN returns[key].snapshots
      /\ Snapshot(old) /\ UNCHANGED <<supplies, facts>>
      /\ returns' = [returns EXCEPT ![key].snapshots[v].readiness = readiness]
  BY DEF GstInv, GstTypeOK, ValidateReturn
<1>2. readiness = "READY" => \A i \in old.ids : facts[i] = "LINES"
  BY DEF Readiness, Verdict
<1> HIDE DEF readiness
<1>3. /\ Snapshot(snap) /\ snap.ids = old.ids
      /\ snap.readiness = "READY" => \A i \in snap.ids : facts[i] = "LINES"
  BY <1>1, <1>2 DEF Snapshot
<1>4. returns' = [returns EXCEPT ![key].snapshots[v] = snap]
  BY <1>1
<1> HIDE DEF snap, key
<1> QED
  BY <1>1, <1>3, <1>4, SnapshotMarked

\* Exporting a review pack keeps it.
LEMMA ExportPackStep ==
  ASSUME GstInv, NEW r \in Registrations, NEW t \in Periods, NEW v, ExportReviewPack(r, t, v)
  PROVE  GstInv'
<1> DEFINE key == <<r, t>>
           old == returns[key].snapshots[v]
           snap == [old EXCEPT !.exported = TRUE]
<1>1. /\ key \in DOMAIN returns /\ v \in DOMAIN returns[key].snapshots
      /\ Snapshot(old) /\ UNCHANGED <<supplies, facts>>
      /\ returns' = [returns EXCEPT ![key].snapshots[v].exported = TRUE]
  BY DEF GstInv, GstTypeOK, ExportReviewPack
<1>2. old.readiness = "READY" => \A i \in old.ids : facts[i] = "LINES"
  BY <1>1 DEF GstInv, ReadyIsBacked
<1>3. /\ Snapshot(snap) /\ snap.ids = old.ids
      /\ snap.readiness = "READY" => \A i \in snap.ids : facts[i] = "LINES"
  BY <1>1, <1>2 DEF Snapshot
<1>4. returns' = [returns EXCEPT ![key].snapshots[v] = snap]
  BY <1>1
<1> HIDE DEF snap, key
<1> QED
  BY <1>1, <1>3, <1>4, SnapshotMarked

\* Steps of the other tables keep it.
LEMMA GstQuiet ==
  ASSUME GstInv, UNCHANGED <<supplies, facts, returns>>
  PROVE  GstInv'
<1>1. GstTypeOK'
  BY DEF GstInv, GstTypeOK
<1>2. SnapshotsArePosted' /\ UnpaidStay'
  BY DEF GstInv, SnapshotsArePosted, UnpaidStay
<1>3. ReadyIsBacked'
  BY DEF GstInv, ReadyIsBacked
<1> QED
  BY <1>1, <1>2, <1>3 DEF GstInv

\* Every step of the returns keeps the invariant.
LEMMA GstStep == GstInv /\ [GstNext]_gstVars => GstInv'
<1> SUFFICES ASSUME GstInv, [GstNext]_gstVars PROVE GstInv'
  OBVIOUS
<1>1. CASE \E r \in Registrations, p \in RegistrationPayloads : CreateRegistration(r, p)
  BY <1>1, GstQuiet DEF CreateRegistration
<1>2. CASE \E k \in Profiles, p \in ProfilePayloads : CreateProfile(k, p)
  BY <1>2, GstQuiet DEF CreateProfile
<1>3. ASSUME NEW i \in Invoices, NEW S, NEW l \in BOOLEAN, PostTaxed(i, S, l)
      PROVE  GstInv'
  <2>1. \E r, tax : supplies' = [supplies EXCEPT ![i] = [status |-> "POSTED", registration |-> r, tax |-> tax]]
    BY <1>3, Zenon DEF PostTaxed
  <2>2. supplies[i].status = "DRAFT" /\ UNCHANGED <<facts, returns>>
    BY <1>3 DEF PostTaxed
  <2>3. PICK r, tax : supplies' = [supplies EXCEPT ![i] = [status |-> "POSTED", registration |-> r, tax |-> tax]]
    BY <2>1
  <2> DEFINE row == [status |-> "POSTED", registration |-> r, tax |-> tax]
  <2>4. row.status = "POSTED" /\ DOMAIN row = {"status", "registration", "tax"}
    OBVIOUS
  <2> QED
    BY <2>2, <2>3, <2>4, SupplyMoves
<1>4. ASSUME NEW i \in Invoices, NEW status, status # "DRAFT", status = "POSTED" => supplies[i].status = "DRAFT",
             supplies' = [supplies EXCEPT ![i].status = status], UNCHANGED <<facts, returns>>
      PROVE  GstInv'
  <2> DEFINE row == [supplies[i] EXCEPT !.status = status]
  <2>1. DOMAIN supplies[i] = {"status", "registration", "tax"}
    BY DEF GstInv, GstTypeOK
  <2>2. DOMAIN row = {"status", "registration", "tax"} /\ row.status = status /\ supplies' = [supplies EXCEPT ![i] = row]
    BY <1>4, <2>1
  <2> HIDE DEF row
  <2> QED
    BY <1>4, <2>2, SupplyMoves
<1>5. CASE \E i \in Invoices : PostUntaxed(i)
  BY <1>4, <1>5 DEF PostUntaxed
<1>6. CASE \E i \in Invoices, st \in {"PARTIALLY_PAID", "PAID"} : Receive(i, st)
  BY <1>4, <1>6 DEF Receive
<1>7. CASE \E i \in Invoices, l \in BOOLEAN : RecordOutwardFacts(i, l)
  BY <1>7, FactsStep
<1>8. CASE \E i \in Invoices, r \in Registrations, t \in Periods : PrepareReturn(InvoiceOf(i).bookSet, r, t)
  BY <1>8, PrepareReturnStep
<1>9. CASE \E r \in Registrations, t \in Periods, v \in 1 .. MaxVersions :
             \/ \E d \in Dates : ValidateReturn(r, t, v, d)
             \/ ExportReviewPack(r, t, v)
  BY <1>9, ValidateStep, ExportPackStep
<1>10. CASE \E r \in Registrations, t \in Periods, n, e \in BOOLEAN : RecordObservation(r, t, n, e)
  BY <1>10, GstQuiet DEF RecordObservation
<1>11. CASE UNCHANGED gstVars
  BY <1>11, GstQuiet DEF gstVars
<1> QED
  BY <1>1, <1>2, <1>3, <1>5, <1>6, <1>7, <1>8, <1>9, <1>10, <1>11 DEF GstNext

\* The invariant holds in every reachable state of the returns.
THEOREM ReturnsHold == GstSpec => []GstInv
<1>1. GstInit => GstInv
  BY GstStarts
<1>2. GstInv /\ [GstNext]_gstVars => GstInv'
  BY GstStep
<1> QED
  BY <1>1, <1>2, PTL DEF GstSpec

\* Preparing again loses an invoice of an earlier snapshot only when money was received
\* for it in between, never one that is still wholly unpaid.
OnlySettlementDropsAnInvoice ==
  \A key \in DOMAIN returns : LET snaps == returns[key].snapshots IN
    \A m, n \in DOMAIN snaps : m < n =>
      \A i \in snaps[m].ids \ snaps[n].ids : supplies[i].status # "POSTED"

\* That a receipt takes an invoice out of a return is the defect of run GstDroppedInvoice;
\* nothing but a receipt does.
THEOREM SettlementDropsHold == GstSpec => []OnlySettlementDropsAnInvoice
<1>1. GstInv => OnlySettlementDropsAnInvoice
  BY DEF GstInv, UnpaidStay, OnlySettlementDropsAnInvoice
<1> QED
  BY <1>1, ReturnsHold, PTL

\* A return that is shown as ready has line facts behind every invoice in it.
THEOREM ShownReadyHolds == GstSpec => []ShownReadyIsBacked
<1>1. GstInv => ShownReadyIsBacked
  <2> SUFFICES ASSUME GstInv, NEW key \in DOMAIN returns
               PROVE  /\ \A v \in DOMAIN returns[key].snapshots : LET snap == returns[key].snapshots[v] IN
                            snap.exported /\ snap.readiness = "READY" => \A i \in snap.ids : facts[i] = "LINES"
                      /\ ReadinessReport(key[1], key[2]) = "READY" =>
                            \A i \in Last(returns[key].snapshots).ids : facts[i] = "LINES"
    BY DEF ShownReadyIsBacked
  <2> DEFINE snaps == returns[key].snapshots
  <2>1. \A v \in DOMAIN snaps : snaps[v].readiness = "READY" => \A i \in snaps[v].ids : facts[i] = "LINES"
    BY DEF GstInv, ReadyIsBacked
  <2>2. IsSequence(snaps) /\ key = <<key[1], key[2]>>
    BY DEF GstInv, GstTypeOK
  <2>3. ASSUME ReadinessReport(key[1], key[2]) = "READY"
        PROVE  \A i \in Last(snaps).ids : facts[i] = "LINES"
    <3>1. snaps # <<>> /\ Last(snaps).readiness = "READY"
      BY <2>2, <2>3 DEF ReadinessReport
    <3>2. Len(snaps) \in DOMAIN snaps /\ Last(snaps) = snaps[Len(snaps)]
      BY <2>2, <3>1, LastOfSequence
    <3> HIDE DEF snaps
    <3> QED
      BY <2>1, <3>1, <3>2
  <2> QED
    BY <2>1, <2>3
<1> QED
  BY <1>1, ReturnsHold, PTL

-----------------------------------------------------------------------------
(* Payroll: slips, pay runs and payment batches.                           *)

\* A row of a pay run: its figures are those of its lines, and what deductions take
\* besides the lines is not negative.
Slip(s) ==
  /\ DOMAIN s = {"employee", "lines", "gross", "deductions", "employer", "net", "rules"}
  /\ IsFiniteSet(DOMAIN s.lines) /\ \A i \in DOMAIN s.lines : s.lines[i].amount \in Int
  /\ s.gross = SumOf(s.lines, "EARNING")
  /\ s.employer = SumOf(s.lines, "EMPLOYER_CONTRIBUTION")
  /\ s.deductions \in Int
  /\ s.net = s.gross - s.deductions /\ s.net >= 0

\* The amount of component i, given those of the components before it.
Component(input, f, i) ==
  LET c == input.version.components
      base == IF c[i].of \in 1 .. i - 1 THEN f[c[i].of] ELSE 0
  IN Prorate(IF i \in DOMAIN input.variable THEN input.variable[i]
             ELSE IF c[i].basis = "FIXED_MINOR" THEN c[i].n ELSE RateOf(base, c[i].n),
             input.version.policy, input)

\* What the command and the salary version give for one employee is in range.
Input(input) ==
  /\ input.version.components \in Seq([kind : STRING, basis : STRING, n : Nat, of : Nat])
  /\ input.days \in Nat \ {0} /\ input.payable \in 0 .. input.days
  /\ \A k \in DOMAIN input.variable : input.variable[k] \in Nat

\* The amount of a component is an integer when those before it are.
LEMMA ComponentInt ==
  ASSUME NEW input, Input(input), NEW f, NEW i \in DOMAIN input.version.components,
         \A j \in 1 .. i - 1 : f[j] \in Int
  PROVE  Component(input, f, i) \in Int
<1> DEFINE c == input.version.components
           base == IF c[i].of \in 1 .. i - 1 THEN f[c[i].of] ELSE 0
           plain == IF i \in DOMAIN input.variable THEN input.variable[i]
                    ELSE IF c[i].basis = "FIXED_MINOR" THEN c[i].n ELSE RateOf(base, c[i].n)
           days == input.days
           payable == input.payable
<1>1. c[i] \in [kind : STRING, basis : STRING, n : Nat, of : Nat]
  <2> DEFINE Row == [kind : STRING, basis : STRING, n : Nat, of : Nat]
  <2>1. c \in Seq(Row)
    BY DEF Input
  <2> HIDE DEF Row, c
  <2>2. i \in DOMAIN c
    BY DEF c
  <2>3. c[i] \in Row
    BY <2>1, <2>2
  <2> QED
    BY <2>3 DEF Row
<1>2. base \in Int /\ c[i].n \in Nat
  BY <1>1
<1>3. RateOf(base, c[i].n) \in Int
  <2> HIDE DEF base
  <2>1. base * c[i].n \in Int
    BY <1>2
  <2> QED
    BY <2>1 DEF RateOf
<1>4. plain \in Int
  BY <1>2, <1>3 DEF Input
<1>5. Component(input, f, i) = Prorate(plain, input.version.policy, input)
  BY DEF Component
<1>6. days \in Nat \ {0} /\ payable \in Int
  BY DEF Input
<1> HIDE DEF plain, days, payable
<1>7. plain * payable \in Int /\ days \div 2 \in Int
  BY <1>4, <1>6
<1>8. (plain * payable + days \div 2) \div days \in Int
  <2> DEFINE a == plain * payable + days \div 2
  <2>1. a \in Int
    BY <1>7
  <2> HIDE DEF a
  <2>2. a \div days \in Int
    BY <2>1, <1>6
  <2> QED
    BY <2>2 DEF a
<1> QED
  BY <1>4, <1>5, <1>8 DEF Prorate, days, payable

\* It depends on the components before it only.
LEMMA ComponentLocal ==
  ASSUME NEW input, NEW f, NEW g, NEW i \in Nat, \A j \in 1 .. i - 1 : f[j] = g[j]
  PROVE  Component(input, f, i) = Component(input, g, i)
<1> DEFINE of == input.version.components[i].of
<1>1. (IF of \in 1 .. i - 1 THEN f[of] ELSE 0) = (IF of \in 1 .. i - 1 THEN g[of] ELSE 0)
  OBVIOUS
<1> QED
  BY <1>1 DEF Component

\* There is one function that computes the components in their order, and Amounts is it.
LEMMA AmountsUnfold ==
  ASSUME NEW input, Input(input)
  PROVE  /\ DOMAIN Amounts(input) = DOMAIN input.version.components
         /\ \A i \in DOMAIN input.version.components :
              Amounts(input)[i] = Component(input, Amounts(input), i)
<1> DEFINE c == input.version.components
           n == Len(c)
           P == {k \in 0 .. n : \E f : f = [i \in 1 .. k |-> Component(input, f, i)]}
<1>1. n \in Nat /\ DOMAIN c = 1 .. n
  BY DEF Input
<1>2. 0 \in P
  <2> DEFINE f == [i \in 1 .. 0 |-> 0]
  <2>1. f = [i \in 1 .. 0 |-> Component(input, f, i)]
    OBVIOUS
  <2> HIDE DEF f
  <2>2. \E g : g = [i \in 1 .. 0 |-> Component(input, g, i)]
    BY <2>1
  <2> HIDE DEF n
  <2>3. 0 \in 0 .. n
    BY <1>1
  <2> QED
    BY <2>2, <2>3
<1>3. ASSUME NEW k \in 0 .. n - 1, k \in P
      PROVE  k + 1 \in P
  <2>0. PICK f : \A i \in 1 .. k : f[i] = Component(input, f, i)
    <3>1. PICK f : f = [i \in 1 .. k |-> Component(input, f, i)]
      BY <1>3
    <3>2. \A i \in 1 .. k : f[i] = Component(input, f, i)
      BY <3>1
    <3> QED
      BY <3>2
  <2> DEFINE g == [i \in 1 .. k + 1 |-> Component(input, f, i)]
  <2>1. 1 .. k \subseteq 1 .. k + 1
    BY <1>1
  <2>2. \A i \in 1 .. k : g[i] = f[i]
    BY <2>0, <2>1
  <2>3. \A i \in 1 .. k + 1 : g[i] = Component(input, g, i)
    <3> TAKE i \in 1 .. k + 1
    <3>1. g[i] = Component(input, f, i)
      OBVIOUS
    <3> HIDE DEF g, n
    <3>2. i \in Nat /\ \A j \in 1 .. i - 1 : g[j] = f[j]
      <4>1. k \in Nat /\ i \in Nat /\ \A j \in 1 .. i - 1 : j \in 1 .. k
        BY <1>1
      <4> QED
        BY <4>1, <2>2
    <3> QED
      BY <3>1, <3>2, ComponentLocal
  <2>4. g = [i \in 1 .. k + 1 |-> Component(input, g, i)]
    BY <2>3
  <2> HIDE DEF g, n
  <2>5. \E h : h = [i \in 1 .. k + 1 |-> Component(input, h, i)]
    BY <2>4
  <2>6. k + 1 \in 0 .. n
    BY <1>1
  <2> QED
    BY <2>5, <2>6
<1>4. n \in P
  <2> HIDE DEF P, n
  <2> QED BY <1>1, <1>2, <1>3, StepwiseInduction
<1>5. \E f : f = [i \in DOMAIN c |-> Component(input, f, i)]
  BY <1>1, <1>4
<1>6. Amounts(input) = CHOOSE f : f = [i \in DOMAIN c |-> Component(input, f, i)]
  BY DEF Amounts, Component
<1> QED
  BY <1>5, <1>6

\* So every component has an integer amount.
LEMMA AmountsInt ==
  ASSUME NEW input, Input(input)
  PROVE  \A i \in DOMAIN input.version.components : Amounts(input)[i] \in Int
<1> DEFINE n == Len(input.version.components)
           f == Amounts(input)
           P == {k \in 0 .. n : \A i \in 1 .. k : f[i] \in Int}
<1>1. n \in Nat /\ DOMAIN input.version.components = 1 .. n
  BY DEF Input
<1>2. 0 \in P
  BY <1>1
<1>3. ASSUME NEW k \in 0 .. n - 1, k \in P
      PROVE  k + 1 \in P
  <2>1. f[k + 1] = Component(input, f, k + 1) /\ k + 1 \in DOMAIN input.version.components
    BY <1>1, AmountsUnfold
  <2>2. \A j \in 1 .. (k + 1) - 1 : f[j] \in Int
    BY <1>3, <1>1
  <2> HIDE DEF f
  <2>3. f[k + 1] \in Int
    BY <2>1, <2>2, ComponentInt
  <2> QED
    BY <2>3, <1>1, <1>3
<1>4. n \in P
  <2> HIDE DEF P, n
  <2> QED BY <1>1, <1>2, <1>3, StepwiseInduction
<1> QED
  BY <1>1, <1>4

\* The lines of a kind add up to an integer.
LEMMA SumOfInt ==
  ASSUME NEW lines, IsFiniteSet(DOMAIN lines), \A i \in DOMAIN lines : lines[i].amount \in Int, NEW kind
  PROVE  SumOf(lines, kind) \in Int
<1> DEFINE f == [i \in DOMAIN lines |-> lines[i].amount]
           S == {i \in DOMAIN lines : lines[i].kind = kind}
<1>1. IsFiniteSet(S) /\ \A i \in S : f[i] \in Int
  BY FS_Subset
<1>2. SumFunctionOnSet(f, S) \in Int
  <2> HIDE DEF f, S
  <2> QED BY <1>1, SumInt
<1> QED
  BY <1>2 DEF SumOf

\* What is summed over the lines does not depend on their order.
LEMMA SumOfReordered ==
  ASSUME NEW lines, IsFiniteSet(DOMAIN lines), \A i \in DOMAIN lines : lines[i].amount \in Int, NEW kind,
         NEW order \in Bijection(DOMAIN lines, DOMAIN lines)
  PROVE  SumOf([i \in DOMAIN lines |-> lines[order[i]]], kind) = SumOf(lines, kind)
<1> DEFINE D == DOMAIN lines
           rows == [i \in D |-> lines[order[i]]]
           g == [i \in D |-> lines[i].amount]
           f == [i \in D |-> rows[i].amount]
           S == {i \in D : rows[i].kind = kind}
           T == {i \in D : lines[i].kind = kind}
<1>1. /\ \A i \in D : order[i] \in D
      /\ \A i, j \in D : order[i] = order[j] => i = j
      /\ \A k \in D : \E i \in D : order[i] = k
  BY DEF Bijection, Injection, Surjection, IsInjective
<1>2. IsFiniteSet(S)
  BY FS_Subset
<1>3. \A i \in S : f[i] \in Int /\ g[order[i]] = f[i]
  BY <1>1
<1>4. T = {order[i] : i \in S}
  <2>1. \A k \in T : \E i \in S : k = order[i]
    BY <1>1
  <2>2. \A i \in S : order[i] \in T
    BY <1>1
  <2> HIDE DEF T, S
  <2> QED
    BY <2>1, <2>2
<1>5. \A i, j \in S : order[i] = order[j] => i = j
  BY <1>1
<1>6. SumFunctionOnSet(g, {order[i] : i \in S}) = SumFunctionOnSet(f, S)
  <2> HIDE DEF f, g, S
  <2> QED BY <1>2, <1>3, <1>5, SumRename
<1>7. SumFunctionOnSet(g, T) = SumFunctionOnSet(f, S)
  BY <1>4, <1>6
<1>8. DOMAIN rows = D
  OBVIOUS
<1> QED
  BY <1>7, <1>8 DEF SumOf

\* A computed row is consistent: its figures are those of its lines.
LEMMA SlipComputed ==
  ASSUME NEW input, Input(input), IsFiniteSet(input.rules), \A rule \in input.rules : rule.allocation \in Nat,
         SlipOf(input).net >= 0
  PROVE  Slip(SlipOf(input)) /\ DOMAIN SlipOf(input).lines = DOMAIN input.version.components
<1> DEFINE c == input.version.components
           lines == [i \in DOMAIN c |-> [code |-> i, kind |-> c[i].kind, amount |-> Amounts(input)[i]]]
           gross == SumOf(lines, "EARNING")
           deductions == SumOf(lines, "EMPLOYEE_DEDUCTION") + TdsByRule(input.rules)
           s == SlipOf(input)
<1>1. /\ DOMAIN s = {"employee", "lines", "gross", "deductions", "employer", "net", "rules"}
      /\ s.lines = lines /\ s.gross = gross /\ s.employer = SumOf(lines, "EMPLOYER_CONTRIBUTION")
      /\ s.deductions = deductions /\ s.net = gross - deductions
  BY DEF SlipOf
<1>2. IsFiniteSet(DOMAIN lines)
  <2>1. DOMAIN lines = 1 .. Len(c) /\ Len(c) \in Nat
    BY DEF Input
  <2> QED
    BY <2>1, FS_Interval
<1>3. \A i \in DOMAIN lines : lines[i].amount \in Int
  BY AmountsInt
<1>4. TdsByRule(input.rules) \in Int
  <2> DEFINE f == [rule \in input.rules |-> rule.allocation]
             S == TdsRules(input.rules)
  <2>1. IsFiniteSet(S) /\ \A rule \in S : f[rule] \in Int
    BY FS_Subset DEF TdsRules
  <2>2. SumFunctionOnSet(f, S) \in Int
    <3> HIDE DEF f, S
    <3> QED BY <2>1, SumInt
  <2> QED
    BY <2>2 DEF TdsByRule
<1>5. SumOf(lines, "EMPLOYEE_DEDUCTION") \in Int
  <2> HIDE DEF lines
  <2> QED BY <1>2, <1>3, SumOfInt
<1>6. DOMAIN lines = DOMAIN c
  OBVIOUS
<1> HIDE DEF lines, s
<1> QED
  BY <1>1, <1>2, <1>3, <1>4, <1>5, <1>6 DEF Slip, s

\* So is the row with its lines in the order of their ids.
LEMMA SlipReordered ==
  ASSUME NEW s, Slip(s), NEW order \in Bijection(DOMAIN s.lines, DOMAIN s.lines)
  PROVE  Slip(InRowOrder(s, order))
<1> DEFINE lines == s.lines
           rows == [i \in DOMAIN lines |-> lines[order[i]]]
           t == InRowOrder(s, order)
<1>1. /\ DOMAIN t = DOMAIN s /\ t.lines = rows /\ t.gross = s.gross /\ t.employer = s.employer
      /\ t.deductions = s.deductions /\ t.net = s.net
  BY DEF Slip, InRowOrder
<1>2. \A i \in DOMAIN lines : order[i] \in DOMAIN lines
  BY DEF Bijection, Injection
<1>3. IsFiniteSet(DOMAIN lines) /\ \A i \in DOMAIN lines : lines[i].amount \in Int
  BY DEF Slip
<1>4. \A kind : SumOf(rows, kind) = SumOf(lines, kind)
  <2> TAKE kind
  <2> HIDE DEF lines
  <2> QED BY <1>3, SumOfReordered DEF lines
<1>5. IsFiniteSet(DOMAIN rows) /\ \A i \in DOMAIN rows : rows[i].amount \in Int
  BY <1>2, <1>3
<1>6. Slip(s) /\ SumOf(rows, "EARNING") = SumOf(s.lines, "EARNING")
              /\ SumOf(rows, "EMPLOYER_CONTRIBUTION") = SumOf(s.lines, "EMPLOYER_CONTRIBUTION")
  BY <1>4
<1> HIDE DEF rows, t
<1> QED
  BY <1>1, <1>5, <1>6 DEF Slip, t

-----------------------------------------------------------------------------
\* A figure of the rows of a run, and of the runs that are posted.
Figures == {"gross", "employer", "deductions", "net"}
PostedIn(table) == {r \in Runs : table[r].status = "POSTED"}
OfSlips(slips, x) == SumFunctionOnSet([i \in DOMAIN slips |-> slips[i][x]], DOMAIN slips)
OfRuns(table, x) == SumFunctionOnSet([r \in Runs |-> OfSlips(table[r].slips, x)], PostedIn(table))

\* A payment batch, the rows of a run, and the tables they are in.
Batch == [pays : {s \in Seq(Pays) : Len(s) <= MaxRows}, exported : BOOLEAN]

Slips(slips) == IsFiniteSet(DOMAIN slips) /\ \A i \in DOMAIN slips : Slip(slips[i])

PayrollTypeOK ==
  /\ salaries \subseteq Versions /\ payRules \subseteq Rules
  /\ DOMAIN payRuns = Runs
  /\ \A r \in Runs : DOMAIN payRuns[r] = {"status", "period", "slips", "hash"} /\ Slips(payRuns[r].slips)
  /\ batches \in Seq(Batch)
  /\ DOMAIN payBalance = PayAccounts /\ \A a \in PayAccounts : payBalance[a] \in Int

\* Each account is what the rows of the posted runs add to it.
PayTied ==
  /\ payBalance["Expense"] = OfRuns(payRuns, "gross") + OfRuns(payRuns, "employer")
  /\ payBalance["Deductions"] = 0 - OfRuns(payRuns, "deductions")
  /\ payBalance["NetPayable"] = 0 - OfRuns(payRuns, "net")

\* Only rows of posted runs are ever paid out.
PaysArePosted ==
  \A b \in DOMAIN batches : \A j \in DOMAIN batches[b].pays : batches[b].pays[j].run \in PostedIn(payRuns)

\* What every step of the payroll preserves.
PayrollInv == PayrollTypeOK /\ PayTied /\ PaysArePosted /\ PayslipsAreNotOverpaid

-----------------------------------------------------------------------------
\* The figures of a row are integers.
LEMMA SlipFigures ==
  ASSUME NEW s, Slip(s), NEW x \in Figures
  PROVE  s[x] \in Int
<1>1. SumOf(s.lines, "EARNING") \in Int /\ SumOf(s.lines, "EMPLOYER_CONTRIBUTION") \in Int
  BY SumOfInt DEF Slip
<1> QED
  BY <1>1 DEF Slip, Figures

\* So are those of a run.
LEMMA OfSlipsInt ==
  ASSUME NEW slips, Slips(slips), NEW x \in Figures
  PROVE  OfSlips(slips, x) \in Int
<1> DEFINE f == [i \in DOMAIN slips |-> slips[i][x]]
<1>1. IsFiniteSet(DOMAIN slips) /\ \A i \in DOMAIN slips : f[i] \in Int
  BY SlipFigures DEF Slips
<1> HIDE DEF f
<1>2. SumFunctionOnSet(f, DOMAIN slips) \in Int
  BY <1>1, SumInt
<1> QED
  BY <1>2 DEF OfSlips, f

\* And those of the posted runs together.
LEMMA OfRunsInt ==
  ASSUME PayrollTypeOK, NEW x \in Figures
  PROVE  OfRuns(payRuns, x) \in Int /\ IsFiniteSet(PostedIn(payRuns))
<1> DEFINE f == [r \in Runs |-> OfSlips(payRuns[r].slips, x)]
           S == PostedIn(payRuns)
<1>1. IsFiniteSet(S) /\ S \subseteq Runs
  BY FS_Subset, PayrollAssumption DEF PostedIn
<1>2. \A r \in Runs : f[r] \in Int
  BY OfSlipsInt DEF PayrollTypeOK
<1> HIDE DEF f, S
<1>3. SumFunctionOnSet(f, S) \in Int
  BY <1>1, <1>2, SumInt
<1> QED
  BY <1>1, <1>3 DEF OfRuns, f, S

\* What is not posted does not enter the figures.
LEMMA OfRunsKeep ==
  ASSUME PayrollTypeOK, NEW table, PostedIn(table) = PostedIn(payRuns),
         \A r \in PostedIn(payRuns) : table[r].slips = payRuns[r].slips, NEW x \in Figures
  PROVE  OfRuns(table, x) = OfRuns(payRuns, x)
<1> DEFINE f == [r \in Runs |-> OfSlips(payRuns[r].slips, x)]
           g == [r \in Runs |-> OfSlips(table[r].slips, x)]
           S == PostedIn(payRuns)
<1>1. IsFiniteSet(S) /\ S \subseteq Runs
  BY FS_Subset, PayrollAssumption DEF PostedIn
<1>2. \A r \in S : f[r] \in Int /\ f[r] = g[r]
  BY <1>1, OfSlipsInt DEF PayrollTypeOK
<1> HIDE DEF f, g, S
<1>3. SumFunctionOnSet(f, S) = SumFunctionOnSet(g, S)
  BY <1>1, <1>2, SumEqual
<1> QED
  BY <1>3 DEF OfRuns, f, g, S

\* A run that becomes posted adds its figures.
LEMMA OfRunsPost ==
  ASSUME PayrollTypeOK, NEW r \in Runs, payRuns[r].status # "POSTED", NEW x \in Figures
  PROVE  OfRuns([payRuns EXCEPT ![r].status = "POSTED"], x) = OfRuns(payRuns, x) + OfSlips(payRuns[r].slips, x)
<1> DEFINE table == [payRuns EXCEPT ![r].status = "POSTED"]
           f == [q \in Runs |-> OfSlips(payRuns[q].slips, x)]
           g == [q \in Runs |-> OfSlips(table[q].slips, x)]
           S == PostedIn(payRuns)
<1>1. IsFiniteSet(S) /\ S \subseteq Runs /\ r \notin S
  BY FS_Subset, PayrollAssumption DEF PostedIn
<1>2. \A q \in Runs : f[q] \in Int
  BY OfSlipsInt DEF PayrollTypeOK
<1>3. \A q \in Runs : table[q].slips = payRuns[q].slips /\ table[q].status = IF q = r THEN "POSTED" ELSE payRuns[q].status
  BY DEF PayrollTypeOK
<1>4. PostedIn(table) = S \cup {r}
  <2> HIDE DEF table
  <2> QED BY <1>3 DEF PostedIn
<1>5. g = f
  <2> HIDE DEF table
  <2> QED BY <1>3
<1>6. SumFunctionOnSet(f, S \cup {r}) = f[r] + SumFunctionOnSet(f, S)
  <2> HIDE DEF f, S
  <2> QED BY <1>1, <1>2, SumAdd
<1>7. SumFunctionOnSet(f, S) \in Int /\ f[r] \in Int
  <2>1. f[r] \in Int
    BY <1>2
  <2> HIDE DEF f, S
  <2> QED BY <2>1, <1>1, <1>2, SumInt
<1>8. OfRuns(table, x) = SumFunctionOnSet(f, S \cup {r})
  BY <1>4, <1>5 DEF OfRuns
<1>9. OfRuns(payRuns, x) = SumFunctionOnSet(f, S) /\ f[r] = OfSlips(payRuns[r].slips, x)
  BY DEF OfRuns
<1> HIDE DEF f, S, table
<1> QED
  BY <1>6, <1>7, <1>8, <1>9 DEF table

\* The lines of the journal, added up.
LEMMA FourSum ==
  ASSUME NEW f, \A a \in PayAccounts : f[a] \in Int
  PROVE  SumFunctionOnSet(f, PayAccounts) = f["Expense"] + f["Deductions"] + f["Employer"] + f["NetPayable"]
<1> DEFINE A == {"Expense"}
           B == A \cup {"Deductions"}
           C == B \cup {"Employer"}
           D == C \cup {"NetPayable"}
<1>1. D = PayAccounts /\ "Deductions" \notin A /\ "Employer" \notin B /\ "NetPayable" \notin C
  BY DEF PayAccounts
<1>2. IsFiniteSet(A) /\ IsFiniteSet(B) /\ IsFiniteSet(C)
  BY FS_Singleton, FS_AddElement
<1>3. SumFunctionOnSet(f, A) = f["Expense"] + 0
  <2>1. {} \cup {"Expense"} = A
    OBVIOUS
  <2>2. IsFiniteSet({}) /\ "Expense" \notin {} /\ f["Expense"] \in Int
    BY FS_EmptySet DEF PayAccounts
  <2> HIDE DEF A
  <2> QED BY <2>1, <2>2, SumAdd, SumEmpty
<1>4. \A y \in D : f[y] \in Int
  BY <1>1
<1>5. SumFunctionOnSet(f, B) = f["Deductions"] + SumFunctionOnSet(f, A)
  <2>1. \A y \in B : f[y] \in Int
    BY <1>4
  <2> HIDE DEF A
  <2> QED BY <2>1, <1>1, <1>2, SumAdd
<1>6. SumFunctionOnSet(f, C) = f["Employer"] + SumFunctionOnSet(f, B)
  <2>1. \A y \in C : f[y] \in Int
    BY <1>4
  <2> HIDE DEF B
  <2> QED BY <2>1, <1>1, <1>2, SumAdd
<1>7. SumFunctionOnSet(f, D) = f["NetPayable"] + SumFunctionOnSet(f, C)
  <2> HIDE DEF C
  <2> QED BY <1>4, <1>1, <1>2, SumAdd
<1>8. f["Expense"] \in Int /\ f["Deductions"] \in Int /\ f["Employer"] \in Int /\ f["NetPayable"] \in Int
  BY DEF PayAccounts
<1> HIDE DEF A, B, C, D
<1> QED
  BY <1>1, <1>3, <1>5, <1>6, <1>7, <1>8

\* The journal of a run says what its rows say, if it balances.
LEMMA JournalOfRows ==
  ASSUME NEW slips, Slips(slips), SumFunction(PayJournal(slips)) = 0
  PROVE  /\ \A a \in PayAccounts : PayJournal(slips)[a] \in Int
         /\ PayJournal(slips)["Expense"] = OfSlips(slips, "gross") + OfSlips(slips, "employer")
         /\ PayJournal(slips)["Deductions"] = 0 - OfSlips(slips, "deductions")
         /\ PayJournal(slips)["NetPayable"] = 0 - OfSlips(slips, "net")
<1> DEFINE D == DOMAIN slips
           line(kind) == [i \in D |-> SumOf(slips[i].lines, kind)]
           row(x) == [i \in D |-> slips[i][x]]
           sum(kind) == SumFunctionOnSet(line(kind), D)
           j == PayJournal(slips)
<1>1. IsFiniteSet(D) /\ \A i \in D : Slip(slips[i])
  BY DEF Slips
<1>2. \A kind : \A i \in D : line(kind)[i] \in Int
  <2> TAKE kind
  <2>1. \A i \in D : SumOf(slips[i].lines, kind) \in Int
    BY <1>1, SumOfInt DEF Slip
  <2> QED
    BY <2>1
<1>3. \A x \in Figures : \A i \in D : row(x)[i] \in Int
  BY <1>1, SlipFigures
<1>4. /\ DOMAIN j = PayAccounts
      /\ j["Expense"] = sum("EARNING") + sum("EMPLOYER_CONTRIBUTION")
      /\ j["Deductions"] = -sum("EMPLOYEE_DEDUCTION")
      /\ j["Employer"] = -sum("EMPLOYER_CONTRIBUTION")
      /\ j["NetPayable"] = -OfSlips(slips, "net")
  BY DEF PayJournal, SumSlips, SumFunction, PayableOf, OfSlips, PayAccounts
<1>5. \A kind : sum(kind) \in Int
  <2> TAKE kind
  <2>1. \A i \in D : line(kind)[i] \in Int
    BY <1>2
  <2> HIDE DEF line, D
  <2> QED BY <2>1, <1>1, SumInt
<1>6. sum("EARNING") = OfSlips(slips, "gross")
  <2>1. \A i \in D : line("EARNING")[i] \in Int /\ line("EARNING")[i] = row("gross")[i]
    BY <1>1, <1>2 DEF Slip
  <2> HIDE DEF line, row, D
  <2>2. SumFunctionOnSet(line("EARNING"), D) = SumFunctionOnSet(row("gross"), D)
    BY <2>1, <1>1, SumEqual
  <2> QED
    BY <2>2 DEF OfSlips, row, D
<1>7. sum("EMPLOYER_CONTRIBUTION") = OfSlips(slips, "employer")
  <2> DEFINE l == line("EMPLOYER_CONTRIBUTION")
  <2>1. \A i \in D : l[i] \in Int /\ l[i] = row("employer")[i]
    BY <1>1, <1>2 DEF Slip
  <2> HIDE DEF l, row, D
  <2>2. SumFunctionOnSet(l, D) = SumFunctionOnSet(row("employer"), D)
    BY <2>1, <1>1, SumEqual
  <2> QED
    BY <2>2 DEF OfSlips, row, D, l
<1>8. OfSlips(slips, "net") = OfSlips(slips, "gross") - OfSlips(slips, "deductions")
  <2>1. \A i \in D : /\ row("gross")[i] \in Int /\ row("deductions")[i] \in Int
                     /\ row("net")[i] = row("gross")[i] - row("deductions")[i]
    <3> TAKE i \in D
    <3>1. row("gross")[i] \in Int /\ row("deductions")[i] \in Int
      BY <1>3 DEF Figures
    <3> QED
      BY <3>1, <1>1 DEF Slip
  <2> HIDE DEF row, D
  <2>2. SumFunctionOnSet(row("net"), D) = SumFunctionOnSet(row("gross"), D) - SumFunctionOnSet(row("deductions"), D)
    BY <2>1, <1>1, SumMinus
  <2> QED
    BY <2>2 DEF OfSlips, row, D
<1>9. /\ OfSlips(slips, "gross") \in Int /\ OfSlips(slips, "employer") \in Int
      /\ OfSlips(slips, "deductions") \in Int /\ OfSlips(slips, "net") \in Int
  BY OfSlipsInt DEF Figures
<1>10. \A a \in PayAccounts : j[a] \in Int
  <2>1. /\ sum("EARNING") \in Int /\ sum("EMPLOYER_CONTRIBUTION") \in Int /\ sum("EMPLOYEE_DEDUCTION") \in Int
    BY <1>5
  <2> HIDE DEF sum, j
  <2>2. j["Expense"] \in Int /\ j["Deductions"] \in Int /\ j["Employer"] \in Int /\ j["NetPayable"] \in Int
    BY <2>1, <1>4, <1>9
  <2> QED
    BY <2>2 DEF PayAccounts
<1>11. j["Expense"] + j["Deductions"] + j["Employer"] + j["NetPayable"] = 0
  <2>1. SumFunction(j) = SumFunctionOnSet(j, PayAccounts)
    BY <1>4 DEF SumFunction
  <2> HIDE DEF j
  <2>2. SumFunctionOnSet(j, PayAccounts) = j["Expense"] + j["Deductions"] + j["Employer"] + j["NetPayable"]
    BY <1>10, FourSum
  <2> QED
    BY <2>1, <2>2 DEF j
<1>12. sum("EMPLOYEE_DEDUCTION") \in Int
  BY <1>5
<1> HIDE DEF sum, j
<1> QED
  BY <1>4, <1>6, <1>7, <1>8, <1>9, <1>10, <1>11, <1>12 DEF j

-----------------------------------------------------------------------------
(* What was paid out on a row. *)

\* The places of the allocations on a row, the amount at a place, and their sum.
PaysOf(seq, r, i) ==
  UNION {{<<b, j>> : j \in {j \in DOMAIN seq[b].pays : seq[b].pays[j].run = r /\ seq[b].pays[j].row = i}} :
         b \in DOMAIN seq}
AmountAt(seq, x) == seq[x[1]].pays[x[2]].amount
PaidOf(seq, r, i) == SumFunctionOnSet([x \in PaysOf(seq, r, i) |-> AmountAt(seq, x)], PaysOf(seq, r, i))

\* An allocation on a row, found by its batch and its place.
LEMMA PaysOfMember ==
  ASSUME NEW seq, NEW r, NEW i, NEW x
  PROVE  x \in PaysOf(seq, r, i) <=>
           \E b \in DOMAIN seq : \E j \in DOMAIN seq[b].pays :
             x = <<b, j>> /\ seq[b].pays[j].run = r /\ seq[b].pays[j].row = i
BY DEF PaysOf

\* The allocations of a batch are well formed.
LEMMA BatchPays ==
  ASSUME NEW seq \in Seq(Batch), NEW b \in DOMAIN seq
  PROVE  /\ seq[b].pays \in Seq(Pays) /\ DOMAIN seq[b].pays = 1 .. Len(seq[b].pays)
         /\ DOMAIN seq[b].pays \subseteq 1 .. MaxRows
         /\ \A j \in DOMAIN seq[b].pays : /\ seq[b].pays[j].run \in Runs /\ seq[b].pays[j].amount \in Nat
<1>1. seq[b] \in Batch
  OBVIOUS
<1>2. seq[b].pays \in Seq(Pays) /\ Len(seq[b].pays) <= MaxRows
  BY <1>1 DEF Batch
<1> DEFINE s == seq[b].pays
<1> HIDE DEF s
<1>3. Len(s) \in Nat /\ DOMAIN s = 1 .. Len(s) /\ \A j \in DOMAIN s : s[j] \in Pays
  BY <1>2 DEF s
<1>4. \A j \in DOMAIN s : s[j].run \in Runs /\ s[j].amount \in 1 .. MaxPayment
  BY <1>3 DEF Pays
<1>5. DOMAIN s \subseteq 1 .. MaxRows
  BY <1>2, <1>3, PayrollAssumption DEF s
<1>6. \A j \in DOMAIN s : s[j].amount \in Nat
  BY <1>4, PayrollAssumption
<1> QED
  BY <1>2, <1>3, <1>4, <1>5, <1>6 DEF s

\* The allocations on a row are finitely many, with integer amounts.
LEMMA PaysFinite ==
  ASSUME NEW seq \in Seq(Batch), NEW r, NEW i
  PROVE  /\ IsFiniteSet(PaysOf(seq, r, i))
         /\ \A x \in PaysOf(seq, r, i) : AmountAt(seq, x) \in Int
<1>1. IsFiniteSet((1 .. Len(seq)) \X (1 .. MaxRows))
  <2>1. IsFiniteSet(1 .. Len(seq)) /\ IsFiniteSet(1 .. MaxRows)
    BY FS_Interval, PayrollAssumption
  <2> QED
    BY <2>1, FS_Product
<1>2. PaysOf(seq, r, i) \subseteq (1 .. Len(seq)) \X (1 .. MaxRows)
  <2> SUFFICES ASSUME NEW x \in PaysOf(seq, r, i) PROVE x \in (1 .. Len(seq)) \X (1 .. MaxRows)
    OBVIOUS
  <2>1. PICK b \in DOMAIN seq : \E j \in DOMAIN seq[b].pays : x = <<b, j>>
    BY PaysOfMember
  <2> QED
    BY <2>1, BatchPays
<1>3. ASSUME NEW x \in PaysOf(seq, r, i)
      PROVE  AmountAt(seq, x) \in Int
  <2>1. PICK b \in DOMAIN seq : \E j \in DOMAIN seq[b].pays : x = <<b, j>>
    BY PaysOfMember
  <2>2. PICK j \in DOMAIN seq[b].pays : x = <<b, j>>
    BY <2>1
  <2>3. seq[b].pays[j].amount \in Nat
    BY BatchPays
  <2> QED
    BY <2>2, <2>3 DEF AmountAt
<1> QED
  BY <1>1, <1>2, <1>3, FS_Subset

\* What the query for earlier allocations returns, before and after a step.
LEMMA AllocatedSum ==
  ASSUME NEW r, NEW i
  PROVE  Allocated(r, i) = PaidOf(batches, r, i) /\ Allocated(r, i)' = PaidOf(batches', r, i)
BY DEF Allocated, PaidOf, PaysOf, AmountAt

\* The rows a batch names are distinct.
DistinctRows(pays) == IsInjective([j \in DOMAIN pays |-> <<pays[j].run, pays[j].row>>])

\* A batch adds to a row at most the one amount it names for it.
LEMMA PaidByBatch ==
  ASSUME NEW seq \in Seq(Batch), NEW pays \in Seq(Pays), Len(pays) <= MaxRows,
         DistinctRows(pays),
         NEW later \in Seq(Batch), Len(later) = Len(seq) + 1, later[Len(seq) + 1].pays = pays,
         \A b \in 1 .. Len(seq) : later[b] = seq[b], NEW r, NEW i
  PROVE  \/ PaidOf(later, r, i) = PaidOf(seq, r, i)
         \/ \E j \in DOMAIN pays : /\ pays[j].run = r /\ pays[j].row = i
                                   /\ PaidOf(later, r, i) = pays[j].amount + PaidOf(seq, r, i)
<1> DEFINE n == Len(seq)
           old == PaysOf(seq, r, i)
           new == PaysOf(later, r, i)
           f == [x \in old |-> AmountAt(seq, x)]
           g == [x \in new |-> AmountAt(later, x)]
           mine == {j \in DOMAIN pays : pays[j].run = r /\ pays[j].row = i}
<1>1. n \in Nat /\ DOMAIN seq = 1 .. n /\ DOMAIN later = 1 .. n + 1
  OBVIOUS
<1>2. /\ DOMAIN seq = 1 .. n /\ DOMAIN later = 1 .. n + 1 /\ n \in Nat
      /\ \A b \in 1 .. n : later[b] = seq[b]
      /\ later[n + 1].pays = pays
  BY <1>1
<1>4. \A x \in old : x \in new /\ AmountAt(later, x) = AmountAt(seq, x)
  <2> SUFFICES ASSUME NEW x \in old PROVE x \in new /\ AmountAt(later, x) = AmountAt(seq, x)
    OBVIOUS
  <2>1. PICK b \in DOMAIN seq : \E j \in DOMAIN seq[b].pays :
                                  x = <<b, j>> /\ seq[b].pays[j].run = r /\ seq[b].pays[j].row = i
    BY PaysOfMember
  <2>2. later[b] = seq[b] /\ b \in DOMAIN later
    BY <1>2
  <2>3. x \in PaysOf(later, r, i)
    BY <2>1, <2>2, PaysOfMember
  <2>4. x[1] = b
    BY <2>1
  <2> QED
    BY <2>2, <2>3, <2>4 DEF AmountAt
<1>5. \A x \in new : x \in old \/ \E j \in mine : x = <<n + 1, j>>
  <2> SUFFICES ASSUME NEW x \in new PROVE x \in old \/ \E j \in mine : x = <<n + 1, j>>
    OBVIOUS
  <2>1. PICK b \in DOMAIN later : \E j \in DOMAIN later[b].pays :
                                   x = <<b, j>> /\ later[b].pays[j].run = r /\ later[b].pays[j].row = i
    BY PaysOfMember
  <2>2. CASE b = n + 1
    BY <2>1, <2>2, <1>2
  <2>3. CASE b \in 1 .. n
    <3>1. later[b] = seq[b] /\ b \in DOMAIN seq
      BY <2>3, <1>2
    <3> QED
      BY <2>1, <3>1, PaysOfMember
  <2> QED
    BY <2>2, <2>3, <1>2
<1>6. \A j \in mine : <<n + 1, j>> \in new /\ <<n + 1, j>> \notin old
                     /\ AmountAt(later, <<n + 1, j>>) = pays[j].amount
  <2> TAKE j \in mine
  <2>1. <<n + 1, j>> \in new
    BY <1>2, PaysOfMember
  <2>2. <<n + 1, j>> \notin old
    BY <1>2, PaysOfMember
  <2> QED
    BY <2>1, <2>2, <1>2 DEF AmountAt
<1>7. \A j, k \in mine : j = k
  <2> DEFINE rows == [j \in DOMAIN pays |-> <<pays[j].run, pays[j].row>>]
  <2> TAKE j, k \in mine
  <2>1. rows[j] = rows[k] /\ j \in DOMAIN rows /\ k \in DOMAIN rows
    OBVIOUS
  <2>2. IsInjective(rows)
    BY DEF DistinctRows
  <2> HIDE DEF rows
  <2> QED BY <2>1, <2>2 DEF IsInjective
<1>8. IsFiniteSet(old) /\ IsFiniteSet(new) /\ (\A x \in old : f[x] \in Int) /\ \A x \in new : g[x] \in Int
  <2>1. /\ IsFiniteSet(PaysOf(seq, r, i)) /\ \A x \in PaysOf(seq, r, i) : AmountAt(seq, x) \in Int
        /\ IsFiniteSet(PaysOf(later, r, i)) /\ \A x \in PaysOf(later, r, i) : AmountAt(later, x) \in Int
    BY <1>2, PaysFinite
  <2> QED
    BY <2>1
<1>9. \A x \in old : f[x] = g[x]
  BY <1>4
<1>10. PaidOf(seq, r, i) = SumFunctionOnSet(f, old)
  BY DEF PaidOf
<1>11. PaidOf(later, r, i) = SumFunctionOnSet(g, new)
  BY DEF PaidOf
<1>12. \A j \in mine : g[<<n + 1, j>>] = pays[j].amount
  BY <1>6
<1> HIDE DEF f, g, old, new
<1>13. SumFunctionOnSet(f, old) = SumFunctionOnSet(g, old)
  BY <1>8, <1>9, SumEqual
<1>14. CASE mine = {}
  <2>1. new = old
    BY <1>14, <1>4, <1>5
  <2> QED
    BY <2>1, <1>10, <1>11, <1>13
<1>15. CASE mine # {}
  <2>1. PICK j : j \in mine
    BY <1>15
  <2>2. new = old \cup {<<n + 1, j>>}
    BY <2>1, <1>4, <1>5, <1>6, <1>7
  <2>3. <<n + 1, j>> \notin old /\ \A y \in old \cup {<<n + 1, j>>} : g[y] \in Int
    BY <2>1, <2>2, <1>6, <1>8
  <2>4. SumFunctionOnSet(g, old \cup {<<n + 1, j>>}) = g[<<n + 1, j>>] + SumFunctionOnSet(g, old)
    BY <2>3, <1>8, SumAdd
  <2>5. PaidOf(later, r, i) = pays[j].amount + PaidOf(seq, r, i)
    BY <2>1, <2>2, <2>4, <1>10, <1>11, <1>12, <1>13
  <2> QED
    BY <2>1, <2>5
<1> QED
  BY <1>14, <1>15

\* Exporting a batch changes no amount.
LEMMA PaidByExport ==
  ASSUME NEW seq,
         NEW later, DOMAIN later = DOMAIN seq, \A c \in DOMAIN seq : later[c].pays = seq[c].pays, NEW r, NEW i
  PROVE  PaidOf(later, r, i) = PaidOf(seq, r, i)
<1>1. PaysOf(later, r, i) = PaysOf(seq, r, i)
  <2>1. \A x : x \in PaysOf(later, r, i) <=> x \in PaysOf(seq, r, i)
    BY PaysOfMember
  <2> QED
    BY <2>1
<1>2. \A x \in PaysOf(seq, r, i) : AmountAt(later, x) = AmountAt(seq, x)
  BY PaysOfMember DEF AmountAt
<1>3. [x \in PaysOf(later, r, i) |-> AmountAt(later, x)] = [x \in PaysOf(seq, r, i) |-> AmountAt(seq, x)]
  BY <1>1, <1>2
<1> QED
  BY <1>1, <1>3 DEF PaidOf

-----------------------------------------------------------------------------
\* No run and no batch: the invariant holds at the start.
LEMMA PayrollStarts == PayrollInit => PayrollInv
<1> SUFFICES ASSUME PayrollInit PROVE PayrollInv
  OBVIOUS
<1>1. \A r \in Runs : payRuns[r] = NoPayRun
  BY DEF PayrollInit
<1>2. PostedIn(payRuns) = {}
  BY <1>1 DEF PostedIn, NoPayRun
<1>3. PayrollTypeOK
  <2>1. Slips(<<>>)
    BY FS_EmptySet DEF Slips
  <2>2. \A r \in Runs : DOMAIN payRuns[r] = {"status", "period", "slips", "hash"} /\ payRuns[r].slips = <<>>
    BY <1>1 DEF NoPayRun
  <2>3. batches = <<>> /\ batches \in Seq(Batch)
    BY DEF PayrollInit
  <2>4. salaries = {} /\ payRules = {} /\ DOMAIN payRuns = Runs
        /\ DOMAIN payBalance = PayAccounts /\ \A a \in PayAccounts : payBalance[a] = 0
    BY DEF PayrollInit
  <2> QED
    BY <2>1, <2>2, <2>3, <2>4 DEF PayrollTypeOK
<1>4. PayTied
  <2>1. \A x : OfRuns(payRuns, x) = 0
    BY <1>2, SumEmpty DEF OfRuns
  <2>2. \A a \in PayAccounts : payBalance[a] = 0
    BY DEF PayrollInit
  <2> QED
    BY <2>1, <2>2 DEF PayTied, PayAccounts
<1>5. PaysArePosted
  BY DEF PayrollInit, PaysArePosted
<1>6. PayslipsAreNotOverpaid
  BY <1>2 DEF PostedIn, PayslipsAreNotOverpaid
<1> QED
  BY <1>3, <1>4, <1>5, <1>6 DEF PayrollInv

\* A step that neither posts nor pays, and leaves the rows of posted runs alone.
LEMMA UnpostedStep ==
  ASSUME PayrollInv, UNCHANGED <<batches, payBalance>>, salaries' \subseteq Versions, payRules' \subseteq Rules,
         DOMAIN payRuns' = Runs, PostedIn(payRuns') = PostedIn(payRuns),
         \A r \in PostedIn(payRuns) : payRuns'[r].slips = payRuns[r].slips,
         \A r \in Runs : DOMAIN payRuns'[r] = {"status", "period", "slips", "hash"} /\ Slips(payRuns'[r].slips)
  PROVE  PayrollInv'
<1> USE DEF PayrollInv
<1>1. PayrollTypeOK'
  BY DEF PayrollTypeOK
<1>2. PayTied'
  <2>1. \A x \in Figures : OfRuns(payRuns', x) = OfRuns(payRuns, x)
    BY OfRunsKeep
  <2> QED
    BY <2>1 DEF PayTied, Figures
<1>3. PaysArePosted'
  BY DEF PaysArePosted
<1>4. PayslipsAreNotOverpaid'
  <2> SUFFICES ASSUME NEW r \in Runs, NEW i \in DOMAIN payRuns'[r].slips, payRuns'[r].status = "POSTED"
               PROVE  Allocated(r, i)' <= payRuns'[r].slips[i].net
    BY DEF PayslipsAreNotOverpaid
  <2>1. r \in PostedIn(payRuns)
    BY DEF PostedIn
  <2>2. payRuns[r].status = "POSTED" /\ payRuns'[r].slips = payRuns[r].slips
    BY <2>1 DEF PostedIn
  <2>3. Allocated(r, i) <= payRuns[r].slips[i].net
    BY <2>2 DEF PayslipsAreNotOverpaid
  <2>4. Allocated(r, i)' = Allocated(r, i)
    BY AllocatedSum
  <2> QED
    BY <2>2, <2>3, <2>4
<1> QED
  BY <1>1, <1>2, <1>3, <1>4

\* Preparing a run keeps the invariant: its rows are consistent in whatever order their
\* lines were stored.
LEMMA PreparePayRunStep ==
  ASSUME PayrollInv, NEW r \in Runs, NEW period \in PayPeriods, NEW inputs \in PayInputs,
         PreparePayRun(r, period, inputs)
  PROVE  PayrollInv'
<1> USE DEF PayrollInv
<1>1. PICK orders \in RowOrders(inputs) :
        payRuns' = [payRuns EXCEPT ![r] =
             [status |-> "PREPARED", period |-> period,
              slips |-> [i \in DOMAIN inputs |-> InRowOrder(SlipOf(inputs[i]), orders[i])],
              hash |-> [i \in DOMAIN inputs |-> SlipOf(inputs[i])]]]
  BY DEF PreparePayRun
<1> DEFINE slips == [i \in DOMAIN inputs |-> InRowOrder(SlipOf(inputs[i]), orders[i])]
           hash == [i \in DOMAIN inputs |-> SlipOf(inputs[i])]
           row == [status |-> "PREPARED", period |-> period, slips |-> slips, hash |-> hash]
<1>2. IsFiniteSet(DOMAIN inputs)
  BY PayrollAssumption, FS_Interval
<1>3. ASSUME NEW i \in DOMAIN inputs
      PROVE  Slip(InRowOrder(SlipOf(inputs[i]), orders[i]))
  <2>1. Computable(inputs[i], period)
    BY DEF PreparePayRun
  <2>2. Input(inputs[i])
    <3>1. inputs[i].version \in Versions
      BY <2>1 DEF Computable, PayrollTypeOK
    <3> QED
      BY <3>1, PayrollAssumption DEF Input
  <2>3. IsFiniteSet(inputs[i].rules) /\ \A rule \in inputs[i].rules : rule.allocation \in Nat
    <3>1. inputs[i].rules \subseteq Rules
      BY <2>1 DEF Computable, RulesHold, PayrollTypeOK
    <3> QED
      BY <3>1, FS_Subset, PayrollAssumption
  <2>4. Slip(SlipOf(inputs[i])) /\ DOMAIN SlipOf(inputs[i]).lines = DOMAIN inputs[i].version.components
    BY <2>1, <2>2, <2>3, SlipComputed DEF Computable
  <2>5. orders[i] \in Bijection(DOMAIN SlipOf(inputs[i]).lines, DOMAIN SlipOf(inputs[i]).lines)
    <3> DEFINE rows(k) == DOMAIN inputs[k].version.components
    <3>1. orders[i] \in UNION {Bijection(rows(k), rows(k)) : k \in DOMAIN inputs} /\ DOMAIN orders[i] = rows(i)
      BY DEF RowOrders
    <3> HIDE DEF rows
    <3>2. PICK k \in DOMAIN inputs : orders[i] \in Bijection(rows(k), rows(k))
      BY <3>1
    <3>3. rows(k) = rows(i)
      BY <3>1, <3>2 DEF Bijection, Injection
    <3> QED
      BY <3>2, <3>3, <2>4 DEF rows
  <2> HIDE DEF PayrollInv
  <2> QED
    BY <2>4, <2>5, SlipReordered
<1>4. Slips(slips)
  BY <1>2, <1>3 DEF Slips
<1>5. DOMAIN row = {"status", "period", "slips", "hash"} /\ row.slips = slips /\ row.status = "PREPARED"
  OBVIOUS
<1> HIDE DEF slips, hash, row
<1>6. payRuns' = [payRuns EXCEPT ![r] = row]
  BY <1>1 DEF slips, hash, row
<1>7. DOMAIN payRuns' = Runs /\ \A q \in Runs : payRuns'[q] = IF q = r THEN row ELSE payRuns[q]
  BY <1>6 DEF PayrollTypeOK
<1>8. r \notin PostedIn(payRuns) /\ UNCHANGED <<salaries, payRules, batches, payBalance>>
  BY DEF PreparePayRun, PostedIn
<1>9. PostedIn(payRuns') = PostedIn(payRuns)
  BY <1>5, <1>7, <1>8 DEF PostedIn
<1>10. \A q \in PostedIn(payRuns) : payRuns'[q].slips = payRuns[q].slips
  BY <1>7, <1>8 DEF PostedIn
<1>11. \A q \in Runs : DOMAIN payRuns'[q] = {"status", "period", "slips", "hash"} /\ Slips(payRuns'[q].slips)
  BY <1>4, <1>5, <1>7 DEF PayrollTypeOK
<1>12. salaries' \subseteq Versions /\ payRules' \subseteq Rules
  BY <1>8 DEF PayrollTypeOK
<1> QED
  BY <1>7, <1>8, <1>9, <1>10, <1>11, <1>12, UnpostedStep

\* Approving a run posts nothing.
LEMMA ApprovePayRunStep ==
  ASSUME PayrollInv, NEW r \in Runs, ApprovePayRun(r)
  PROVE  PayrollInv'
<1>1. /\ payRuns' = [payRuns EXCEPT ![r].status = "APPROVED"] /\ payRuns[r].status = "PREPARED"
      /\ UNCHANGED <<salaries, payRules, batches, payBalance>>
  BY DEF ApprovePayRun
<1>2. /\ DOMAIN payRuns' = Runs
      /\ \A q \in Runs : /\ DOMAIN payRuns'[q] = DOMAIN payRuns[q] /\ payRuns'[q].slips = payRuns[q].slips
                         /\ payRuns'[q].status = IF q = r THEN "APPROVED" ELSE payRuns[q].status
  BY <1>1 DEF PayrollInv, PayrollTypeOK
<1>3. PostedIn(payRuns') = PostedIn(payRuns)
  BY <1>1, <1>2 DEF PostedIn
<1>4. \A q \in PostedIn(payRuns) : payRuns'[q].slips = payRuns[q].slips
  BY <1>2 DEF PostedIn
<1>5. \A q \in Runs : DOMAIN payRuns'[q] = {"status", "period", "slips", "hash"} /\ Slips(payRuns'[q].slips)
  BY <1>2 DEF PayrollInv, PayrollTypeOK
<1>6. salaries' \subseteq Versions /\ payRules' \subseteq Rules
  BY <1>1 DEF PayrollInv, PayrollTypeOK
<1> QED
  BY <1>1, <1>2, <1>3, <1>4, <1>5, <1>6, UnpostedStep

\* Posting a run keeps it: the journal says what the rows say, and nothing of them was paid.
LEMMA PostPayRunStep ==
  ASSUME PayrollInv, NEW r \in Runs, PostPayRun(r)
  PROVE  PayrollInv'
<1> DEFINE slips == payRuns[r].slips
           journal == PayJournal(slips)
<1>1. /\ payRuns[r].status = "APPROVED" /\ SumFunction(journal) = 0
      /\ payBalance' = [a \in PayAccounts |-> payBalance[a] + journal[a]]
      /\ payRuns' = [payRuns EXCEPT ![r].status = "POSTED"]
      /\ UNCHANGED <<salaries, payRules, batches>>
  BY DEF PostPayRun
<1>2. Slips(slips) /\ PayrollTypeOK /\ PayTied
  BY DEF PayrollInv, PayrollTypeOK
<1>3. /\ DOMAIN payRuns' = Runs
      /\ \A q \in Runs : /\ DOMAIN payRuns'[q] = DOMAIN payRuns[q] /\ payRuns'[q].slips = payRuns[q].slips
                         /\ payRuns'[q].status = IF q = r THEN "POSTED" ELSE payRuns[q].status
  BY <1>1, <1>2 DEF PayrollTypeOK
<1>4. /\ \A a \in PayAccounts : journal[a] \in Int
      /\ journal["Expense"] = OfSlips(slips, "gross") + OfSlips(slips, "employer")
      /\ journal["Deductions"] = 0 - OfSlips(slips, "deductions")
      /\ journal["NetPayable"] = 0 - OfSlips(slips, "net")
  <2> HIDE DEF slips
  <2> QED BY <1>1, <1>2, JournalOfRows
<1>5. \A x \in Figures : OfRuns(payRuns', x) = OfRuns(payRuns, x) + OfSlips(slips, x)
  BY <1>1, <1>2, OfRunsPost
<1> HIDE DEF slips, journal
<1>6. PayrollTypeOK'
  <2>1. DOMAIN payBalance' = PayAccounts /\ \A a \in PayAccounts : payBalance'[a] \in Int
    BY <1>1, <1>2, <1>4 DEF PayrollTypeOK
  <2> QED
    BY <2>1, <1>1, <1>2, <1>3 DEF PayrollTypeOK
<1>7. PayTied'
  <2>1. \A x \in Figures : OfRuns(payRuns, x) \in Int /\ OfSlips(slips, x) \in Int
    BY <1>2, OfRunsInt, OfSlipsInt
  <2>2. \A a \in {"Expense", "Deductions", "NetPayable"} : payBalance'[a] = payBalance[a] + journal[a]
    BY <1>1 DEF PayAccounts
  <2> QED
    BY <2>1, <2>2, <1>2, <1>4, <1>5 DEF PayTied, Figures
<1>8. PaysArePosted'
  BY <1>1, <1>3 DEF PayrollInv, PaysArePosted, PostedIn
<1>9. PayslipsAreNotOverpaid'
  <2> SUFFICES ASSUME NEW q \in Runs, NEW i \in DOMAIN payRuns'[q].slips, payRuns'[q].status = "POSTED"
               PROVE  Allocated(q, i)' <= payRuns'[q].slips[i].net
    BY DEF PayslipsAreNotOverpaid
  <2>1. Allocated(q, i)' = Allocated(q, i) /\ payRuns'[q].slips = payRuns[q].slips
    BY <1>1, <1>3, AllocatedSum
  <2>2. CASE q # r
    <3>1. payRuns[q].status = "POSTED" /\ i \in DOMAIN payRuns[q].slips
      BY <2>2, <1>3
    <3> QED
      BY <3>1, <2>1 DEF PayrollInv, PayslipsAreNotOverpaid
  <2>3. CASE q = r
    <3>1. PaysOf(batches, r, i) = {}
      <4>1. \A x : x \notin PaysOf(batches, r, i)
        BY <1>1, PaysOfMember DEF PayrollInv, PaysArePosted, PostedIn
      <4> QED
        BY <4>1
    <3>2. Allocated(r, i) = 0
      BY <3>1, AllocatedSum, SumEmpty DEF PaidOf
    <3>3. Slip(slips[i])
      BY <2>1, <2>3, <1>2 DEF Slips, slips
    <3>4. slips[i].net >= 0
      BY <3>3 DEF Slip
    <3> QED
      BY <3>2, <3>4, <2>1, <2>3 DEF slips
  <2> QED
    BY <2>2, <2>3
<1> QED
  BY <1>6, <1>7, <1>8, <1>9 DEF PayrollInv

\* Creating a payment batch keeps it: a row occurs once, and was compared with what
\* earlier batches paid.
LEMMA BatchStep ==
  ASSUME PayrollInv, NEW n \in 1 .. MaxRows, NEW pays \in [1 .. n -> Pays], CreatePaymentBatch(pays)
  PROVE  PayrollInv'
<1> DEFINE e == [pays |-> pays, exported |-> FALSE]
<1>1. /\ batches' = Append(batches, e)
      /\ UNCHANGED <<salaries, payRules, payRuns, payBalance>>
      /\ DistinctRows(pays)
      /\ \A j \in DOMAIN pays :
           /\ payRuns[pays[j].run].status = "POSTED"
           /\ pays[j].amount + Allocated(pays[j].run, pays[j].row)
                <= payRuns[pays[j].run].slips[pays[j].row].net
  BY DEF CreatePaymentBatch, DistinctRows
<1>2. pays \in Seq(Pays) /\ Len(pays) <= MaxRows /\ Len(pays) = n /\ DOMAIN pays = 1 .. n
  BY PayrollAssumption
<1>3. batches \in Seq(Batch) /\ e \in Batch
  BY <1>2 DEF PayrollInv, PayrollTypeOK, Batch
<1>4. e.pays = pays
  OBVIOUS
<1> HIDE DEF e
<1>5. /\ batches' \in Seq(Batch) /\ Len(batches') = Len(batches) + 1 /\ Len(batches) \in Nat
      /\ DOMAIN batches' = 1 .. Len(batches) + 1
      /\ \A b \in 1 .. Len(batches) : batches'[b] = batches[b]
      /\ batches'[Len(batches) + 1] = e
  BY <1>1, <1>3
<1>6. PayrollTypeOK'
  BY <1>1, <1>5 DEF PayrollInv, PayrollTypeOK
<1>7. PayTied'
  BY <1>1 DEF PayrollInv, PayTied, OfRuns, OfSlips, PostedIn
<1>8. PaysArePosted'
  <2> SUFFICES ASSUME NEW b \in DOMAIN batches', NEW j \in DOMAIN batches'[b].pays
               PROVE  batches'[b].pays[j].run \in PostedIn(payRuns')
    BY DEF PaysArePosted
  <2>1. CASE b \in 1 .. Len(batches)
    <3>1. b \in DOMAIN batches /\ batches'[b] = batches[b] /\ payRuns' = payRuns
      BY <2>1, <1>1, <1>3, <1>5
    <3> QED
      BY <3>1 DEF PayrollInv, PaysArePosted
  <2>2. CASE b = Len(batches) + 1
    <3>1. batches'[b].pays = pays
      BY <2>2, <1>4, <1>5
    <3>2. j \in DOMAIN pays /\ pays[j].run \in Runs
      BY <3>1 DEF Pays
    <3> QED
      BY <3>1, <3>2, <1>1 DEF PostedIn
  <2> QED
    BY <2>1, <2>2, <1>5
<1>9. PayslipsAreNotOverpaid'
  <2> SUFFICES ASSUME NEW r \in Runs, NEW i \in DOMAIN payRuns'[r].slips, payRuns'[r].status = "POSTED"
               PROVE  Allocated(r, i)' <= payRuns'[r].slips[i].net
    BY DEF PayslipsAreNotOverpaid
  <2>1. payRuns' = payRuns
    BY <1>1
  <2>2. Allocated(r, i) <= payRuns[r].slips[i].net
    BY <2>1 DEF PayrollInv, PayslipsAreNotOverpaid
  <2>3. Allocated(r, i) = PaidOf(batches, r, i) /\ Allocated(r, i)' = PaidOf(batches', r, i)
    BY AllocatedSum
  <2>4. batches'[Len(batches) + 1].pays = pays /\ DistinctRows(pays)
    BY <1>1, <1>4, <1>5
  <2>5. \/ PaidOf(batches', r, i) = PaidOf(batches, r, i)
        \/ \E j \in DOMAIN pays : /\ pays[j].run = r /\ pays[j].row = i
                                  /\ PaidOf(batches', r, i) = pays[j].amount + PaidOf(batches, r, i)
    BY <1>2, <1>3, <1>5, <2>4, PaidByBatch
  <2>6. CASE PaidOf(batches', r, i) = PaidOf(batches, r, i)
    BY <2>1, <2>2, <2>3, <2>6
  <2>7. ASSUME NEW j \in DOMAIN pays, pays[j].run = r, pays[j].row = i,
               PaidOf(batches', r, i) = pays[j].amount + PaidOf(batches, r, i)
        PROVE  Allocated(r, i)' <= payRuns'[r].slips[i].net
    BY <2>1, <2>3, <2>7, <1>1
  <2> QED
    BY <2>5, <2>6, <2>7
<1> QED
  BY <1>6, <1>7, <1>8, <1>9 DEF PayrollInv

\* Exporting a batch keeps it.
LEMMA ExportBankStep ==
  ASSUME PayrollInv, NEW b \in DOMAIN batches, ExportBankCsv(b)
  PROVE  PayrollInv'
<1>1. /\ batches' = [batches EXCEPT ![b].exported = TRUE]
      /\ UNCHANGED <<salaries, payRules, payRuns, payBalance>>
  BY DEF ExportBankCsv
<1>2. batches \in Seq(Batch) /\ \A c \in DOMAIN batches : batches[c] \in Batch
  BY DEF PayrollInv, PayrollTypeOK
<1>3. DOMAIN batches' = DOMAIN batches /\ \A c \in DOMAIN batches : batches'[c].pays = batches[c].pays
  BY <1>1, <1>2 DEF Batch
<1>4. batches' \in Seq(Batch)
  <2>1. \A c \in DOMAIN batches : batches'[c] \in Batch
    BY <1>1, <1>2 DEF Batch
  <2> HIDE DEF Batch
  <2>2. batches' = [c \in DOMAIN batches |-> batches'[c]]
    BY <1>1
  <2>3. batches' \in [DOMAIN batches -> Batch]
    BY <2>1, <2>2
  <2>4. DOMAIN batches = 1 .. Len(batches) /\ Len(batches) \in Nat
    BY <1>2
  <2> QED
    BY <2>3, <2>4
<1>5. PayrollTypeOK'
  BY <1>1, <1>4 DEF PayrollInv, PayrollTypeOK
<1>6. PayTied'
  BY <1>1 DEF PayrollInv, PayTied, OfRuns, OfSlips, PostedIn
<1>7. PaysArePosted'
  BY <1>1, <1>3 DEF PayrollInv, PaysArePosted, PostedIn
<1>8. PayslipsAreNotOverpaid'
  <2>1. \A r, i : Allocated(r, i)' = Allocated(r, i)
    BY <1>3, AllocatedSum, PaidByExport
  <2> QED
    BY <2>1, <1>1 DEF PayrollInv, PayslipsAreNotOverpaid
<1> QED
  BY <1>5, <1>6, <1>7, <1>8 DEF PayrollInv

\* Steps of the other tables keep it.
LEMMA PayrollQuiet ==
  ASSUME PayrollInv, UNCHANGED <<payRuns, batches, payBalance>>,
         salaries' \subseteq Versions, payRules' \subseteq Rules
  PROVE  PayrollInv'
<1>1. /\ DOMAIN payRuns' = Runs
      /\ \A r \in Runs : DOMAIN payRuns'[r] = {"status", "period", "slips", "hash"} /\ Slips(payRuns'[r].slips)
  BY DEF PayrollInv, PayrollTypeOK
<1>2. PostedIn(payRuns') = PostedIn(payRuns) /\ \A r \in PostedIn(payRuns) : payRuns'[r].slips = payRuns[r].slips
  OBVIOUS
<1> QED
  BY <1>1, <1>2, UnpostedStep

\* Every step of the payroll keeps the invariant.
LEMMA PayrollStep == PayrollInv /\ [PayrollNext]_payrollVars => PayrollInv'
<1> SUFFICES ASSUME PayrollInv, [PayrollNext]_payrollVars PROVE PayrollInv'
  OBVIOUS
<1>0. salaries \subseteq Versions /\ payRules \subseteq Rules
  BY DEF PayrollInv, PayrollTypeOK
<1>1. ASSUME NEW e \in Employees, CreateEmployee(e) PROVE PayrollInv'
  <2>1. UNCHANGED <<payRuns, batches, payBalance>> /\ UNCHANGED <<salaries, payRules>>
    BY <1>1 DEF CreateEmployee
  <2> QED
    BY <2>1, <1>0, PayrollQuiet
<1>2. ASSUME NEW v \in Versions, CreateSalaryVersion(v) PROVE PayrollInv'
  <2>1. UNCHANGED <<payRuns, batches, payBalance>> /\ salaries' = salaries \cup {v} /\ UNCHANGED payRules
    BY <1>2 DEF CreateSalaryVersion
  <2> QED
    BY <2>1, <1>0, PayrollQuiet
<1>3. ASSUME NEW rule \in Rules, CreateRule(rule) PROVE PayrollInv'
  <2>1. UNCHANGED <<payRuns, batches, payBalance>> /\ payRules' = payRules \cup {rule} /\ UNCHANGED salaries
    BY <1>3 DEF CreateRule
  <2> QED
    BY <2>1, <1>0, PayrollQuiet
<1>4. ASSUME NEW c \in EmployeeClaims, CreatePayClaim(c) \/ \E d \in {"APPROVED", "REJECTED"} : ReviewPayClaim(c, d)
      PROVE  PayrollInv'
  <2>1. UNCHANGED <<payRuns, batches, payBalance>> /\ UNCHANGED <<salaries, payRules>>
    BY <1>4 DEF CreatePayClaim, ReviewPayClaim
  <2> QED
    BY <2>1, <1>0, PayrollQuiet
<1>5. ASSUME NEW m \in Remittances, CreateRemittance(m) \/ \E i, j \in 1 .. 5 : UpdateRemittance(m, i, j)
      PROVE  PayrollInv'
  <2>1. UNCHANGED <<payRuns, batches, payBalance>> /\ UNCHANGED <<salaries, payRules>>
    BY <1>5 DEF CreateRemittance, UpdateRemittance
  <2> QED
    BY <2>1, <1>0, PayrollQuiet
<1>6. CASE UNCHANGED payrollVars
  <2>1. UNCHANGED <<payRuns, batches, payBalance>> /\ UNCHANGED <<salaries, payRules>>
    BY <1>6 DEF payrollVars
  <2> QED
    BY <2>1, <1>0, PayrollQuiet
<1>7. ASSUME NEW r \in Runs, NEW period \in PayPeriods, NEW inputs \in PayInputs, PreparePayRun(r, period, inputs)
      PROVE  PayrollInv'
  BY <1>7, PreparePayRunStep
<1>8. ASSUME NEW r \in Runs, ApprovePayRun(r) \/ PostPayRun(r) PROVE PayrollInv'
  BY <1>8, ApprovePayRunStep, PostPayRunStep
<1>9. ASSUME NEW n \in 1 .. MaxRows, NEW pays \in [1 .. n -> Pays], CreatePaymentBatch(pays) PROVE PayrollInv'
  BY <1>9, BatchStep
<1>10. ASSUME NEW b \in DOMAIN batches, ExportBankCsv(b) PROVE PayrollInv'
  BY <1>10, ExportBankStep
<1> QED
  BY <1>1, <1>2, <1>3, <1>4, <1>5, <1>6, <1>7, <1>8, <1>9, <1>10 DEF PayrollNext

\* The invariant holds in every reachable state of the payroll.
THEOREM PayrollHolds == PayrollSpec => []PayrollInv
<1>1. PayrollInit => PayrollInv
  BY PayrollStarts
<1>2. PayrollInv /\ [PayrollNext]_payrollVars => PayrollInv'
  BY PayrollStep
<1> QED
  BY <1>1, <1>2, PTL DEF PayrollSpec

\* The accounts carry what the rows of the posted runs say although the journal is built
\* from component lines, and no row is paid out beyond its net over all its batches.
THEOREM SalariesHold == PayrollSpec => []SalariesTieToTheBooks
<1>1. PayrollInv => SalariesTieToTheBooks
  <2> SUFFICES ASSUME PayrollInv PROVE PayslipsTieToTheBooks
    BY DEF PayrollInv, SalariesTieToTheBooks
  <2> DEFINE posted == PostedIn(payRuns)
             Sum(x) == [r \in Runs |-> OfSlips(payRuns[r].slips, x)]
             costs == [r \in Runs |-> SumSlips(payRuns[r].slips, LAMBDA s : s.gross + s.employer)]
  <2>1. PayrollTypeOK /\ PayTied /\ posted \subseteq Runs /\ IsFiniteSet(posted)
    BY OfRunsInt DEF PayrollInv, PostedIn, Figures
  <2>2. \A x \in Figures : \A r \in Runs : OfSlips(payRuns[r].slips, x) \in Int
    BY <2>1, OfSlipsInt DEF PayrollTypeOK
  <2>3. \A r \in Runs : SumSlips(payRuns[r].slips, LAMBDA s : s.gross + s.employer)
                          = OfSlips(payRuns[r].slips, "gross") + OfSlips(payRuns[r].slips, "employer")
    <3> TAKE r \in Runs
    <3> DEFINE slips == payRuns[r].slips
               D == DOMAIN slips
               f == [i \in D |-> slips[i]["gross"]]
               g == [i \in D |-> slips[i]["employer"]]
               h == [i \in D |-> slips[i].gross + slips[i].employer]
    <3>1. IsFiniteSet(D) /\ \A i \in D : Slip(slips[i])
      BY <2>1 DEF PayrollTypeOK, Slips
    <3>2. \A i \in D : f[i] \in Int /\ g[i] \in Int /\ h[i] = f[i] + g[i]
      BY <3>1, SlipFigures DEF Figures
    <3> HIDE DEF f, g, h, D
    <3>3. SumFunctionOnSet(h, D) = SumFunctionOnSet(f, D) + SumFunctionOnSet(g, D)
      BY <3>1, <3>2, SumPlus
    <3> QED
      BY <3>3 DEF SumSlips, SumFunction, OfSlips, f, g, h, D
  <2>4. SumFunctionOnSet(costs, posted) = OfRuns(payRuns, "gross") + OfRuns(payRuns, "employer")
    <3>1. \A r \in posted : /\ Sum("gross")[r] \in Int /\ Sum("employer")[r] \in Int
                           /\ costs[r] = Sum("gross")[r] + Sum("employer")[r]
      BY <2>1, <2>2, <2>3 DEF Figures
    <3> HIDE DEF Sum, costs, posted
    <3>2. SumFunctionOnSet(costs, posted) = SumFunctionOnSet(Sum("gross"), posted) + SumFunctionOnSet(Sum("employer"), posted)
      BY <3>1, <2>1, SumPlus
    <3> QED
      BY <3>2 DEF OfRuns, Sum, posted
  <2>5. \A r \in Runs : /\ SumSlips(payRuns[r].slips, LAMBDA s : s.deductions) = OfSlips(payRuns[r].slips, "deductions")
                        /\ SumSlips(payRuns[r].slips, LAMBDA s : s.net) = OfSlips(payRuns[r].slips, "net")
    BY DEF SumSlips, SumFunction, OfSlips
  <2>6. [r \in Runs |-> SumSlips(payRuns[r].slips, LAMBDA s : s.deductions)] = Sum("deductions")
    BY <2>5
  <2>7. [r \in Runs |-> SumSlips(payRuns[r].slips, LAMBDA s : s.net)] = Sum("net")
    BY <2>5
  <2>8. /\ payBalance["Expense"] = SumFunctionOnSet(costs, posted)
        /\ payBalance["Deductions"] = -SumFunctionOnSet(Sum("deductions"), posted)
        /\ payBalance["NetPayable"] = -SumFunctionOnSet(Sum("net"), posted)
    <3>1. \A n \in Int : 0 - n = -n
      OBVIOUS
    <3>2. OfRuns(payRuns, "deductions") \in Int /\ OfRuns(payRuns, "net") \in Int
      BY <2>1, OfRunsInt DEF Figures
    <3>3. /\ OfRuns(payRuns, "deductions") = SumFunctionOnSet(Sum("deductions"), posted)
          /\ OfRuns(payRuns, "net") = SumFunctionOnSet(Sum("net"), posted)
      BY DEF OfRuns
    <3> HIDE DEF Sum, costs, posted
    <3> QED
      BY <3>1, <3>2, <3>3, <2>1, <2>4 DEF PayTied
  <2> QED
    BY <2>6, <2>7, <2>8 DEF PayslipsTieToTheBooks, PostedIn
<1>2. QED
  BY <1>1, PayrollHolds, PTL
=============================================================================
