------------------------------- MODULE Upload -------------------------------
(***************************************************************************)
(* What createRun checks of a submission before anything is recorded       *)
(* (server/internal/httpapi/handlers.go): the request as a whole, and each *)
(* CSV against its schema and the attachment library.                      *)
(*                                                                         *)
(* A sheet is what the CSV reader returns, a sequence of rows of cells; a  *)
(* cell is a sequence of symbols: a byte order mark "BOM", a blank " ", or *)
(* a word.  The text of a refusal is reduced to its cause.  Names are one  *)
(* word, so what has another symbol left, a mark or a second word, is no   *)
(* name, and it does not matter that blanks go inside a cell too.          *)
(***************************************************************************)
EXTENDS Catalog, Receipts, FiniteSetsExt

CONSTANT HeaderScanRows  (* rows searched for the header, 10 in the code   *)

TrimSpace(cell) == SelectSeq(cell, LAMBDA x : x # " ")

(* TrimSpace(TrimPrefix(h, BOM)): only a mark at the very start goes.      *)
Trimmed(cell) ==
  TrimSpace(IF cell # <<>> /\ Head(cell) = "BOM" THEN Tail(cell) ELSE cell)

(* The column a name stands for: of two equal headers the later one.       *)
ColumnsOf(row, name) == {j \in Indices(row) : Trimmed(row[j]) = <<name>>}

Score(row, want) == Cardinality({i \in Indices(want) : ColumnsOf(row, want[i]) # {}})

(* The loop of findHeaderRow after i rows: the best row, and whether the   *)
(* search is over.                                                         *)
Mut_Scan(rows, want) ==
  LET best[i \in 0..Len(rows)] ==
        IF i = 0 THEN [row |-> 0, score |-> -1, exact |-> FALSE]
        ELSE LET s == Score(rows[i], want)
             IN IF s >= best[i - 1].score
                THEN [row |-> i, score |-> s, exact |-> s = Len(want)]
                ELSE best[i - 1]
  IN best[Min({Len(rows), HeaderScanRows})]

Scan(rows, want) ==
  LET best[i \in 0..Len(rows)] ==
        IF i = 0 THEN [row |-> 0, score |-> -1, exact |-> FALSE]
        ELSE LET s == Score(rows[i], want)
             IN IF ~best[i - 1].exact /\ s > best[i - 1].score
                THEN [row |-> i, score |-> s, exact |-> s = Len(want)]
                ELSE best[i - 1]
  IN best[Min({Len(rows), HeaderScanRows})]

(* 0 is "no recognisable header row". *)
HeaderRow(rows, want) ==
  LET b == Scan(rows, want) IN IF b.score <= 0 THEN 0 ELSE b.row

AttachmentColumns == {"attName", "attachmentFile"}

(* What the rows under the header have in the attachment columns. *)
References(rows, header) ==
  LET cols == {Max(ColumnsOf(rows[header], c)) :
                 c \in {d \in AttachmentColumns : ColumnsOf(rows[header], d) # {}}}
      texts(i) == {TrimSpace(rows[i][j]) : j \in {k \in cols : k <= Len(rows[i])}}
  IN (UNION {texts(i) : i \in (header + 1)..Len(rows)}) \ {<<>>}

(* validateCSV; an upload that is no CSV has no rows to show. *)
Verdict(manifest, in, upload, library) ==
  IF in.schema \notin DOMAIN manifest.schemas THEN "unknown schema"
  ELSE IF ~upload.csv \/ upload.rows = <<>> THEN "refused"
  ELSE LET want == manifest.schemas[in.schema]
           header == HeaderRow(upload.rows, want)
       IN IF /\ header # 0
             /\ Score(upload.rows[header], want) = Len(want)
             /\ \A text \in References(upload.rows, header) :
                  \E e \in library : text = <<e.name>> /\ Has(library, e.name)
          THEN "ok" ELSE "refused"

-----------------------------------------------------------------------------
(* The request as a whole, before it has a directory.                      *)

Envs == {"DEV", "TST", "STG"}

(* The upper-cased env, TST unless asked otherwise. *)
EnvOf(q) == IF q.env = "" THEN "TST" ELSE q.env

TimeoutOf(q, wf) ==
  LET t == IF q.timeout <= 0 THEN wf.default ELSE q.timeout
  IN IF wf.max > 0 /\ t > wf.max THEN wf.max ELSE t

Admissible(q, manifest) ==
  /\ q.config  (* there is a config part, and it is JSON *)
  /\ \A name \in DOMAIN q.uploads : ~q.uploads[name].big
  /\ Knows(manifest, q.workflow)
  /\ EnvOf(q) \in Envs
  /\ \A name \in DOMAIN q.uploads : HasInput(Workflow(manifest, q.workflow), name)

(* buildEnv, in seconds: what Playwright gets of the run's wall clock. *)
PlaywrightTimeout(timeout) == Max({timeout - 120, 30})
=============================================================================
