------------------------------ MODULE MCRunDir ------------------------------
(***************************************************************************)
(* Small instances of RunDir for TLC: a workflow with two CSVs and a       *)
(* number, manifests that are sound and not, sheets of up to three rows    *)
(* that are a title, a header or data, and requests for them.              *)
(***************************************************************************)
EXTENDS RunDir, TLC

CSV(name, required, env, filename, schema) ==
  [name |-> name, kind |-> "csv", required |-> required, env |-> env,
   filename |-> filename, schema |-> schema, default |-> ""]

Number(default, required) ==
  [name |-> "n", kind |-> "int", required |-> required, env |-> "N",
   filename |-> "", schema |-> "", default |-> default]

ManifestOf(wf) ==
  [modules |-> {"TA"}, workflows |-> <<wf>>,
   schemas |-> ("ta" :> <<"user", "attName">> @@ "none" :> <<>>)]

Flow(default, max, ins) ==
  [id |-> "flow", module |-> "TA", spec |-> "flow.spec", default |-> default,
   max |-> max, inputs |-> ins]

MCManifests ==
  {ManifestOf(wf) : wf \in
     {Flow(60, 120, <<CSV("x", TRUE, "X", "x.csv", "ta"), CSV("y", FALSE, "Y", "y.csv", "ta"),
                      Number("3", FALSE)>>),
      Flow(20, 150, <<CSV("x", TRUE, "X", "x.csv", "ta"), CSV("y", FALSE, "Y", "x.csv", "ta"),
                      Number("", FALSE)>>),
      Flow(60, 60, <<CSV("x", FALSE, "X", "x.csv", "none"), Number("", TRUE)>>),
      Flow(60, 0, <<>>),
      Flow(60, 120, <<CSV("x", TRUE, "X", "x.csv", "gone")>>),
      Flow(60, 120, <<CSV("x", TRUE, "X", "x.csv", "ta"), CSV("y", TRUE, "X", "y.csv", "ta")>>)}}

MCSpecs == {"flow.spec"}

Heads ==
  {<< <<"title">> >>, << <<"BOM", "user">>, <<" ", "attName">> >>, << <<"user">>, <<"amount">> >>,
   << <<"attName">>, <<"user">>, <<"attName">> >>}

Data ==
  {<< <<"joe">>, <<"a.pdf", " ">> >>, << <<"joe">>, <<>>, <<".b">> >>,
   << <<"joe">>, <<"a.pdf", "v2">> >>}

Title == << <<"title">> >>

(* What it refers to is there, and is a directory. *)
Odd == << << <<"user">>, <<"attName">> >>, << <<"joe">>, <<"old">> >> >>

(* The header is beyond the rows that are searched, with and without a row *)
(* before it that has some of the columns.                                 *)
TooLate ==
  {<<Title, h, << <<"user">>, <<"attName">> >> >> : h \in {Title, << <<"user">>, <<"amount">> >>}}

Sheets == {<<>>, Odd} \union TooLate
          \union {<<h>> : h \in Heads} \union {<<h, g>> : h, g \in Heads}
          \union {<<h, d>> : h \in Heads, d \in Data}
          \union {<<Title, h, d>> : h \in Heads, d \in Data}

File(rows) == [csv |-> TRUE, big |-> FALSE, rows |-> rows]

Good == File(<< << <<"user">>, <<"attName">> >> >>)

Ask(uploads, params, timeout, env) ==
  [config |-> TRUE, workflow |-> "flow", env |-> env, timeout |-> timeout,
   uploads |-> uploads, params |-> params]

MCRequests ==
  {Ask("x" :> File(s), <<>>, 0, "") : s \in Sheets}
  \union {Ask("x" :> Good, <<>>, t, "TST") : t \in {-1, 30, 31, 500}}
  \union {Ask(u, p, 0, "TST") :
            u \in {<<>>, "x" :> Good, "x" :> Good @@ "y" :> Good,
                   "x" :> Good @@ "y" :> File(<< << <<"title">> >> >>)},
            p \in {<<>>, "n" :> "many"}}
  \union {[Ask("x" :> Good, <<>>, 0, "") EXCEPT !.config = FALSE],
          [Ask("x" :> Good, <<>>, 0, "") EXCEPT !.workflow = "flaw"],
          Ask("x" :> Good, <<>>, 0, "PROD"), Ask("z" :> Good, <<>>, 0, ""),
          Ask("x" :> [Good EXCEPT !.big = TRUE], <<>>, 0, ""),
          Ask("x" :> [Good EXCEPT !.csv = FALSE], <<>>, 0, "")}

MCAttachments == {"a.pdf", "c.pdf"}

MCLibrary ==
  {[name |-> "old", dir |-> TRUE, time |-> 0], [name |-> ".b", dir |-> FALSE, time |-> 0]}

At(dir, name) == [dir |-> dir, name |-> name]

MCOutputs ==
  {{At("output/a", "trace.zip"), At("output/b", "trace.zip"), At("output", ".last-run.json"),
    At(".", "report.json")},
   {At("output/a", "output.json"), At("output/b", "output.json")}}
=============================================================================
