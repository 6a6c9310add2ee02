--------------------------- MODULE MCExperiments ---------------------------
(* Six files: one drawn by the tool, one pinned photograph of the tune split,  *)
(* one of Kodak's, a sealed one, a sealed one whose pin is gone and a cut-out. *)
(* The commands read a config on the tune split, the same sealed, in whole and *)
(* in part, on every split with another tool, and as the report does.          *)
EXTENDS Experiments

MCImages == {"drawn", "photo", "kodak", "sealed", "stale", "cutout"}
MCPrefix == [drawn |-> "other", photo |-> "photo", kodak |-> "kodak",
             sealed |-> "sealed", stale |-> "sealed", cutout |-> "cutout"]
MCTable == [drawn |-> "generated", photo |-> "curated", kodak |-> "kodak",
            sealed |-> "curated", stale |-> "none", cutout |-> "alpha"]
MCDeclared == [drawn |-> "none", photo |-> "tune", kodak |-> "none",
               sealed |-> "holdout2", stale |-> "none", cutout |-> "tune"]

Command(tool, name, split, corpus, decision, partial) ==
  [tool |-> tool, name |-> name, split |-> split, corpus |-> corpus,
   decision |-> decision, partial |-> partial]

MCCommands ==
  {Command("sweep", "arms", "tune", "photo", "none", FALSE),
   Command("sweep", "rgba", "tune", "all", "none", FALSE),
   Command("sweep", "arms", "holdout2", "photo", "D1", FALSE),
   Command("sweep", "arms", "holdout2", "photo", "D1", TRUE),
   Command("rd-budget", "rd", "all", "photo", "none", FALSE),
   Command("report", "html", "all", "all", "none", TRUE)}

(* One table for each result, one that sums them up, one that quotes nothing.  *)
MCTables == {"tuned", "across", "summary", "prose"}
MCKind == [tuned |-> "ratio", across |-> "rows", summary |-> "summary", prose |-> "rows"]
MCSource == [tuned |-> <<"arms", "tune">>, across |-> <<"rd", "all">>,
             summary |-> <<"arms", "holdout2">>, prose |-> <<"arms", "tune">>]

MCCells == [tuned |-> 1, across |-> 2, summary |-> 2, prose |-> 0 - 1]
MCLists ==
  {[bound |-> {"tuned", "across"}, notes |-> {"prose", "summary"}, columnNotes |-> {"tuned"},
    cells |-> [t \in MCTables |-> IF t = "summary" THEN 0 - 1 ELSE MCCells[t]]],
   [bound |-> {"summary"}, notes |-> {"prose", "across"}, columnNotes |-> {},
    cells |-> [t \in MCTables |-> IF t = "summary" THEN 2 ELSE 0 - 1]]}

(* A figure that sets a row of one table against one of another, and a figure  *)
(* of the same file that nobody registered.                                    *)
MCFigures == {"margin", "stray"}
MCFile == [margin |-> "README", stray |-> "README"]
MCCites == [margin |-> <<<<"across", 2>>, <<"tuned", 2>>>>, stray |-> <<<<"across", 1>>>>]
=============================================================================
