------------------------------- MODULE Reports -------------------------------
(***************************************************************************)
(* Compliance reports: rows that only name a format and a range of days,   *)
(* and downloads that read the logs of that range when they are asked for. *)
(* A PDF is laid out row by row; lengths are points.  The height of a page *)
(* is 841.89: everything else is whole, so 841 decides every comparison.   *)
(***************************************************************************)
EXTENDS Integers, FiniteSets

CONSTANTS
    Ids,        \* ids of reports
    None,       \* no report
    Days,
    Bulks,      \* how many logs arrive at a time
    MaxReports, MaxArrivals     \* bounds of the model

VARIABLES
    reports,    \* the stored rows
    stored,     \* number of logs by day
    download,   \* the download being answered
    removing,   \* the row a DELETE has found
    pdf,        \* the document being sent
    created,    \* how many reports there have been
    arrivals    \* and how many times logs have arrived

reportVars == <<reports, stored, download, removing, pdf, created, arrivals>>

\* csv and json are written in one go.
Formats == {"pdf", "json"}
Idle == [at |-> "idle", report |-> None, rows |-> 0]
NoPdf == [drawn |-> {}, next |-> 0, page |-> 1, rowY |-> 0, footers |-> {}]

ReportInit ==
    /\ reports = [i \in Ids |-> None]
    /\ stored = [d \in Days |-> 0]
    /\ download = Idle /\ removing = None /\ pdf = NoPdf
    /\ created = 0 /\ arrivals = 0

\* The row is `ready` from the start: nothing is generated before a download.
Create(i) ==
    /\ created < MaxReports /\ reports[i] = None
    /\ \E format \in Formats, from, to \in Days :
        reports' = [reports EXCEPT ![i] = [format |-> format, from |-> from, to |-> to]]
    /\ created' = created + 1
    /\ UNCHANGED <<stored, download, removing, pdf, arrivals>>

\* remove: the row is looked up, then deleted by its id; the second of two that found
\* it fails.
FindToRemove(i) ==
    /\ removing = None /\ reports[i] # None
    /\ removing' = i
    /\ UNCHANGED <<reports, stored, download, pdf, created, arrivals>>

Remove ==
    /\ removing # None
    /\ reports' = [reports EXCEPT ![removing] = None]
    /\ removing' = None
    /\ UNCHANGED <<stored, download, pdf, created, arrivals>>

\* download: the row first, its logs in a second statement.
Find(i) ==
    /\ download.at = "idle" /\ reports[i] # None
    /\ download' = [download EXCEPT !.at = "found", !.report = reports[i]]
    /\ UNCHANGED <<reports, stored, removing, pdf, created, arrivals>>

\* The number of logs of a day in the range.
InRange(report) ==
    Cardinality(UNION {{d} \X (1 .. stored[d]) : d \in Days \cap (report.from .. report.to)})

ML == 48
ROW_H == 24
PageHeight == 841
BOTTOM_MARGIN == ML + 56
FooterRule == PageHeight - ML - 16 - 8

\* Header bar, meta block and stat cards above the table of the first page.
META_Y == 40 + 64 + 14
STAT_Y == META_Y + 96 + 14
SECTION_Y == STAT_Y + 60 + 20
drawTableHeader(y) == y + 18
FirstRow == drawTableHeader(SECTION_Y + 22)
ContinuedRow == drawTableHeader(ML + 8)

\* Mutant: the room of the footer is not set aside.
Overflow_NoFooter(y) == y + ROW_H > PageHeight - ML
Overflow(y) == y + ROW_H > PageHeight - BOTTOM_MARGIN

\* drawFooter, addPage, and the header again.
Continued(p) ==
    [p EXCEPT !.footers = @ \cup {p.page}, !.page = p.page + 1, !.rowY = ContinuedRow]

\* A document being drawn: where its rows are, and which pages have their footer.
Document ==
    [drawn : SUBSET (Nat \X Nat), next : Nat, page : Nat, rowY : Nat, footers : SUBSET Nat]

\* One turn of logs.forEach: on a new page if there is no room.
Turn[p \in Document] ==
    LET q == IF Overflow(p.rowY) THEN Continued(p) ELSE p
    IN [q EXCEPT !.drawn = @ \cup {<<q.page, q.rowY>>}, !.next = @ + 1, !.rowY = @ + ROW_H]

\* The document after k turns.
forEach[k \in Nat] ==
    IF k = 0 THEN [NoPdf EXCEPT !.rowY = FirstRow] ELSE Turn[forEach[k - 1]]

\* The footer of the last page; without a log one line of text stands in the table.
EndPdf(p) == [p EXCEPT !.footers = @ \cup {p.page}]

\* The document of n logs, drawn in one go.
generatePdf(n) == EndPdf(forEach[n])

ReadLogs ==
    /\ download.at = "found"
    /\ LET n == InRange(download.report) IN
       IF download.report.format = "pdf"
       THEN /\ download' = [download EXCEPT !.at = "sent", !.rows = n]
            /\ pdf' = generatePdf(n)
       ELSE download' = Idle /\ UNCHANGED pdf
    /\ UNCHANGED <<reports, stored, removing, created, arrivals>>

Sent ==
    /\ download.at = "sent"
    /\ download' = Idle /\ pdf' = NoPdf
    /\ UNCHANGED <<reports, stored, removing, created, arrivals>>

\* Submissions and retention change the logs under a download.
LogsArrive ==
    /\ \E d \in Days, n \in Bulks :
        stored' = [stored EXCEPT ![d] = @ + n]
    /\ arrivals < MaxArrivals /\ arrivals' = arrivals + 1
    /\ UNCHANGED <<reports, download, removing, pdf, created>>

LogsErased ==
    /\ \E d \in Days : stored[d] > 0 /\ stored' = [stored EXCEPT ![d] = 0]
    /\ UNCHANGED <<reports, download, removing, pdf, created, arrivals>>

ReportNext ==
    \/ \E i \in Ids : Create(i) \/ FindToRemove(i) \/ Find(i)
    \/ Remove \/ ReadLogs \/ Sent
    \/ LogsArrive \/ LogsErased

ReportSpec == ReportInit /\ [][ReportNext]_reportVars

-----------------------------------------------------------------------------
\* Whatever the number of logs, each has a row of its own between the header of its page
\* and the rule above the footer, no row reaches into the next, and every page has its
\* footer: rowY runs through the loop of generatePdf and is corrected in the middle of it.
RowsFit ==
    download.at = "sent" =>
        /\ pdf.next = download.rows /\ Cardinality(pdf.drawn) = download.rows
        /\ \A row \in pdf.drawn :
            /\ row[2] >= IF row[1] = 1 THEN FirstRow ELSE ContinuedRow
            /\ row[2] + ROW_H <= FooterRule
            /\ \A other \in pdf.drawn :
                row[1] = other[1] /\ row[2] < other[2] => row[2] + ROW_H <= other[2]
        /\ pdf.footers = 1 .. pdf.page
=============================================================================
