---------------------------- MODULE LogContainer ----------------------------
(***************************************************************************)
(* logging::ContainerSingleton: the last MaxEntries errors, a counter of   *)
(* those dropped, and the status page, which asks hasErrors and then       *)
(* getErrorsHtml in two visits to the mutex while others go on logging.    *)
(*                                                                         *)
(* An entry is its number, counted from the start of the program, and the  *)
(* size of its line on the page. An addLog that runs out of memory is      *)
(* caught and changes nothing. A definition whose name ends in Mutant is a *)
(* faulty variant of the one after it and no part of the specification.    *)
(***************************************************************************)
EXTENDS Naturals, Sequences

CONSTANTS
    MaxEntries,    \* 100 in the code
    LineSize,      \* sizes of lines on the page
    maxHtmlSize,   \* 50 * 1024 - 100 less the head of the page
    Viewer,        \* HTTP threads asked for /status
    MaxLogs        \* bound on the number of errors

ASSUME LogAssumption ==
    /\ MaxEntries \in Nat \ {0} /\ maxHtmlSize \in Nat /\ MaxLogs \in Nat
    /\ LineSize \subseteq Nat \ {0}

Entry == [nr : 1 .. MaxLogs, size : LineSize]

VARIABLES
    mLogEntries,
    mRemovedErrors,
    logged,     \* how many errors there have been
    viewerPc,
    html        \* the page a viewer has been given, and logged at that time

logVars == <<mLogEntries, mRemovedErrors, logged>>
viewVars == <<viewerPc, html>>

NoPage == [lines |-> <<>>, dots |-> FALSE, removed |-> 0, logged |-> 0]

LogTypeOK ==
    /\ mLogEntries \in Seq(Entry)
    /\ mRemovedErrors \in 0 .. MaxLogs /\ logged \in 0 .. MaxLogs
    /\ viewerPc \in [Viewer -> {"idle", "errors", "ok", "page"}]
    /\ html \in [Viewer -> [lines : Seq(Entry), dots : BOOLEAN,
                            removed : 0 .. MaxLogs, logged : 0 .. MaxLogs]]

LogInit ==
    /\ mLogEntries = <<>> /\ mRemovedErrors = 0 /\ logged = 0
    /\ viewerPc = [v \in Viewer |-> "idle"]
    /\ html = [v \in Viewer |-> NoPage]

SurplusMutant(entries) == IF Len(entries) > MaxEntries + 1 THEN 1 ELSE 0

\* "while(mLogEntries.size() > 100)": the oldest entries to be dropped.
Surplus(entries) ==
    IF Len(entries) > MaxEntries THEN Len(entries) - MaxEntries ELSE 0

addLog(size) ==
    LET entries == Append(mLogEntries, [nr |-> logged + 1, size |-> size])
    IN  /\ logged < MaxLogs /\ logged' = logged + 1
        /\ mLogEntries' = SubSeq(entries, Surplus(entries) + 1, Len(entries))
        /\ mRemovedErrors' = mRemovedErrors + Surplus(entries)
        /\ UNCHANGED viewVars

hasErrors(v) ==
    /\ viewerPc[v] = "idle"
    /\ viewerPc' = [viewerPc EXCEPT
          ![v] = IF mLogEntries # <<>> THEN "errors" ELSE "ok"]
    /\ UNCHANGED <<logVars, html>>

\* Size of the first n lines together.
Lines[n \in Nat] == IF n = 0 THEN 0 ELSE Lines[n - 1] + mLogEntries[n].size

Fits(n) == Lines[n] <= maxHtmlSize

\* Oldest first, up to the first line that is too much: how many are shown.
ShownLines ==
    {n \in 0 .. Len(mLogEntries) :
        Fits(n) /\ (n < Len(mLogEntries) => ~Fits(n + 1))}

getErrorsHtmlMutant(v) ==
    /\ viewerPc[v] = "errors"
    /\ viewerPc' = [viewerPc EXCEPT ![v] = "page"]
    /\ \E n \in ShownLines :
          html' = [html EXCEPT ![v] =
              [lines |-> SubSeq(mLogEntries, 1, n),
               dots |-> FALSE,
               removed |-> mRemovedErrors, logged |-> logged]]
    /\ UNCHANGED logVars

getErrorsHtml(v) ==
    /\ viewerPc[v] = "errors"
    /\ viewerPc' = [viewerPc EXCEPT ![v] = "page"]
    /\ \E n \in ShownLines :
          html' = [html EXCEPT ![v] =
              [lines |-> SubSeq(mLogEntries, 1, n),
               dots |-> n < Len(mLogEntries),
               removed |-> mRemovedErrors, logged |-> logged]]
    /\ UNCHANGED logVars

\* The page is on its way, or "status: ok" with the time of the last update.
respond(v) ==
    /\ viewerPc[v] \in {"page", "ok"}
    /\ viewerPc' = [viewerPc EXCEPT ![v] = "idle"]
    /\ html' = [html EXCEPT ![v] = NoPage]
    /\ UNCHANGED logVars

ViewerStep(v) == getErrorsHtml(v) \/ respond(v)

-----------------------------------------------------------------------------
(***************************************************************************)
(* Properties.                                                             *)
(***************************************************************************)

\* The container holds the newest errors, no more than its limit and in the
\* order they came, and those it no longer holds are counted.
NewestErrorsAreKept ==
    /\ Len(mLogEntries) <= MaxEntries
    /\ mRemovedErrors + Len(mLogEntries) = logged
    /\ \A k \in DOMAIN mLogEntries : mLogEntries[k].nr = mRemovedErrors + k

\* Whatever is logged and dropped between the two visits to the mutex, a page
\* of errors has something to show, its lines follow those it counts as
\* removed without a gap, and "..." stands on it exactly if it leaves out
\* some of the rest.
PageAccountsForAll ==
    \A v \in Viewer : viewerPc[v] = "page" =>
        LET p == html[v] IN
            /\ p.lines # <<>> \/ p.dots
            /\ \A k \in DOMAIN p.lines : p.lines[k].nr = p.removed + k
            /\ p.dots <=> p.removed + Len(p.lines) < p.logged
=============================================================================
