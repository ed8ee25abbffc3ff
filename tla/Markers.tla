------------------------------- MODULE Markers -------------------------------
(***************************************************************************)
(* The markers of hardware changes: a file the user adds lines to and      *)
(* deletes them from, by identifier, in the Experiments window.  Closing   *)
(* and opening History again gives a second one beside the first, and each *)
(* goes on showing what it read last.                                      *)
(***************************************************************************)
EXTENDS Values, Integers, FiniteSets

CONSTANTS
    Minutes,    \* when a change may have been made
    Tables,     \* the Experiments windows there may be
    MaxMarkers  \* bound on the markers made in a behaviour

\* A marker of the file.
Marker == [made : Nat, when : Minutes, suffix : Nat, blind : BOOLEAN]

ASSUME MarkerConstants ==
    /\ Minutes \subseteq Nat /\ MaxMarkers \in Nat
    /\ None \notin Marker

VARIABLES
    minute,    \* the current minute
    markers,   \* the file: markers, numbered as they are made; blind is one that was made
               \* without the others being read
    made,      \* how many were made
    markerTables,    \* the windows: [listed, selected, detail], or None
    deletion   \* the last deletion: [asked, gone, late], or None, late if
               \* the marker asked for was no longer in the file

markerVars == <<minute, markers, made, markerTables, deletion>>

MarkersInit ==
    /\ minute \in Minutes /\ \A m \in Minutes : minute <= m
    /\ markers = {}
    /\ made = 0
    /\ markerTables = [w \in Tables |-> None]
    /\ deletion = None

\* experiment_id: exp-<second>, then exp-<second>-2 and so on.
IdOf(marker) == <<marker.when, marker.suffix>>

\* read_experiments_file: nothing if it cannot be read.
Listings == {markers, {}}

\* Newest change first, of one minute in the order of the file.
Above(a, b) == a.when > b.when \/ (a.when = b.when /\ a.made < b.made)
TopOf(list) == CHOOSE m \in list : \A o \in list \ {m} : Above(m, o)

\* Mutant, used by no specification: the suffix is the number of markers of the minute.
BugFreeSuffix(when, listed) == Cardinality({m \in listed : m.when = when}) + 1

\* new_experiment_record
FreeSuffix(when, listed) ==
    LET taken == {m.suffix : m \in {x \in listed : x.when = when}}
    IN CHOOSE n \in 1 .. Cardinality(listed) + 1 : n \notin taken /\ 1 .. n - 1 \subseteq taken

-----------------------------------------------------------------------------
\* Of the markers with an identifier, the one furthest down.
LastOf(list, marker) ==
    CHOOSE m \in list : /\ IdOf(m) = IdOf(marker)
                        /\ \A o \in list \ {m} : IdOf(o) = IdOf(marker) => Above(o, m)

\* _on_select, which the tree calls before anything else is done.  _reports keeps one
\* report for each identifier, the last made.
Chosen(list, marker) == [listed |-> list, selected |-> marker, detail |-> LastOf(list, marker)]

\* _reload: the marker asked for is selected, or the first.  A table without markers says
\* so in place of a report.
Loaded(list, asked) ==
    IF list = {} THEN [listed |-> {}, selected |-> None, detail |-> None]
    ELSE IF asked = None \/ \A m \in list : IdOf(m) # IdOf(asked) THEN Chosen(list, TopOf(list))
    ELSE Chosen(list, LastOf(list, asked))

Unchosen == deletion' = None

OpenTable(w) ==
    /\ markerTables[w] = None
    /\ \E listed \in Listings : markerTables' = [markerTables EXCEPT ![w] = Loaded(listed, None)]
    /\ Unchosen
    /\ UNCHANGED <<minute, markers, made>>

CloseTable(w) ==
    /\ markerTables[w] # None
    /\ markerTables' = [markerTables EXCEPT ![w] = None]
    /\ Unchosen
    /\ UNCHANGED <<minute, markers, made>>

RefreshTable(w) ==
    /\ markerTables[w] # None
    /\ \E listed \in Listings : markerTables' = [markerTables EXCEPT ![w] = Loaded(listed, None)]
    /\ Unchosen
    /\ UNCHANGED <<minute, markers, made>>

SelectMarker(w) ==
    /\ markerTables[w] # None
    /\ \E m \in markerTables[w].listed :
           markerTables' = [markerTables EXCEPT ![w] = Chosen(@.listed, m)]
    /\ Unchosen
    /\ UNCHANGED <<minute, markers, made>>

-----------------------------------------------------------------------------
\* _mark_change: a change of the past, numbered among the markers that could be read.  It
\* is shown once it is written, and not without.
MarkChange(w) ==
    /\ markerTables[w] # None
    /\ made < MaxMarkers
    /\ \E when \in {m \in Minutes : m <= minute}, listed \in Listings :
       LET marker == [made |-> made + 1, when |-> when, suffix |-> FreeSuffix(when, listed),
                      blind |-> listed # markers]
       IN \/ UNCHANGED <<markers, made, markerTables>>
          \/ /\ markers' = markers \cup {marker}
             /\ made' = made + 1
             /\ \E now \in {markers', {}} :
                    markerTables' = [markerTables EXCEPT ![w] = Loaded(now, marker)]
    /\ Unchosen
    /\ UNCHANGED minute

\* delete_experiment: every marker in the file under this identifier, if it could be read
\* and replaced.  Nothing is shown anew where nothing was deleted.
DeleteSelected(w) ==
    /\ markerTables[w] # None /\ markerTables[w].selected # None
    /\ \E listed \in Listings :
       LET asked == markerTables[w].selected
           gone == {m \in listed : IdOf(m) = IdOf(asked)}
       IN /\ deletion' = [asked |-> asked, gone |-> gone, late |-> asked \notin markers]
          /\ IF gone = {} THEN UNCHANGED <<markers, markerTables>>
             ELSE \/ UNCHANGED <<markers, markerTables>>
                  \/ /\ markers' = listed \ gone
                     /\ \E now \in {markers', {}} :
                            markerTables' = [markerTables EXCEPT ![w] = Loaded(now, None)]
    /\ UNCHANGED <<minute, made>>

MinutePasses ==
    /\ \E m \in Minutes : m > minute /\ minute' = m
    /\ Unchosen
    /\ UNCHANGED <<markers, made, markerTables>>

MarkersNext ==
    \/ MinutePasses
    \/ \E w \in Tables :
           \/ OpenTable(w) \/ CloseTable(w) \/ RefreshTable(w) \/ SelectMarker(w)
           \/ MarkChange(w) \/ DeleteSelected(w)

-----------------------------------------------------------------------------
\* Was one of two markers numbered without the other being read?
Blindly(a, b) == a.blind \/ b.blind

\* Whatever several windows do: two markers share an identifier only if the file could
\* not be read when one was made; a deletion takes the marker that was selected and, under
\* its identifier, no other, unless such a pair exists or the selected marker was
\* already gone; and the report below a table is that of the selected marker, unless it
\* shares its identifier with another.
MarkersAreTrue ==
    /\ \A a \in markers : \A b \in markers \ {a} : IdOf(a) = IdOf(b) => Blindly(a, b)
    /\ deletion # None =>
           \A m \in deletion.gone :
               \/ m = deletion.asked
               \/ /\ m.when = deletion.asked.when
                  /\ ~deletion.late => Blindly(m, deletion.asked)
    /\ \A w \in Tables : markerTables[w] # None =>
           LET t == markerTables[w]
           IN /\ t.selected \in t.listed \cup {None}
              /\ t.listed # {} => t.selected # None
              /\ t.listed # {} =>
                     \/ t.detail = t.selected
                     \/ IdOf(t.detail) = IdOf(t.selected) /\ Blindly(t.detail, t.selected)
=============================================================================
