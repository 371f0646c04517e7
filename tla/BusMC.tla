-------------------------------- MODULE BusMC --------------------------------
(***************************************************************************)
(* The instances of AxiQueries, which extends AxiAnalyzer, and of          *)
(* ApbAnalyzer that TLC checks.  A daemon analyzes one configuration at a  *)
(* time and keeps its result to itself, so the two share nothing, and a    *)
(* behaviour is of one.                                                    *)
(***************************************************************************)
EXTENDS AxiQueries

CONSTANTS
  Addrs,    \* of ApbAnalyzer
  LastTime  \* bound: the times of its file

ASSUME ApbAssumption ==
  /\ LastTime \in Nat /\ None \notin Addrs /\ None \notin BOOLEAN
  /\ None \notin [{"all", "wr", "rd"} -> Seq([time : Nat, addr : Addrs, write : BOOLEAN])]

VARIABLES now, wave, edge, scan, truth, transfers, cursor, shown, walk

Apb == INSTANCE ApbAnalyzer WITH MaybeX <- {"clk", "pwrite"}, result <- transfers

\* Ids are interchangeable.
Symmetry == Permutations(TxnIds)

MCWindows == {[begin |-> 2, end |-> LastEdge], [begin |-> 3, end |-> 4]}

\* A behaviour is of one part, which its first state chooses.
IsAxi == edge = None
MCInit ==
  \/ /\ Init
     /\ now = None /\ wave = None /\ edge = None /\ scan = None /\ truth = None
     /\ transfers = None /\ cursor = None /\ shown = None /\ walk = None
  \/ Apb!Init /\ t = None /\ bus = None /\ an = None /\ result = None
MCNext ==
  \/ IsAxi /\ Next /\ UNCHANGED <<now, wave, edge, scan, truth, transfers, cursor, shown, walk>>
  \/ ~IsAxi /\ Apb!Next /\ UNCHANGED vars
MCSpec == MCInit /\ [][MCNext]_<<vars, now, wave, edge, scan, truth, transfers, cursor, shown, walk>>

AxiWritesAreTrue == IsAxi => WritesAreTrue
AxiLookupsAreTheBus == IsAxi => LookupsAreTheBus
AxiStatsAreTheBus == IsAxi => StatsAreTheBus
AxiWindowsAreExact == IsAxi => WindowsAreExact
ApbScanIsTheBus == ~IsAxi => Apb!ScanIsTheBus
ApbWalkShowsAll == ~IsAxi => Apb!WalkShowsAll
ApbLookupsAgree == ~IsAxi => Apb!LookupsAgree
ApbWindowsAreExact == ~IsAxi => Apb!WindowsAreExact

\* wr and rd by number, first and last, apb.transfer_window, and the context of an
\* event, all of one mind about the vectors that analyze made.
ApbAnswersAgree == ApbLookupsAgree /\ ApbWindowsAreExact
=============================================================================
