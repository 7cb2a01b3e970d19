-------------------------- MODULE ResourceListing --------------------------
(* How a client lists the domain definitions page by page while others are   *)
(* published (sdk_adapter.py, client_gateway.py, agent_service/server.py).   *)
(* The server keeps nothing between two pages: a cursor holds an offset and  *)
(* the version of the catalogue it counts in, and definitions are listed in  *)
(* the order of their names, so that a new one may come before the offset.   *)
EXTENDS Naturals, Sequences, FiniteSets, FiniteSetsExt

CONSTANTS
    Definitions,  \* numbers, in the order of their names
    PageSize,     \* MCP_RESOURCE_PAGE_SIZE
    Collectors,   \* clients that collect all pages themselves (list_resources)
    Pagers,       \* clients that ask for a page at a time (list_resource_page)
    NoCursor

VARIABLES
    catalogue,    \* the definitions of the project
    listing       \* of each client: its entries so far, their version, what comes next

listingVars == <<catalogue, listing>>

Clients == Collectors \cup Pagers

ASSUME ListingAssumption ==
    /\ Definitions \subseteq Nat /\ PageSize \in Nat \ {0}
    /\ Collectors \cap Pagers = {}
    /\ NoCursor \notin [offset : Nat, version : SUBSET Definitions]
-----------------------------------------------------------------------------
(* list_definitions: all versions, in order; the descriptor of the catalogue *)
(* itself comes first.  The version of the catalogue is a hash of its list.  *)
Before(d, version) == Cardinality({e \in version : e < d})
Entries(version) ==
    [k \in 1..Cardinality(version) + 1 |->
        IF k = 1 THEN 0 ELSE CHOOSE d \in version : Before(d, version) = k - 2]

Cursor(offset, version) == [offset |-> offset, version |-> version]

(* _resource_page: from the offset of a cursor that counts in this version.  *)
Offset(cursor) == IF cursor = NoCursor THEN 0 ELSE cursor.offset
Page(cursor) ==
    LET from == Offset(cursor)
        end == Min({from + PageSize, Len(Entries(catalogue))})
    IN [entries |-> SubSeq(Entries(catalogue), from + 1, end),
        next |-> IF end < Len(Entries(catalogue)) THEN Cursor(end, catalogue) ELSE NoCursor]

\* Mutant: a cursor of another version is taken.
CurrentAny(cursor) == TRUE
IsCurrent(cursor) == IF cursor = NoCursor THEN TRUE ELSE cursor.version = catalogue
-----------------------------------------------------------------------------
NotBegun == [entries |-> <<>>, version |-> {}, next |-> NoCursor, state |-> "new"]

ListingInit == catalogue = {} /\ listing = [c \in Clients |-> NotBegun]

PublishDefinition(d) ==
    /\ d \notin catalogue
    /\ catalogue' = catalogue \cup {d}
    /\ UNCHANGED listing

(* A client asks for its first page, or for the next one.                    *)
Begin(c) == listing[c].state \in {"new", "done", "changed"}
AskPage(c) ==
    LET cursor == IF Begin(c) THEN NoCursor ELSE listing[c].next
        before == IF Begin(c) THEN <<>> ELSE listing[c].entries
        page == Page(cursor)
    IN /\ IsCurrent(cursor)
       /\ listing' = [listing EXCEPT ![c] =
             [entries |-> before \o page.entries, version |-> catalogue, next |-> page.next,
              state |-> IF page.next = NoCursor THEN "done" ELSE "listing"]]
       /\ UNCHANGED catalogue

(* resource_catalog_changed: to be started again from the first page.  A     *)
(* collector gives up what it has.                                           *)
Changed(c) ==
    /\ listing[c].state = "listing" /\ ~IsCurrent(listing[c].next)
    /\ listing' = [listing EXCEPT ![c] =
          [@ EXCEPT !.state = "changed", !.next = NoCursor,
                    !.entries = IF c \in Collectors THEN <<>> ELSE listing[c].entries]]
    /\ UNCHANGED catalogue

ListingNext ==
    \/ \E d \in Definitions : PublishDefinition(d)
    \/ \E c \in Clients : AskPage(c) \/ Changed(c)

ListingSpec == ListingInit /\ [][ListingNext]_listingVars
-----------------------------------------------------------------------------
ListingTypeOK ==
    /\ catalogue \subseteq Definitions
    /\ \A c \in Clients :
          /\ listing[c].state \in {"new", "listing", "changed", "done"}
          /\ listing[c].version \subseteq catalogue

(* What the pages of a chain of cursors make up is a catalogue that there    *)
(* was: when the chain ends, all of one version, each entry once; and a      *)
(* chain breaks off only if the catalogue has changed since it began.        *)
ListingSound ==
    \A c \in Clients :
        /\ listing[c].state = "done" => listing[c].entries = Entries(listing[c].version)
        /\ listing[c].state = "changed" => listing[c].version # catalogue
=============================================================================
