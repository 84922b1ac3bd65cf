----------------------------- MODULE PollTable -----------------------------
(***************************************************************************)
(* The storage of sv_fds in server.cpp: an array that malloc hands out in  *)
(* bytes and that the code counts in entries.  Which descriptor is in      *)
(* which entry is in module Server.                                        *)
(***************************************************************************)
EXTENDS Integers

CONSTANTS
  BACKLOG_MAX, \* entries of the first allocation
  EntrySize,   \* sizeof(pollfd)
  MaxEntries   \* bound: descriptors the process may have

VARIABLES
  sv_fds_count,    \* entries in use
  sv_fds_capacity, \* entries there is room for, as the code has it
  allocated        \* bytes of the allocation

tableVars == <<sv_fds_count, sv_fds_capacity, allocated>>

\* push_basic_fds: calloc of BACKLOG_MAX entries, and the three that stay.
TableInit ==
  /\ sv_fds_count = 3 /\ sv_fds_capacity = BACKLOG_MAX
  /\ allocated = BACKLOG_MAX * EntrySize

\* realloc is given a number of bytes, and shrinks as well as it grows.
AddNewPollfd ==
  /\ sv_fds_count < MaxEntries
  /\ IF sv_fds_count = sv_fds_capacity
     THEN allocated' = sv_fds_capacity * 2 /\ sv_fds_capacity' = sv_fds_capacity * 2
     ELSE UNCHANGED <<allocated, sv_fds_capacity>>
  /\ sv_fds_count' = sv_fds_count + 1

\* handle_shutdown_sub takes a subscriber's entry out.
RemovePollfd ==
  /\ sv_fds_count > 3
  /\ sv_fds_count' = sv_fds_count - 1
  /\ UNCHANGED <<allocated, sv_fds_capacity>>

TableSpec == TableInit /\ [][AddNewPollfd \/ RemovePollfd]_tableVars

\* server.cpp:19: add_new_pollfd_struc "adds a new pollfd struc to the global
\* server's file descriptors array": it is then inside that array.
EntriesAreAllocated == sv_fds_count * EntrySize <= allocated
=============================================================================
