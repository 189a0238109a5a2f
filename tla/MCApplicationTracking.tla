----------------------- MODULE MCApplicationTracking -----------------------
EXTENDS ApplicationTracking

\* One the candidate applied to, one made by a generation of documents.
MCOpening ==
  << [of |-> 1, status |-> "APPLIED", applied |-> 1, updated |-> 2,
      events |-> << [status |-> "APPLIED", date |-> 1, read |-> 0] >>],
     [of |-> 2, status |-> "DRAFT", applied |-> 0, updated |-> 3, events |-> <<>>] >>
============================================================================
