\* A late answer and an open editor (WikiView.jsx:95). EditsStayOnTheirNote is
\* violated.
SPECIFICATION Spec
CONSTANTS
  MaxNotes = 2
  MaxAsked = 2
CHECK_DEADLOCK FALSE
INVARIANT EditsStayOnTheirNote
