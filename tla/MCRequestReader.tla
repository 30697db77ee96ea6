-------------------------- MODULE MCRequestReader ---------------------------
(***************************************************************************)
(* Messages at and just over the limits, for a buffer of ten bytes and     *)
(* requests of at most eight.  The method "O" is the only one known.       *)
(***************************************************************************)
EXTENDS RequestReader

MCByte == {0, 1, 4, 6, 7, 10, 13, 32, 36, 79, 98}

MCMethods == {<<79>>}

Eol == <<13, 10>>
FrameOf(len, payload) == <<36, 0, 0, len>> \o payload

MCMessage ==
  { <<79>> \o Eol \o Eol,
    <<79>> \o Eol \o <<98>> \o Eol \o Eol,      \* the limit
    <<79, 32, 98, 98, 98>> \o Eol \o Eol,       \* one over it
    <<79>> \o Eol \o Eol \o <<98>>,             \* with a body
    Eol,                                       \* stray
    FrameOf(0, <<>>),
    FrameOf(4, Eol \o Eol),
    FrameOf(6, <<36>> \o Eol \o Eol \o <<36>>), \* fills the ring
    FrameOf(7, <<36>> \o Eol \o Eol \o <<36, 36>>),  \* does not fit
    <<36, 0, 1, 0>> }                          \* 256 to come

=============================================================================
