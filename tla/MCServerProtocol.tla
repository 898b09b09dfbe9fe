-------------------------- MODULE MCServerProtocol --------------------------
(***************************************************************************)
(* Clients for TLC.                                                        *)
(***************************************************************************)
EXTENDS ServerProtocolProperties

CONSTANTS a, b

\* The first command always, the second sometimes; the negative numbers become
\* large ones that no command has.
MCSeekTexts == {<<0, 1>>, <<1, 0>>, <<0, -1>>, <<-1, 0>>}

Seeks == {<<s, NL>> : s \in MCSeekTexts}

\* A short line, one that takes two chunks, one that fills a chunk and leaves
\* its newline for the next, two lines at once, half a line, and nothing.
Lines == {<<a, NL>>, <<a, b, b, NL>>, <<b, a, NL>>, <<NL, a, NL>>, <<b>>, <<>>}

\* Zero bytes at the start and inside of a chunk, and a seek command where a
\* chunk of a long line begins.
Odd == {<<NUL, a, NL>>, <<a, NUL, NL>>, <<a, a, <<0, 1>>, NL>>, <<<<0, 1>>>>}

AllMessages   == Lines \cup Seeks \cup Odd
PlainMessages == {<<a, NL>>, <<a, b, b, NL>>, <<b>>} \cup Seeks

\* A device that is empty, and one that is full.
MCEarlier == {<<>>, <<<<b, NL>>, <<a, b, NL>>>>}
Empty     == {<<>>}
=============================================================================
