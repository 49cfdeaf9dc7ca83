---- MODULE MCNetchan ----
\* A small instance of Netchan over both transports: fragments of two bytes,
\* messages of one to four bytes, so that messages of one packet, of two, and of
\* two full fragments and an empty one mix; a loopback of three packets, which
\* the longest message just fits.
EXTENDS Loopback
CONSTANTS a, b
MCByte == {a, b}
MCMessages == {<<a>>, <<b, a>>, <<a, b, b>>, <<b, b, a, a>>}
====
