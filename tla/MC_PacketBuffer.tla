--------------------------- MODULE MC_PacketBuffer ---------------------------
EXTENDS PacketBuffer

\* Two payloads of different lengths whose bytes, read as a size header,
\* give sizes within maxSize: a cut frame then yields packets, not an error.
MCPayloads == {<<1>>, <<0, 1>>}
=============================================================================
