----------------------------- MODULE MCDceTest -----------------------------
\* One session on a few output buffers, which are model values.
EXTENDS DceTest

MCBlocks == {"params", "dynParams", "status",
             "inBufs", "outBufs", "inArgs", "outArgs"}
=============================================================================
