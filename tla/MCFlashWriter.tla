---------------------------- MODULE MCFlashWriter ----------------------------
EXTENDS FlashWriter

MCPage  == {0, 1}
MCImage == {"image1", "image2"}
MCData  == MCImage \cup {"blank", "zero", "pattern", "damaged"}
MCBit6  == [d \in MCData |-> IF d \in {"blank", "image1"} THEN 1 ELSE 0]
MCWorn  == {1}
=============================================================================
