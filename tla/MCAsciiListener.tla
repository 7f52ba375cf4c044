--------------------------- MODULE MCAsciiListener ---------------------------
(* AsciiListener in small: a telegram of two lines and its '!'.             *)
EXTENDS AsciiListener

CONSTANTS energy, power

MCCodes == {energy, power}
MCText  == <<energy, power>>
MCData  == [from : MCCodes, push : 1 .. PushMod]
MCOctet == {Newline, Mark, Zero, Noise} \cup {Code(c) : c \in MCCodes}
                                        \cup {Value(d) : d \in MCData}
=============================================================================
