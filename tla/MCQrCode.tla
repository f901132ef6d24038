------------------------------ MODULE MCQrCode ------------------------------
(* Model checking instance of QrCode: versions 1 to 5 and 7, the first with *)
(* more than one alignment pattern to a side; 106 bytes are cut by addECC.   *)
EXTENDS QrCode
=============================================================================
