------------------------------ MODULE MCRoutes ------------------------------
(* Routes with one name per field and numbers around zero. *)
EXTENDS Routes

SmallDelivers == {-1, 0, 1, 10}
SmallWaits    == {-1, 0, 30, 60}
=============================================================================
