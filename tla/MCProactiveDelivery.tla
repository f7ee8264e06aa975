------------------------- MODULE MCProactiveDelivery -------------------------
(***************************************************************************)
(* ProactiveDelivery for TLC: deliveries and targets are small numbers.    *)
(* The first two targets are chats of two channels with one chatId.        *)
(***************************************************************************)
EXTENDS ProactiveDelivery

MCChatOf == <<"shared", "shared", "own">>
=============================================================================
