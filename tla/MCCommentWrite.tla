---------------------------- MODULE MCCommentWrite ----------------------------
EXTENDS CommentWrite, TLC

CONSTANTS r1, r2, old, new, target

MCBodies == {old, new}
Create == [id |-> r1, action |-> "CREATE_COMMENT", previous |-> None, body |-> new, head |-> 1]
Update == [id |-> r2, action |-> "UPDATE_OWN_CREATED_COMMENT", previous |-> old, body |-> new,
           head |-> 1]
MCRequests == {Create, Update}
MCKeys == [request : MCRequests, trust : 1..MaxTrust]
===============================================================================
