--------------------------------- MODULE MCIam ---------------------------------
(***************************************************************************)
(* Three clients and the scripts they run against one local account and    *)
(* one of the identity provider.  A session and a refresh token last two   *)
(* ticks, an access token one; a lock two; a claimed code two ticks of the *)
(* three it is good for.                                                   *)
(***************************************************************************)
EXTENDS Iam

MCClients == {"c1", "c2", "c3"}
MCUsers == {"u1", "u2"}
MCWords == {"", "no", "old", "opaque", "pw1", "pw2", "s1"}
MCSids == 1..2
MCToks == 1..3
MCKeys == {"ip1", "ip2", "user"}
MCCodes == {[secret |-> "s1", at |-> 1]}
MCStates == {1}

Login(pw) == [Base EXCEPT !.op = "login", !.pw = pw]
LoginFrom(ip, pw) == [Login(pw) EXCEPT !.ip = ip]
LoginWith(code) == [Login("pw1") EXCEPT !.code = code]
Does(what) == [Base EXCEPT !.op = what]
Code == [secret |-> "s1", at |-> 1]
Update(st) == [Does("update") EXCEPT !.status = st]
Enable == [Does("enableMFA") EXCEPT !.secret = "s1"]
Confirm == [Does("confirmMFA") EXCEPT !.code = Code]
Disable == [Does("disableMFA") EXCEPT !.code = Code, !.old = "pw1"]
SignOut(gives) == [Does("logout") EXCEPT !.gives = gives]
NewPassword == [Does("updatePassword") EXCEPT !.old = "pw1", !.pw = "pw2"]
Reset == [Does("adminReset") EXCEPT !.pw = "pw2", !.resetMFA = TRUE]

Three(a, b, c) == [p \in MCClients |-> IF p = "c1" THEN a ELSE IF p = "c2" THEN b ELSE c]
Two(a, b) == Three(a, b, <<>>)
With(s, t, f, l) == [script |-> s, ticks |-> t, faults |-> f, losses |-> l]

MCWorkloads ==
    {\* one token exchanged by two at once while the session is signed out
     With(Three(<<Login("pw1"), Does("refresh")>>, <<Does("refresh")>>, <<SignOut("access")>>), 0, 1, 0),
     With(Two(<<Login("pw1"), SignOut("both")>>, <<Does("refresh"), Does("refresh")>>), 0, 1, 0),
     With(Two(<<Login("pw1"), SignOut("access")>>, <<Does("refresh"), Does("use")>>), 3, 0, 1),
     With(Two(<<Login("pw1"), SignOut("refresh")>>, <<Does("refresh"), Does("refresh")>>), 0, 1, 1),
     With(Two(<<Login("pw1"), SignOut("access")>>, <<Does("use")>>), 1, 1, 1),
     \* everything of the subject signed out while it signs in and exchanges
     With(Three(<<Login("pw1"), Does("logoutAll"), Does("use")>>, <<Does("refresh")>>, <<Login("pw1")>>), 0, 0, 1),
     With(Two(<<Login("pw1"), Does("logoutAll")>>, <<Does("refresh"), Does("use")>>), 0, 1, 1),
     With(Two(<<Login("pw1"), [Does("logoutAll") EXCEPT !.gives = "refresh"]>>, <<Does("refresh"), Does("use")>>), 3, 0, 0),
     \* failures from two addresses
     With(Three(<<Login("no"), Login("pw1")>>, <<LoginFrom("ip2", "no"), LoginFrom("ip2", "pw1")>>, <<>>), 2, 0, 0),
     With(Two(<<Login("no"), Login("no"), LoginFrom("ip2", "pw1")>>, <<>>), 3, 1, 1),
     \* the account changed by several
     With(Three(<<Login("pw1"), Does("use")>>, <<Update(Disabled), Update(2)>>, <<Does("updateCurrent")>>), 0, 0, 0),
     With(Three(<<Login("pw1"), Does("refresh")>>, <<Update(Disabled), Update(2)>>, <<>>), 0, 0, 0),
     With(Three(<<Login("pw1"), Login("pw2")>>, <<NewPassword>>, <<Reset>>), 0, 0, 0),
     With(Two(<<Login("pw1"), Does("use")>>, <<Reset>>), 0, 1, 0),
     With(Three(<<Does("delete"), Login("pw1")>>, <<Does("updateCurrent")>>, <<Update(Active)>>), 0, 0, 0),
     \* a second factor: confirmed, used, turned off
     With(Three(<<Enable, Confirm, LoginWith(Code)>>, <<LoginWith(Code)>>, <<Disable>>), 0, 0, 0),
     With(Two(<<Enable, Confirm, LoginWith(Code)>>, <<>>), 3, 1, 0),
     With(Two(<<Enable, Confirm, Login("pw1")>>, <<Does("updateCurrent")>>), 0, 0, 0),
     \* the identity provider
     With(Two(<<Does("oidcLogin"), Does("oidcCallback"), [Update(Disabled) EXCEPT !.user = "u2"]>>,
              <<Does("oidcCallback"), Does("use")>>), 0, 1, 0),
     With(Two(<<Does("oidcLogin"), Does("oidcCallback")>>, <<Does("oidcCallback")>>), 2, 0, 0)}
=============================================================================
