-------------------------------- MODULE Http --------------------------------
(***************************************************************************)
(* How a request finds its handler and becomes an answer: the start of the *)
(* server, the order in which the routes are registered, the guards in     *)
(* front of them, the controllers, and the error handler behind.  What a   *)
(* service does is in the other modules; here it answers or fails.         *)
(***************************************************************************)
EXTENDS Naturals, Sequences, FiniteSets

CONSTANTS
  Environments   \* sets of the variables that are set when the server starts

VARIABLES
  environment,   \* those of this server
  running,       \* whether it listens
  http           \* the request at hand

httpVars == <<environment, running, http>>

-----------------------------------------------------------------------------
(* What a handler of a controller passes on and answers: whether it reads  *)
(* req.userId, whether it refuses input of the wrong form, and the status  *)
(* of its success.                                                         *)
Does(user, checks, status) == [user |-> user, checks |-> checks, status |-> status]

DesignController ==
  [getDesigns |-> Does(FALSE, TRUE, 200), getDesignDetail |-> Does(TRUE, TRUE, 200),
   createWish |-> Does(TRUE, TRUE, 200), deleteWish |-> Does(TRUE, TRUE, 200),
   getWishlist |-> Does(TRUE, TRUE, 200)]

DesignAdminController ==
  [createDesign |-> Does(FALSE, TRUE, 201), updateDesign |-> Does(FALSE, TRUE, 200),
   deleteDesign |-> Does(FALSE, TRUE, 204)]

EstimateRequestController ==
  [createEstimateRequest |-> Does(TRUE, TRUE, 201),
   getEstimatesByStatus |-> Does(TRUE, TRUE, 200)]

EstimateResponseController ==
  [receive |-> Does(FALSE, TRUE, 202), getDetail |-> Does(TRUE, TRUE, 200),
   getList |-> Does(TRUE, TRUE, 200), getProposalTimes |-> Does(TRUE, TRUE, 200)]

ReservationController ==
  [createReservation |-> Does(TRUE, TRUE, 201), getReservations |-> Does(TRUE, TRUE, 200),
   getReservationDetail |-> Does(TRUE, TRUE, 200),
   cancelReservation |-> Does(TRUE, TRUE, 204)]

ReviewController ==
  [createReview |-> Does(TRUE, TRUE, 201), updateReview |-> Does(TRUE, TRUE, 200),
   deleteReview |-> Does(TRUE, TRUE, 200)]

ShopQueryController ==
  [getList |-> Does(TRUE, TRUE, 200), search |-> Does(TRUE, TRUE, 200),
   getDetail |-> Does(TRUE, TRUE, 200), toggleWish |-> Does(TRUE, TRUE, 200),
   getWishlist |-> Does(TRUE, TRUE, 200), getReviews |-> Does(FALSE, TRUE, 200)]

ShopAdminController ==
  [getShops |-> Does(FALSE, TRUE, 200), getShop |-> Does(FALSE, TRUE, 200),
   createShop |-> Does(FALSE, TRUE, 201), updateShop |-> Does(FALSE, TRUE, 200),
   deactivateShop |-> Does(FALSE, TRUE, 200)]

ShopMatchingController == [match |-> Does(FALSE, TRUE, 200)]

ShopSyncController == [sync |-> Does(FALSE, TRUE, 200)]

(* A request without files counts as one of the wrong form. *)
ImageController == [uploadImage |-> Does(FALSE, TRUE, 200)]

UserAuthController ==
  [signup |-> Does(FALSE, TRUE, 201), login |-> Does(FALSE, TRUE, 200),
   refresh |-> Does(FALSE, TRUE, 200), logout |-> Does(FALSE, TRUE, 204)]

UserController ==
  [getMe |-> Does(TRUE, FALSE, 200), updateMe |-> Does(TRUE, TRUE, 200),
   deleteMe |-> Does(TRUE, FALSE, 204)]

UserAddressController ==
  [getAddresses |-> Does(TRUE, FALSE, 200), createAddress |-> Does(TRUE, TRUE, 201),
   updateAddress |-> Does(TRUE, TRUE, 200), deleteAddress |-> Does(TRUE, TRUE, 200)]

(* Redirections; callback takes a state other than the cookie's for wrong. *)
SocialAuthController ==
  [start |-> Does(FALSE, FALSE, 302), callback |-> Does(FALSE, TRUE, 302),
   completeLanding |-> Does(FALSE, TRUE, 200)]

NotificationController ==
  [getNotifications |-> Does(TRUE, TRUE, 200), markAsRead |-> Does(TRUE, TRUE, 200),
   markAllAsRead |-> Does(TRUE, FALSE, 200)]

NotificationSettingController ==
  [getSettings |-> Does(TRUE, FALSE, 200), updateSettings |-> Does(TRUE, TRUE, 200)]

DeviceTokenController ==
  [register |-> Does(TRUE, TRUE, 200), unregister |-> Does(TRUE, TRUE, 200)]

-----------------------------------------------------------------------------
(* A route: ":" in its path stands for any one segment.  Guards are "user" *)
(* (authMiddleware), the name of the key the others ask for, and "upload". *)
Route(method, path, guards, handler) ==
  [method |-> method, path |-> path, guards |-> guards, handler |-> handler]

User == <<"user">>
shopSyncAuth == <<"SHOP_SYNC_ADMIN_KEY">>
designAdminAuth == <<"DESIGN_ADMIN_KEY">>
smsWebhookAuth == <<"SMS_WEBHOOK_KEY">>

DesignRouter ==
  LET c == DesignController IN
  <<Route("GET", <<>>, <<>>, c.getDesigns),
    Route("GET", <<"wishlist">>, User, c.getWishlist),
    Route("GET", <<":">>, User, c.getDesignDetail),
    Route("POST", <<":", "wish">>, User, c.createWish),
    Route("DELETE", <<":", "wish">>, User, c.deleteWish)>>

EstimateRequestRouter ==
  LET c == EstimateRequestController IN
  <<Route("POST", <<>>, User, c.createEstimateRequest),
    Route("GET", <<":">>, User, c.getEstimatesByStatus)>>

EstimateResponseRouter ==
  LET c == EstimateResponseController IN
  <<Route("GET", <<"result", ":">>, User, c.getList),
    Route("POST", <<"sms">>, smsWebhookAuth, c.receive),
    Route("GET", <<":", "time">>, User, c.getProposalTimes),
    Route("GET", <<":", "detail">>, User, c.getDetail)>>

(* Variant: the list is registered without its guard. *)
ReservationRouterUnguarded ==
  LET c == ReservationController IN
  <<Route("POST", <<>>, User, c.createReservation),
    Route("GET", <<"detail">>, <<>>, c.getReservations),
    Route("GET", <<":">>, User, c.getReservationDetail),
    Route("DELETE", <<":">>, User, c.cancelReservation)>>

ReservationRouter ==
  LET c == ReservationController IN
  <<Route("POST", <<>>, User, c.createReservation),
    Route("GET", <<"detail">>, User, c.getReservations),
    Route("GET", <<":">>, User, c.getReservationDetail),
    Route("DELETE", <<":">>, User, c.cancelReservation)>>

ReviewRouter ==
  LET c == ReviewController IN
  <<Route("POST", <<>>, User, c.createReview),
    Route("PATCH", <<":">>, User, c.updateReview),
    Route("DELETE", <<":">>, User, c.deleteReview)>>

ShopMatchingRouter == <<Route("GET", <<"matches">>, <<>>, ShopMatchingController.match)>>

ShopQueryRouter ==
  LET c == ShopQueryController IN
  <<Route("GET", <<>>, User, c.getList),
    Route("GET", <<"search">>, User, c.search),
    Route("GET", <<":", "reviews">>, <<>>, c.getReviews),
    Route("GET", <<":">>, User, c.getDetail)>>

BookmarkToggleRouter == <<Route("POST", <<"toggle">>, User, ShopQueryController.toggleWish)>>

BookmarkListRouter == <<Route("GET", <<>>, User, ShopQueryController.getWishlist)>>

ImageRouter ==
  <<Route("POST", <<"upload">>, <<"user", "upload">>, ImageController.uploadImage)>>

UserAuthRouter ==
  LET c == UserAuthController IN
  <<Route("POST", <<"signup">>, <<>>, c.signup),
    Route("POST", <<"login">>, <<>>, c.login),
    Route("POST", <<"auth", "refresh">>, <<>>, c.refresh),
    Route("POST", <<"auth", "logout">>, <<>>, c.logout)>>

UserRouter ==
  LET c == UserController IN
  <<Route("GET", <<"me">>, User, c.getMe),
    Route("PATCH", <<"me">>, User, c.updateMe),
    Route("DELETE", <<"me">>, User, c.deleteMe)>>

UserAddressRouter ==
  LET c == UserAddressController IN
  <<Route("GET", <<>>, User, c.getAddresses),
    Route("POST", <<>>, User, c.createAddress),
    Route("PATCH", <<":">>, User, c.updateAddress),
    Route("DELETE", <<":">>, User, c.deleteAddress)>>

SocialAuthRouter ==
  LET c == SocialAuthController IN
  <<Route("GET", <<"kakao">>, <<>>, c.start),
    Route("GET", <<"naver">>, <<>>, c.start)>>

SocialAuthCallbackRouter ==
  LET c == SocialAuthController IN
  <<Route("GET", <<"kakao", "callback">>, <<>>, c.callback),
    Route("GET", <<"naver", "callback">>, <<>>, c.callback),
    Route("GET", <<"complete">>, <<>>, c.completeLanding)>>

NotificationSettingRouter ==
  LET c == NotificationSettingController IN
  <<Route("GET", <<"settings">>, User, c.getSettings),
    Route("PATCH", <<"settings">>, User, c.updateSettings)>>

NotificationRouter ==
  LET c == NotificationController IN
  <<Route("GET", <<>>, User, c.getNotifications),
    Route("PATCH", <<"read-all">>, User, c.markAllAsRead),
    Route("PATCH", <<":", "read">>, User, c.markAsRead)>>

DeviceTokenRouter ==
  LET c == DeviceTokenController IN
  <<Route("POST", <<>>, User, c.register),
    Route("DELETE", <<>>, User, c.unregister)>>

ShopSyncRouter ==
  <<Route("POST", <<"sync">>, shopSyncAuth, ShopSyncController.sync)>>

ShopAdminRouter ==
  LET c == ShopAdminController IN
  <<Route("GET", <<>>, shopSyncAuth, c.getShops),
    Route("POST", <<>>, shopSyncAuth, c.createShop),
    Route("GET", <<":">>, shopSyncAuth, c.getShop),
    Route("PATCH", <<":">>, shopSyncAuth, c.updateShop),
    Route("DELETE", <<":">>, shopSyncAuth, c.deactivateShop)>>

DesignAdminRouter ==
  LET c == DesignAdminController IN
  <<Route("POST", <<>>, designAdminAuth, c.createDesign),
    Route("PATCH", <<":">>, designAdminAuth, c.updateDesign),
    Route("DELETE", <<":">>, designAdminAuth, c.deleteDesign)>>

(* use(prefix, router) *)
Mount(prefix, router) ==
  [i \in DOMAIN router |-> [router[i] EXCEPT !.path = prefix \o @]]

V1Router ==
  Mount(<<"designs">>, DesignRouter) \o
  Mount(<<"estimate">>, EstimateRequestRouter) \o
  Mount(<<"estimate">>, EstimateResponseRouter) \o
  Mount(<<"reserve">>, ReservationRouter) \o
  Mount(<<"reviews">>, ReviewRouter) \o
  Mount(<<"shops">>, ShopMatchingRouter) \o
  Mount(<<"shops">>, ShopQueryRouter) \o
  Mount(<<"bookmark">>, BookmarkToggleRouter) \o
  Mount(<<"image">>, ImageRouter) \o
  Mount(<<"users">>, UserAuthRouter) \o
  Mount(<<"users", "me", "addresses">>, UserAddressRouter) \o
  Mount(<<"users">>, UserRouter) \o
  Mount(<<"users", "me", "bookmark">>, BookmarkListRouter) \o
  Mount(<<"auth">>, SocialAuthRouter) \o
  Mount(<<"notifications">>, NotificationSettingRouter) \o
  Mount(<<"notifications">>, NotificationRouter) \o
  Mount(<<"device-tokens">>, DeviceTokenRouter)

AdminV1Router ==
  Mount(<<"shops">>, ShopSyncRouter) \o
  Mount(<<"shops">>, ShopAdminRouter) \o
  Mount(<<"designs">>, DesignAdminRouter)

Routes ==
  <<Route("GET", <<"health">>, <<>>, Does(FALSE, FALSE, 200))>> \o
  Mount(<<"api", "auth">>, SocialAuthCallbackRouter) \o
  Mount(<<"api", "v1">>, V1Router) \o
  Mount(<<"admin", "api", "v1">>, AdminV1Router)

Matches(path, pattern) ==
  /\ Len(path) = Len(pattern)
  /\ \A i \in DOMAIN path : pattern[i] \in {path[i], ":"}

(* The routes that match a request, and the one that is registered first. *)
RoutesFor(method, path) ==
  {k \in DOMAIN Routes : Routes[k].method = method /\ Matches(path, Routes[k].path)}

FirstRoute(method, path) ==
  LET found == RoutesFor(method, path) IN
  IF found = {} THEN 0 ELSE CHOOSE k \in found : \A j \in found : k <= j

(* The paths of the API, with an id for each parameter, and one that is not. *)
Paths ==
  {[i \in DOMAIN Routes[k].path |-> IF Routes[k].path[i] = ":" THEN "7" ELSE Routes[k].path[i]] :
     k \in DOMAIN Routes} \union {<<"api", "v1", "nowhere">>}

-----------------------------------------------------------------------------
(* An error is an AppError or not; it has a status (0 without one), and    *)
(* may carry data.                                                         *)
Error(app, status, data) == [app |-> app, status |-> status, data |-> data]

UnauthorizedError == Error(TRUE, 401, FALSE)
RouteNotFoundError == Error(TRUE, 404, TRUE)

(* What a handler that refuses its input, a service, or a library throws. *)
Thrown ==
  {e \in [app : BOOLEAN, status : {0, 400, 401, 403, 404, 409, 500, 502, 503}, data : BOOLEAN] :
     IF e.app THEN e.status \notin {0, 503} ELSE e.status \in {0, 403, 503} /\ e.data}

KnownStatus(e) == e.status \in 400..499

ToAppError(e) ==
  CASE e.app -> e
    [] ~e.app /\ KnownStatus(e) -> Error(TRUE, e.status, FALSE)
    [] OTHER -> Error(TRUE, 500, FALSE)

(* guards: those still to pass; credential: the last one that was checked; *)
(* user: whether req.userId is set; form: of the input; served: whether    *)
(* the service was called; status and data: of the answer.                 *)
NoRequest ==
  [pc |-> "idle", method |-> "GET", path |-> <<>>, route |-> 0, guards |-> <<>>,
   credential |-> "unasked", user |-> FALSE, form |-> "unread", served |-> FALSE,
   error |-> Error(TRUE, 0, FALSE), status |-> 0, data |-> FALSE]

HttpTypeOK ==
  /\ environment \in Environments /\ running \in BOOLEAN
  /\ http.pc \in {"idle", "parse", "route", "guard", "handle", "error", "answered"}
  /\ http.route \in 0..Len(Routes)
  /\ http.credential \in {"unasked", "right", "wrong", "expired", "forged", "missing"}
  /\ http.form \in {"unread", "right", "wrong"}
  /\ (http.status = 0) <=> (http.pc # "answered")
  /\ http.pc # "idle" => running

HttpInit ==
  /\ environment \in Environments
  /\ running = FALSE
  /\ http = NoRequest

Required == {"JWT_ACCESS_SECRET", "JWT_REFRESH_SECRET", "DATABASE_URL"}

(* Without what is required the server ends at once. *)
Boot ==
  /\ ~running /\ Required \subseteq environment
  /\ running' = TRUE
  /\ UNCHANGED <<environment, http>>

Now(request) == http' = request /\ UNCHANGED <<environment, running>>

Throws(e) == Now([http EXCEPT !.pc = "error", !.error = e])

Receive(method, path) ==
  /\ running /\ http.pc \in {"idle", "answered"}
  /\ Now([NoRequest EXCEPT !.pc = "parse", !.method = method, !.path = path])

(* express.json() refuses a body that is no JSON, or too long. *)
ParseBody ==
  /\ http.pc = "parse"
  /\ \/ Now([http EXCEPT !.pc = "route"])
     \/ \E status \in {400, 413} : Throws(Error(FALSE, status, TRUE))

FindRoute ==
  LET k == FirstRoute(http.method, http.path) IN
  /\ http.pc = "route"
  /\ IF k = 0 THEN Throws(RouteNotFoundError)
     ELSE Now([http EXCEPT !.pc = "guard", !.route = k, !.guards = Routes[k].guards])

Passed(request) == [request EXCEPT !.guards = Tail(@)]

(* authMiddleware.  Only a server that started without the secret fails on *)
(* a right token.                                                          *)
CheckUser(credential) ==
  LET asked == [http EXCEPT !.credential = credential] IN
  /\ http.pc = "guard" /\ http.guards # <<>> /\ Head(http.guards) = "user"
  /\ CASE "JWT_ACCESS_SECRET" \notin environment ->
            Now([asked EXCEPT !.pc = "error", !.error = Error(FALSE, 0, FALSE)])
       [] "JWT_ACCESS_SECRET" \in environment /\ credential = "right" ->
            Now([Passed(asked) EXCEPT !.user = TRUE])
       [] OTHER -> Now([asked EXCEPT !.pc = "error", !.error = UnauthorizedError])

(* smsWebhookAuth, designAdminAuth and shopSyncAuth.  A key that is not    *)
(* configured lets nobody in.                                              *)
CheckKey(credential) ==
  LET asked == [http EXCEPT !.credential = credential] IN
  /\ http.pc = "guard" /\ http.guards # <<>> /\ Head(http.guards) \notin {"user", "upload"}
  /\ credential = "right" => Head(http.guards) \in environment
  /\ Now(IF credential = "right" THEN Passed(asked)
         ELSE [asked EXCEPT !.pc = "error", !.error = UnauthorizedError])

(* wrapMulterArray: too many files, too large or under another name, or no *)
(* images, are the client's fault; the rest is the server's.               *)
TakeFiles(outcome) ==
  /\ http.pc = "guard" /\ http.guards # <<>> /\ Head(http.guards) = "upload"
  /\ CASE outcome = "files" -> Now(Passed(http))
       [] outcome \in {"limit", "type"} -> Throws(Error(TRUE, 400, FALSE))
       [] OTHER -> Throws(Error(TRUE, 500, FALSE))

EnterHandler ==
  /\ http.pc = "guard" /\ http.guards = <<>>
  /\ Now([http EXCEPT !.pc = "handle"])

(* The controller: safeParse and a throw, or the service with what was     *)
(* parsed and the user's id; then the answer, or next(error).              *)
Handle(form) ==
  LET does == Routes[http.route].handler
      called == [http EXCEPT !.form = form, !.served = TRUE]
  IN
  /\ http.pc = "handle"
  /\ IF does.checks /\ form = "wrong" THEN
       Now([http EXCEPT !.pc = "error", !.form = form, !.error = Error(TRUE, 400, TRUE)])
     ELSE \/ Now([called EXCEPT !.pc = "answered", !.status = does.status])
          \/ \E e \in Thrown : Now([called EXCEPT !.pc = "error", !.error = e])

(* errorHandler *)
HandleError ==
  LET e == ToAppError(http.error) IN
  /\ http.pc = "error"
  /\ Now([http EXCEPT !.pc = "answered", !.status = e.status,
                      !.data = e.data /\ e.status < 500])

HttpNext ==
  \/ Boot
  \/ \E method \in {"GET", "POST", "PATCH", "DELETE"}, path \in Paths : Receive(method, path)
  \/ ParseBody \/ FindRoute \/ EnterHandler \/ HandleError
  \/ \E credential \in {"right", "missing", "expired", "forged"} : CheckUser(credential)
  \/ \E credential \in {"right", "missing", "wrong"} : CheckKey(credential)
  \/ \E outcome \in {"files", "limit", "type", "multer"} : TakeFiles(outcome)
  \/ \E form \in {"right", "wrong"} : Handle(form)

HttpSpec == HttpInit /\ [][HttpNext]_httpVars

-----------------------------------------------------------------------------
(* No request is taken by a route with a parameter while one that names    *)
(* the same path literally is registered behind it, as the comments at     *)
(* v1.router.ts:35 and design.route.ts:155-157 ask of the order.           *)
LiteralFirst ==
  http.route # 0 =>
    LET taken == Routes[http.route].path IN
    \A k \in RoutesFor(http.method, http.path) :
      LET other == Routes[k].path IN
      (\A i \in DOMAIN taken : other[i] = ":" => taken[i] = ":") => other = taken

(* A service that is given req.userId is called only after the token that  *)
(* it is from was checked (express.d.ts:4-6; where: { userId: undefined }  *)
(* would select everybody's rows), one of the administrators or the relay  *)
(* phone only with their key, and one that is given an id only if it is    *)
(* one.  No file is read for a stranger (image.route.ts:127).              *)
CallerIsKnown ==
  /\ http.served =>
       LET route == Routes[http.route] IN
       /\ route.handler.user => http.user
       /\ http.path[1] = "admin" \/ route.path = <<"api", "v1", "estimate", "sms">> =>
            http.credential = "right"
       /\ ":" \in {route.path[i] : i \in DOMAIN route.path} => http.form = "right"
  /\ http.pc = "guard" /\ http.guards = <<"upload">> => http.user

(* A right token is never refused for what is wrong with the server        *)
(* (server.ts:10-12).                                                      *)
RightTokenPasses ==
  http.pc = "error" /\ http.guards # <<>> /\ Head(http.guards) = "user" =>
    http.credential # "right"

(* An error of the server is answered as one, and without its data, which  *)
(* may be an error of the database; only a status from 400 to 499 that a   *)
(* library gave survives (error-handler.middleware.ts:6-18, 51-53).        *)
ErrorsTellNothing ==
  http.pc = "answered" =>
    /\ http.status >= 500 => ~http.data
    /\ ~http.error.app =>
         http.status = (IF http.error.status \in 400..499 THEN http.error.status ELSE 500)

(* A request gets to the handler meant for it, from a caller who is known, *)
(* and comes back as an answer that says no more than it should.           *)
RequestsAreRouted == LiteralFirst /\ CallerIsKnown /\ RightTokenPasses /\ ErrorsTellNothing
=============================================================================
