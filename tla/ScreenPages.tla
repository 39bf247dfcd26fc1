----------------------------- MODULE ScreenPages -----------------------------
(***************************************************************************)
(* The pages of src/frontend/src/app as records of Screen.  A status is    *)
(* what the page tells rows apart by; a page number is the set of rows on  *)
(* that page.  Three rows of the record say which read the page makes and  *)
(* when, three what its markup shows, the rest what its handlers do.  Two  *)
(* independent parts of one page (the rate and the balance of a shop, the  *)
(* step and the rider of an order line) are two records.                   *)
(***************************************************************************)
EXTENDS Screen

\* A command, offered on rows shown in `from`, accepted in `accepts`.
Do(from, accepts, to) == [from |-> from, accepts |-> accepts, to |-> to]

\* A change someone else makes.
Move(accepts, to) == [accepts |-> accepts, to |-> to]

\* What other administrators do with the same page.
Theirs(commands) == {Move(c.accepts, c.to) : c \in commands}

\* The filters a page offers: every row in one of the given sets of statuses.
Filters(sets) == {Rows \X S : S \in sets}

\* The pages of a list, one row each.
Numbers(S) == {{r} \X S : r \in Rows}

\* The one object of a detail page.
Object == CHOOSE r \in Rows : TRUE
Detail(S) == {{Object} \X S}

-----------------------------------------------------------------------------
(* The loaders the pages share.                                            *)

\* useApi: the spinner only before the first answer, the error beside the
\* list, a row's own pending flag and error, reload() after a command.
ApiList(name, keys, starts) ==
    [name |-> name, keys |-> keys, starts |-> starts, live |-> "none",
     hides |-> "first", tells |-> TRUE, guard |-> "row", shares |-> FALSE,
     retries |-> FALSE, then |-> "reload", commands |-> {}, others |-> {}]

\* useApi on one object: without data an ErrorState stands instead of the page,
\* with data no error is drawn at all.
ApiDetail(name, S, starts) ==
    [ApiList(name, Detail(S), starts) EXCEPT !.tells = FALSE]

\* An effect written out in the page: the spinner replaces the list, one
\* pending id and one error for the page.
EffectList(name, keys, starts) ==
    [ApiList(name, keys, starts) EXCEPT
        !.hides = "always", !.guard = "page", !.shares = TRUE, !.then = "load"]

-----------------------------------------------------------------------------
(* Shops.                                                                  *)

ShopStatuses == {"PENDING", "APPROVED", "REJECTED"}

ShopFilters == Filters({{"PENDING"}, {"APPROVED"}, {"REJECTED"}, ShopStatuses})

ShopDecisions ==
    {Do({"PENDING"}, {"PENDING"}, "APPROVED"), Do({"PENDING"}, {"PENDING"}, "REJECTED")}

AdminShopsPage ==
    [EffectList("admin/shops", ShopFilters, {"PENDING"}) EXCEPT
        !.live = "quiet", !.commands = ShopDecisions, !.others = Theirs(ShopDecisions)]

PlaceShop == {Do({"UNPLACED", "PLACED"}, {"UNPLACED", "PLACED"}, "PLACED")}

AdminShopPage ==
    [ApiDetail("admin/shops/[id]", {"UNPLACED", "PLACED"}, {"UNPLACED"}) EXCEPT
        !.commands = PlaceShop, !.others = Theirs(PlaceShop)]

\* The payouts below the shop: their error is drawn, and so is an empty list.
AdminShopPayouts ==
    [ApiList("admin/shops/[id] payouts", Detail({"PROCESSING", "SUCCEEDED"}),
             {"NEW", "PROCESSING"}) EXCEPT
        !.others = {Move({"NEW"}, "PROCESSING"), Move({"PROCESSING"}, "SUCCEEDED")}]

-----------------------------------------------------------------------------
(* Customers, riders, categories, reviews.                                 *)

CustomerFilters == Filters({{"ACTIVE"}, {"BLOCKED"}, {"ACTIVE", "BLOCKED"}})

\* The switch sets the state it names, whatever the account's state has become.
BlockToggle ==
    {Do({"ACTIVE"}, {"ACTIVE", "BLOCKED"}, "BLOCKED"),
     Do({"BLOCKED"}, {"ACTIVE", "BLOCKED"}, "ACTIVE")}

AdminCustomersPage ==
    [ApiList("admin/customers", CustomerFilters, {"ACTIVE"}) EXCEPT
        !.commands = BlockToggle, !.others = Theirs(BlockToggle)]

AdminCustomerPage ==
    [ApiDetail("admin/customers/[id]", {"ACTIVE", "BLOCKED"}, {"ACTIVE", "BLOCKED"}) EXCEPT
        !.commands = BlockToggle, !.others = Theirs(BlockToggle)]

RiderFilters == Filters({{"ACTIVE"}, {"INACTIVE"}, {"ACTIVE", "INACTIVE"}})

RegisterRider == {Do({}, {"NEW"}, "ACTIVE")}

RiderToggle ==
    {Do({"ACTIVE"}, {"ACTIVE", "INACTIVE"}, "INACTIVE"),
     Do({"INACTIVE"}, {"ACTIVE", "INACTIVE"}, "ACTIVE")}

AdminRidersPage ==
    [EffectList("admin/riders", RiderFilters, {"NEW", "ACTIVE"}) EXCEPT
        !.commands = RegisterRider \cup RiderToggle, !.others = Theirs(RiderToggle)]

CategoryStatuses == {"NAMED", "RENAMED"}

AddCategory == {Do({}, {"NEW"}, "NAMED")}

\* A row that is being renamed or deleted; the last writer wins a name.
EditCategory ==
    {Do(CategoryStatuses, CategoryStatuses, "RENAMED"),
     Do(CategoryStatuses, CategoryStatuses, "GONE")}

AdminCategoriesPage ==
    [ApiList("admin/categories", Filters({CategoryStatuses}), {"NEW", "NAMED"}) EXCEPT
        !.commands = AddCategory \cup EditCategory, !.others = Theirs(EditCategory)]

RemoveReview == {Do({"POSTED"}, {"POSTED"}, "GONE")}

AdminReviewsPage ==
    [EffectList("admin/reviews", Numbers({"POSTED"}), {"POSTED"}) EXCEPT
        !.then = "fetch", !.commands = RemoveReview, !.others = Theirs(RemoveReview)]

-----------------------------------------------------------------------------
(* Orders, seen by an administrator, a rider, a customer and a guest.      *)

\* NEXT_STATUSES: the steps offered are those the server accepts, of a line
\* as it is shown.
LineSteps ==
    {Do({"PENDING"}, {"PENDING"}, "PROCESSING"),
     Do({"PROCESSING"}, {"PROCESSING"}, "SHIPPED"),
     Do({"SHIPPED"}, {"SHIPPED"}, "DELIVERED"),
     Do({"PENDING", "PROCESSING"}, {"PENDING", "PROCESSING"}, "CANCELLED")}

LineStatuses == {"PENDING", "PROCESSING", "SHIPPED", "DELIVERED", "CANCELLED"}

AdminOrdersPage ==
    [EffectList("admin/orders", Numbers(LineStatuses), {"PROCESSING"}) EXCEPT
        !.live = "quiet", !.then = "replace",
        !.commands = LineSteps, !.others = Theirs(LineSteps)]

RiderAssignment ==
    {Do({"NO_RIDER"}, {"NO_RIDER", "RIDER"}, "RIDER"),
     Do({"RIDER"}, {"NO_RIDER", "RIDER"}, "NO_RIDER")}

AdminAssignments ==
    [EffectList("admin/orders riders", Numbers({"NO_RIDER", "RIDER"}), {"NO_RIDER"}) EXCEPT
        !.live = "quiet", !.then = "replace",
        !.commands = RiderAssignment, !.others = Theirs(RiderAssignment)]

PaymentStatuses == {"PENDING", "SUCCEEDED", "FAILED"}

\* Confirm or reject a payment that is still pending.
ManualPaymentActions ==
    {Do({"PENDING"}, {"PENDING"}, "SUCCEEDED"), Do({"PENDING"}, {"PENDING"}, "FAILED")}

AdminOrderPage ==
    [ApiDetail("admin/orders/[id]", PaymentStatuses, {"PENDING"}) EXCEPT
        !.live = "loud", !.commands = ManualPaymentActions,
        !.others = Theirs(ManualPaymentActions)]

\* NEXT_STEP: picked up, then delivered.
RiderSteps ==
    {Do({"PROCESSING"}, {"PROCESSING"}, "SHIPPED"), Do({"SHIPPED"}, {"SHIPPED"}, "DELIVERED")}

RiderDeliveriesPage ==
    [EffectList("rider/deliveries", Filters({{"PROCESSING", "SHIPPED"}, {"DELIVERED"}}),
                {"PROCESSING"}) EXCEPT
        !.live = "quiet", !.then = "reload", !.commands = RiderSteps,
        !.others = Theirs(RiderSteps) \cup {Move({"PROCESSING"}, "CANCELLED")}]

\* An order is paid or not, then delivered, by others.
OrderMoves ==
    {Move({"AWAITING_PAYMENT"}, "PENDING"), Move({"AWAITING_PAYMENT"}, "PAYMENT_FAILED"),
     Move({"PENDING"}, "DELIVERED")}

OrderStatuses == {"AWAITING_PAYMENT", "PAYMENT_FAILED", "PENDING", "DELIVERED"}

OrdersPage ==
    [EffectList("orders", Numbers(OrderStatuses), {"AWAITING_PAYMENT"}) EXCEPT
        !.live = "quiet", !.others = OrderMoves]

\* Of a customer, or of a guest by the order's token; only a live update makes
\* it read again.
OrderDetailScreen ==
    [EffectList("orders/[id]", Detail(OrderStatuses), {"AWAITING_PAYMENT"}) EXCEPT
        !.live = "quiet", !.others = OrderMoves]

-----------------------------------------------------------------------------
(* Money.                                                                  *)

PaymentFilters == Filters({{"PENDING"}, {"SUCCEEDED"}, {"FAILED"}, PaymentStatuses})

AdminTransactionsPage ==
    [ApiList("admin/transactions", PaymentFilters, {"PENDING"}) EXCEPT
        !.others = Theirs(ManualPaymentActions)]

PayoutStatuses == {"PROCESSING", "SUCCEEDED", "FAILED"}
PayoutFilters == Filters({{"SUCCEEDED"}, {"PROCESSING"}, {"FAILED"}, PayoutStatuses})

PayoutOutcomes == {Move({"PROCESSING"}, "SUCCEEDED"), Move({"PROCESSING"}, "FAILED")}

AdminPayoutsPage ==
    [ApiList("admin/payouts", PayoutFilters, {"PROCESSING"}) EXCEPT
        !.others = PayoutOutcomes]

RetryPayout == {Do({"FAILED"}, {"FAILED"}, "PROCESSING")}

AdminPayoutPage ==
    [ApiDetail("admin/payouts/[id]", PayoutStatuses, {"FAILED"}) EXCEPT
        !.guard = "page", !.commands = RetryPayout,
        !.others = PayoutOutcomes \cup Theirs(RetryPayout)]

\* The figures of a range of dates.
AdminFinancePage ==
    [ApiList("admin/finance", Numbers({"OWED", "PAID"}), {"OWED"}) EXCEPT
        !.others = {Move({"OWED"}, "PAID"), Move({"PAID"}, "OWED")}]

\* A shop is paid what it has; a delivery makes it more.
PayOut == {Do({"OWED"}, {"OWED"}, "PAID")}

ShopBalances ==
    [ApiList("admin/finance shops", Numbers({"OWED", "PAID"}), {"OWED"}) EXCEPT
        !.commands = PayOut, !.others = Theirs(PayOut) \cup {Move({"PAID"}, "OWED")}]

\* A rate of the shop's own, or the default.
SaveRate ==
    {Do({"DEFAULT", "OWN"}, {"DEFAULT", "OWN"}, "OWN"),
     Do({"OWN"}, {"DEFAULT", "OWN"}, "DEFAULT")}

ShopRates ==
    [ApiList("admin/finance rates", Numbers({"DEFAULT", "OWN"}), {"DEFAULT"}) EXCEPT
        !.commands = SaveRate, !.others = Theirs(SaveRate)]

\* One settings record: saved here, or by another administrator.
SaveSettings == {Do({"OLD", "SAVED"}, {"OLD", "SAVED"}, "SAVED")}

DefaultRateCard ==
    [ApiList("admin/finance default rate", Detail({"OLD", "SAVED"}), {"OLD"}) EXCEPT
        !.commands = SaveSettings, !.others = {Move({"SAVED"}, "OLD")}]

DeliveryPricingCard ==
    [ApiList("admin/finance delivery pricing", Detail({"OLD", "SAVED"}), {"OLD"}) EXCEPT
        !.commands = SaveSettings, !.others = {Move({"SAVED"}, "OLD")}]

\* Events are only ever added.
AuditFilters == Filters({{"SHOP_EVENT"}, {"PAYMENT_EVENT"}, {"SHOP_EVENT", "PAYMENT_EVENT"}})

AdminAuditLogPage ==
    [ApiList("admin/audit-log", AuditFilters, {"NEW"}) EXCEPT
        !.others = {Move({"NEW"}, "SHOP_EVENT"), Move({"NEW"}, "PAYMENT_EVENT")}]

-----------------------------------------------------------------------------
(* Bookings.                                                               *)

BookingStatuses ==
    {"REQUESTED", "AWAITING_PAYMENT", "DECLINED", "CANCELLED", "EXPIRED"}

BookingMoves ==
    {Move({"REQUESTED"}, "AWAITING_PAYMENT"), Move({"REQUESTED"}, "DECLINED"),
     Move({"REQUESTED", "AWAITING_PAYMENT"}, "EXPIRED")}

CancelBooking ==
    {Do({"REQUESTED", "AWAITING_PAYMENT"}, {"REQUESTED", "AWAITING_PAYMENT"}, "CANCELLED")}

BookingFilters == Filters({{s} : s \in {"REQUESTED", "AWAITING_PAYMENT"}} \cup {BookingStatuses})

AdminBookingsPage ==
    [ApiList("admin/bookings", BookingFilters, {"REQUESTED"}) EXCEPT
        !.live = "loud", !.others = BookingMoves]

AdminBookingPage ==
    [ApiDetail("admin/bookings/[id]", BookingStatuses, {"REQUESTED"}) EXCEPT
        !.live = "loud", !.others = BookingMoves \cup Theirs(CancelBooking)]

BookingsPage ==
    [ApiList("bookings", Numbers(BookingStatuses), {"REQUESTED"}) EXCEPT
        !.live = "loud", !.others = BookingMoves]

BookingPage ==
    [ApiDetail("bookings/[id]", BookingStatuses, {"REQUESTED"}) EXCEPT
        !.live = "loud", !.guard = "page", !.retries = TRUE,
        !.commands = CancelBooking, !.others = BookingMoves]

-----------------------------------------------------------------------------
(* The storefront.                                                         *)

ProductFilters == Filters({{"DRAFT"}, {"PUBLISHED"}, {"DRAFT", "PUBLISHED", "DELETED"}})

\* A shop publishes, unpublishes and deletes its products.
ProductMoves ==
    {Move({"DRAFT"}, "PUBLISHED"), Move({"PUBLISHED"}, "DRAFT"),
     Move({"DRAFT", "PUBLISHED"}, "DELETED")}

AdminProductsPage ==
    [ApiList("admin/products", ProductFilters, {"PUBLISHED"}) EXCEPT
        !.others = ProductMoves]

\* A search or a category lists some of the published products.
CatalogFilters == Numbers({"PUBLISHED"}) \cup Filters({{"PUBLISHED"}})

ProductCatalog ==
    [EffectList("products", CatalogFilters, {"DRAFT", "PUBLISHED"}) EXCEPT
        !.others = ProductMoves]

ServiceCatalog ==
    [ApiList("services", CatalogFilters, {"DRAFT", "PUBLISHED"}) EXCEPT
        !.others = ProductMoves]

ServicePage ==
    [ApiDetail("services/[id]", {"PUBLISHED"}, {"PUBLISHED"}) EXCEPT
        !.others = ProductMoves]

\* The customer's own review of the product, written or written again.
SubmitReview == {Do({"UNREVIEWED", "REVIEWED"}, {"UNREVIEWED", "REVIEWED"}, "REVIEWED")}

ProductPage ==
    [EffectList("products/[id]", Detail({"UNREVIEWED", "REVIEWED"}), {"UNREVIEWED"}) EXCEPT
        !.shares = FALSE, !.then = "refetch", !.commands = SubmitReview,
        !.others = {Move({"REVIEWED"}, "UNREVIEWED")}]

\* A line of the cart: its quantity changed, or the line removed.
CartStatuses == {"ADDED", "CHANGED"}

ChangeLine ==
    {Do(CartStatuses, CartStatuses, "CHANGED"), Do(CartStatuses, CartStatuses, "GONE")}

CartPage ==
    [EffectList("cart", Filters({CartStatuses}), {"ADDED"}) EXCEPT
        !.commands = ChangeLine, !.others = Theirs(ChangeLine)]

-----------------------------------------------------------------------------
(* A vendor's own pages.                                                   *)

\* RequestActions: the row's flag lives in the row; whatever the answer, the
\* list is read again.
AnswerBooking ==
    {Do({"REQUESTED"}, {"REQUESTED"}, "AWAITING_PAYMENT"),
     Do({"REQUESTED"}, {"REQUESTED"}, "DECLINED")}

VendorBookingsPage ==
    [ApiList("vendor/bookings", BookingFilters, {"REQUESTED"}) EXCEPT
        !.live = "loud", !.retries = TRUE, !.commands = AnswerBooking,
        !.others = BookingMoves \cup Theirs(CancelBooking)]

\* The lines of paid orders: administrators and riders move them.
VendorOrdersPage ==
    [EffectList("vendor/orders", Numbers(LineStatuses), {"PENDING", "PROCESSING"}) EXCEPT
        !.live = "quiet", !.others = Theirs(LineSteps)]

Publication == {"DRAFT", "PUBLISHED"}

\* Publish, unpublish and remove name the state they want, whatever it was.
PublishOrRemove ==
    {Do({"DRAFT"}, Publication, "PUBLISHED"), Do({"PUBLISHED"}, Publication, "DRAFT"),
     Do(Publication, Publication, "DELETED")}

VendorServicesPage ==
    [ApiList("vendor/services", Numbers(Publication), {"DRAFT"}) EXCEPT
        !.guard = "page", !.commands = PublishOrRemove, !.others = Theirs(PublishOrRemove)]

VendorProductsPage ==
    [EffectList("vendor/products", Filters({Publication}), {"DRAFT"}) EXCEPT
        !.commands = PublishOrRemove, !.others = Theirs(PublishOrRemove)]

VendorReviewsPage ==
    [EffectList("vendor/reviews", Numbers({"POSTED"}), {"NEW", "POSTED"}) EXCEPT
        !.others = {Move({"NEW"}, "POSTED"), Move({"POSTED"}, "GONE")}]

\* Where a shop is paid: the details saved here, or from another tab.
VendorEarningsPage ==
    [ApiList("vendor/earnings", Filters({{"OLD", "SAVED"}}), {"OLD"}) EXCEPT
        !.commands = SaveSettings, !.others = {Move({"SAVED"}, "OLD")}]

VendorPayouts ==
    [ApiList("vendor/earnings payouts", Numbers(PayoutStatuses), {"PROCESSING"}) EXCEPT
        !.others = PayoutOutcomes]

-----------------------------------------------------------------------------

AllPages ==
    {AdminShopsPage, AdminShopPage, AdminShopPayouts, AdminCustomersPage,
     AdminCustomerPage, AdminRidersPage, AdminCategoriesPage, AdminReviewsPage,
     AdminOrdersPage, AdminAssignments, AdminOrderPage, RiderDeliveriesPage,
     OrdersPage, OrderDetailScreen, AdminTransactionsPage, AdminPayoutsPage,
     AdminPayoutPage, AdminFinancePage, ShopBalances, ShopRates, DefaultRateCard,
     DeliveryPricingCard, AdminAuditLogPage, AdminBookingsPage, AdminBookingPage,
     BookingsPage, BookingPage, AdminProductsPage, ProductCatalog, ServiceCatalog,
     ServicePage, ProductPage, CartPage, VendorBookingsPage, VendorOrdersPage,
     VendorServicesPage, VendorProductsPage, VendorReviewsPage, VendorEarningsPage,
     VendorPayouts}

=============================================================================
